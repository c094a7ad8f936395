------------------------ MODULE OperatorConsole_proofs ------------------------
(***************************************************************************)
(* Safety of the Zalo user bridge for any number of groups and messages,   *)
(* any limits and any number of process starts; then of the operator page, *)
(* for any number of sessions and requests. The bridge under the page is   *)
(* the bridge of ZaloBridge: what is proved of it is true with the page.   *)
(***************************************************************************)
EXTENDS OperatorConsole, Limiter_proofs, FiniteSetTheorems

-----------------------------------------------------------------------------
(* The session: process, bridge, socket and the two histories about them.  *)

BridgeState ==
  [status : Status, stopped : BOOLEAN, attempts : 0..MaxAttempts,
   handle : BOOLEAN, due : BOOLEAN, known : SUBSET Group]

SessionType ==
  /\ process \in [count : Nat, phase : {"login", "running", "stopping"}]
  /\ bridge \in BridgeState
  /\ socket \in {"none", "opening", "open", "closing", "closed"}
  /\ retries \in Nat
  /\ fatal \subseteq Code

\* A handle is set exactly while its callback is scheduled.
HandleIsTimer == bridge.handle = bridge.due

\* What each phase of the process leaves to the socket and the timer.
PhaseInv ==
  /\ bridge.stopped <=> process.phase = "stopping"
  /\ process.phase = "login" =>
       bridge.status = "disconnected" /\ socket = "none" /\ fatal = {}
  /\ process.phase = "running" => socket \in {"opening", "open", "closed"}
  /\ process.phase = "stopping" =>
       bridge.status = "disconnected" /\ socket \in {"closing", "closed"}
  /\ bridge.due => process.phase = "running" /\ socket = "closed"

StatusInv ==
  /\ bridge.status = "connected" <=> socket = "open"
  /\ process.phase = "running" =>
       (bridge.status = "disconnected" <=> bridge.due \/ socket = "opening")

\* The counter of the bridge is ahead of the history by the pending retry.
RetryInv ==
  /\ retries <= MaxAttempts
  /\ process.phase = "login" => retries = 0
  /\ process.phase = "running" =>
       bridge.attempts = IF bridge.due THEN retries + 1 ELSE retries

FatalInv ==
  /\ fatal # {} => socket = "closed" /\ ~bridge.due
  /\ process.phase = "running" =>
       /\ "kick" \in fatal => bridge.status = "reauthentication_required"
       /\ "other" \in fatal => bridge.status = "error"

SessionInv == SessionType /\ HandleIsTimer /\ PhaseInv /\ StatusInv /\ RetryInv
              /\ FatalInv

\* Cancelling leaves a bridge without timer; nothing else about it changes.
LEMMA CancelledFields ==
  ASSUME NEW b \in BridgeState, b.handle = b.due
  PROVE  /\ Cancelled(b) \in BridgeState
         /\ Cancelled(b).handle = FALSE /\ Cancelled(b).due = FALSE
         /\ Cancelled(b).status = b.status /\ Cancelled(b).stopped = b.stopped
         /\ Cancelled(b).attempts = b.attempts /\ Cancelled(b).known = b.known
BY DEF Cancelled, BridgeState

\* Scheduling a reconnect sets the handle and counts it.
LEMMA ScheduledFields ==
  ASSUME NEW b \in BridgeState, b.attempts < MaxAttempts
  PROVE  /\ Scheduled(b) \in BridgeState
         /\ Scheduled(b).handle = TRUE /\ Scheduled(b).due = TRUE
         /\ Scheduled(b).status = "disconnected"
         /\ Scheduled(b).stopped = b.stopped /\ Scheduled(b).known = b.known
         /\ Scheduled(b).attempts = b.attempts + 1
<1>1. b.attempts \in 0..MaxAttempts /\ MaxAttempts \in Nat
  BY BridgeAssumption DEF BridgeState, BridgeAssumption
<1>2. b.attempts + 1 \in 0..MaxAttempts
  BY <1>1
<1> QED
  BY <1>1, <1>2 DEF Scheduled, BridgeState, Status

\* A bridge without a timer, with the given fields.
Resting(b, status, stopped, attempts, known) ==
  /\ b \in BridgeState /\ b.handle = FALSE /\ b.due = FALSE
  /\ b.status = status /\ b.stopped = stopped
  /\ b.attempts = attempts /\ b.known = known

\* The fields the callbacks assign after cancelling.
LEMMA AssignedFields ==
  ASSUME NEW b \in BridgeState, b.handle = b.due,
         NEW s \in Status, NEW n \in 0..MaxAttempts, NEW x \in BOOLEAN
  PROVE  /\ Resting([Cancelled(b) EXCEPT !.status = s, !.stopped = x, !.attempts = n],
                     s, x, n, b.known)
         /\ Resting([Cancelled(b) EXCEPT !.stopped = x, !.status = s],
                     s, x, b.attempts, b.known)
         /\ Resting([Cancelled(b) EXCEPT !.attempts = n, !.status = s],
                     s, b.stopped, n, b.known)
         /\ Resting([Cancelled(b) EXCEPT !.status = s],
                     s, b.stopped, b.attempts, b.known)
<1> DEFINE c == Cancelled(b)
<1>1. /\ c \in BridgeState /\ c.handle = FALSE /\ c.due = FALSE
      /\ c.status = b.status /\ c.stopped = b.stopped
      /\ c.attempts = b.attempts /\ c.known = b.known
  BY CancelledFields
<1> HIDE DEF c
<1>2. /\ Resting([c EXCEPT !.status = s, !.stopped = x, !.attempts = n],
                  s, x, n, b.known)
      /\ Resting([c EXCEPT !.stopped = x, !.status = s],
                  s, x, b.attempts, b.known)
      /\ Resting([c EXCEPT !.attempts = n, !.status = s],
                  s, b.stopped, n, b.known)
      /\ Resting([c EXCEPT !.status = s],
                  s, b.stopped, b.attempts, b.known)
  BY <1>1 DEF Resting, BridgeState
<1> QED
  BY <1>2 DEF c

\* A new process meets the invariant of the session.
LEMMA SessionInit == Init => SessionInv
BY BridgeAssumption
   DEF Init, NewBridge, BridgeState, SessionInv, SessionType, HandleIsTimer, PhaseInv, StatusInv,
       RetryInv, FatalInv, Status, BridgeAssumption

\* Steps of the hub, of deliveries, of the clock and of commands that leave the
\* session alone preserve its invariant.
LEMMA SessionUntouched ==
  ASSUME SessionInv,
         UNCHANGED <<process, socket, retries, fatal>>,
         \/ bridge' = bridge
         \/ \E k \in SUBSET Group : bridge' = [bridge EXCEPT !.known = k]
  PROVE  SessionInv'
BY DEF SessionInv, SessionType, BridgeState, HandleIsTimer, PhaseInv, StatusInv,
       RetryInv, FatalInv

\* Every step preserves the invariant of the session.
LEMMA SessionStep == SessionInv /\ [Next]_vars => SessionInv'
<1> SUFFICES ASSUME SessionInv, [Next]_vars PROVE SessionInv'
  OBVIOUS
<1> USE BridgeAssumption DEF BridgeAssumption
<1>0. bridge \in BridgeState /\ bridge.handle = bridge.due
  BY DEF SessionInv, SessionType, HandleIsTimer
<1>1. CASE Start
  <2>1. /\ bridge' \in BridgeState /\ bridge'.known = bridge.known
        /\ bridge'.handle = FALSE /\ bridge'.due = FALSE
        /\ bridge'.status = "disconnected" /\ bridge'.stopped = FALSE
        /\ bridge'.attempts = 0
    <3>1. Resting(bridge', "disconnected", FALSE, 0, bridge.known)
      <4>1. 0 \in 0..MaxAttempts
        OBVIOUS
      <4> QED
        BY <1>0, <1>1, <4>1, AssignedFields DEF Start, Status
    <3> QED
      BY <3>1 DEF Resting
  <2> QED
    BY <1>1, <2>1 DEF Start, SessionInv, SessionType, HandleIsTimer, PhaseInv,
                      StatusInv, RetryInv, FatalInv
<1>2. CASE Stop
  <2>1. /\ bridge' \in BridgeState /\ bridge'.known = bridge.known
        /\ bridge'.handle = FALSE /\ bridge'.due = FALSE
        /\ bridge'.status = "disconnected" /\ bridge'.stopped = TRUE
    <3>1. Resting(bridge', "disconnected", TRUE, bridge.attempts, bridge.known)
      <4>1. 0 \in 0..MaxAttempts
        OBVIOUS
      <4> QED
        BY <1>0, <1>2, <4>1, AssignedFields DEF Stop, Status
    <3> QED
      BY <3>1 DEF Resting
  <2> QED
    BY <1>2, <2>1 DEF Stop, SessionInv, SessionType, HandleIsTimer, PhaseInv,
                      StatusInv, RetryInv, FatalInv
<1>3. CASE Restart
  BY <1>3 DEF Restart, NewBridge, BridgeState, SessionInv, SessionType, HandleIsTimer,
              PhaseInv, StatusInv, RetryInv, FatalInv, Status
<1>4. CASE Connected
  <2>1. CASE bridge.stopped
    <3>1. bridge' = bridge /\ UNCHANGED <<process, retries, fatal>>
          /\ socket' = socket
      BY <1>4, <2>1 DEF Connected, OnConnected, SessionInv, PhaseInv
    <3> QED
      BY <3>1, SessionUntouched
  <2>2. CASE ~bridge.stopped
    <3>1. /\ bridge' \in BridgeState
          /\ bridge'.handle = FALSE /\ bridge'.due = FALSE
          /\ bridge'.status = "connected" /\ bridge'.stopped = FALSE
          /\ bridge'.attempts = 0
      <4>1. Resting(bridge', "connected", bridge.stopped, 0, bridge.known)
        <5>1. 0 \in 0..MaxAttempts
          OBVIOUS
        <5>2. bridge' = [Cancelled(bridge) EXCEPT !.attempts = 0, !.status = "connected"]
          BY <1>4, <2>2 DEF Connected, OnConnected
        <5>3. "connected" \in Status /\ bridge.stopped \in BOOLEAN
          BY <1>0 DEF Status, BridgeState
        <5> QED
          BY <1>0, <5>1, <5>2, <5>3, AssignedFields
      <4> QED
        BY <2>2, <4>1 DEF Resting
    <3>2. /\ process.phase = "running" /\ socket = "opening" /\ socket' = "open"
          /\ fatal = {} /\ retries' = 0 /\ UNCHANGED <<process, fatal>>
      BY <1>4, <2>2 DEF Connected, SessionInv, SessionType, PhaseInv, FatalInv
    <3>3. SessionType' /\ HandleIsTimer'
      BY <3>1, <3>2 DEF SessionInv, SessionType, HandleIsTimer
    <3>4. PhaseInv' /\ StatusInv'
      BY <3>1, <3>2 DEF PhaseInv, StatusInv
    <3>5. RetryInv' /\ FatalInv'
      BY <3>1, <3>2 DEF RetryInv, FatalInv
    <3> QED
      BY <3>3, <3>4, <3>5 DEF SessionInv
  <2> QED
    BY <2>1, <2>2
<1>5. ASSUME NEW code \in Code, Closed(code) PROVE SessionInv'
  <2>1. CASE bridge.stopped
    BY <1>5, <2>1 DEF Closed, OnClosed, SessionInv, SessionType, HandleIsTimer,
                      PhaseInv, StatusInv, RetryInv, FatalInv
  <2>0. ASSUME ~bridge.stopped
        PROVE  /\ process.phase = "running" /\ socket \in {"opening", "open"}
               /\ ~bridge.due /\ fatal = {} /\ retries = bridge.attempts
    BY <1>5, <2>0 DEF Closed, SessionInv, SessionType, PhaseInv, FatalInv, RetryInv
  <2>2. CASE ~bridge.stopped /\ code = "kick"
    <3>1. bridge' = [Cancelled(bridge) EXCEPT !.status = "reauthentication_required"]
      BY <1>5, <2>2 DEF Closed, OnClosed
    <3>2. /\ bridge' \in BridgeState /\ bridge'.stopped = bridge.stopped
          /\ bridge'.handle = FALSE /\ bridge'.due = FALSE
          /\ bridge'.status = "reauthentication_required"
          /\ bridge'.attempts = bridge.attempts
      <4>1. Resting(bridge', "reauthentication_required", bridge.stopped,
                    bridge.attempts, bridge.known)
        <5>1. 0 \in 0..MaxAttempts
          OBVIOUS
        <5> QED
          BY <1>0, <3>1, <5>1, AssignedFields DEF Status
      <4> QED
        BY <4>1 DEF Resting
    <3> QED
      BY <1>5, <2>0, <2>2, <3>2 DEF Closed, SessionInv, SessionType, HandleIsTimer,
         PhaseInv, StatusInv, RetryInv, FatalInv
  <2>3. CASE /\ ~bridge.stopped /\ code # "kick"
             /\ code = "other" \/ bridge.attempts >= MaxAttempts
    <3>1. bridge' = [bridge EXCEPT !.status = "error"]
      BY <1>5, <2>3 DEF Closed, OnClosed
    <3> QED
      BY <1>5, <2>0, <2>3, <3>1 DEF Closed, SessionInv, SessionType, BridgeState,
         HandleIsTimer, PhaseInv, StatusInv, RetryInv, FatalInv, Status
  <2>4. CASE ~bridge.stopped /\ code = "abnormal" /\ bridge.attempts < MaxAttempts
    <3>1. bridge' = Scheduled(bridge)
      BY <1>0, <1>5, <2>0, <2>4 DEF Closed, OnClosed, BridgeState
    <3>2. /\ bridge' \in BridgeState /\ bridge'.stopped = bridge.stopped
          /\ bridge'.handle = TRUE /\ bridge'.due = TRUE
          /\ bridge'.status = "disconnected"
          /\ bridge'.attempts = bridge.attempts + 1
      BY <1>0, <2>4, <3>1, ScheduledFields
    <3>3. fatal' = fatal /\ socket' = "closed" /\ UNCHANGED <<process, retries>>
      BY <1>5, <2>4 DEF Closed
    <3> QED
      BY <2>0, <2>4, <3>2, <3>3 DEF SessionInv, SessionType, HandleIsTimer, PhaseInv,
         StatusInv, RetryInv, FatalInv
  <2> QED
    BY <1>0, <2>1, <2>2, <2>3, <2>4 DEF Code, BridgeState
<1>6. CASE TimerFires
  <2>1. /\ bridge' \in BridgeState /\ bridge'.stopped = bridge.stopped
        /\ bridge'.handle = FALSE /\ bridge'.due = FALSE
        /\ bridge'.status = bridge.status /\ bridge'.attempts = bridge.attempts
    BY <1>0, <1>6 DEF TimerFires, Fired, BridgeState
  <2>2. /\ process.phase = "running" /\ socket = "closed" /\ fatal = {}
        /\ ~bridge.stopped /\ bridge.attempts = retries + 1
        /\ bridge.status = "disconnected"
    BY <1>6 DEF TimerFires, SessionInv, PhaseInv, StatusInv, RetryInv, FatalInv
  <2>3. socket' = "opening" /\ retries' = retries + 1 /\ UNCHANGED <<process, fatal>>
    BY <1>6, <2>2 DEF TimerFires
  <2>4. retries' \in Nat /\ retries' <= MaxAttempts
    BY <1>0, <2>2, <2>3 DEF BridgeState, SessionInv, SessionType
  <2> QED
    BY <2>1, <2>2, <2>3, <2>4 DEF SessionInv, SessionType, HandleIsTimer, PhaseInv,
       StatusInv, RetryInv, FatalInv
<1>7. ASSUME NEW m \in Message,
             Inbound(m) \/ HubStores(m) \/ HubFails(m) \/ LateRequest(m)
             \/ DeliveryTimesOut(m)
      PROVE  SessionInv'
  BY <1>7, SessionUntouched
     DEF Inbound, HubStores, HubFails, LateRequest, DeliveryTimesOut
<1>8. ASSUME NEW m \in Message, Answered(m) PROVE SessionInv'
  <2>1. GroupOf[m] \in Group /\ bridge.known \in SUBSET Group
    BY DEF SessionInv, SessionType, BridgeState
  <2> QED
    BY <1>8, <2>1, SessionUntouched DEF Answered
<1>9. CASE Tick \/ \E g \in Group : PageSends(g) \/ ControlSends(g)
  BY <1>9, SessionUntouched DEF Tick, PageSends, ControlSends
<1>10. CASE UNCHANGED vars
  BY <1>10, SessionUntouched DEF vars
<1> QED
  BY <1>1, <1>2, <1>3, <1>4, <1>5, <1>6, <1>7, <1>8, <1>9, <1>10 DEF Next

\* The status an operator sees is the state of the socket, in every reachable
\* state; nothing is scheduled or open after a stop.
THEOREM StatusTrue == Spec => []StatusIsSocket
<1>1. SessionInv => StatusIsSocket
  BY DEF SessionInv, HandleIsTimer, PhaseInv, StatusInv, StatusIsSocket
<1> QED
  BY <1>1, SessionInit, SessionStep, PTL DEF Spec

\* A kick, an unexpected close and the last retry are final.
THEOREM FinalGiveUp == Spec => []GivingUpIsFinal
<1>1. SessionInv => GivingUpIsFinal
  BY DEF SessionInv, SessionType, PhaseInv, StatusInv, FatalInv, GivingUpIsFinal,
         Status
<1> QED
  BY <1>1, SessionInit, SessionStep, PTL DEF Spec

\* There are at most MaxAttempts reconnects between two connections.
THEOREM BoundedRetries == Spec => []RetriesBounded
<1>1. SessionInv => RetriesBounded
  BY DEF SessionInv, RetryInv, RetriesBounded
<1> QED
  BY <1>1, SessionInit, SessionStep, PTL DEF Spec

-----------------------------------------------------------------------------
(* Deliveries, and the sends that rely on them.                            *)

CallRecord == [group : Group, time : 0..MaxTime, process : Nat]

DeliveryType ==
  /\ delivery \in [Message -> {"idle", "posted", "204", "refused"}]
  /\ accepted \subseteq Message
  /\ calls \in Seq(CallRecord)
  /\ clock \in 0..MaxTime

\* The hub answers 204 for what it has stored, and only what was accepted is
\* under way.
DeliveryInv ==
  \A m \in Message :
    /\ delivery[m] = "204" => m \in stored
    /\ delivery[m] # "idle" => m \in accepted

\* Each known group has a message this process made durable.
KnownInv == \A g \in bridge.known : \E m \in accepted \cap stored : GroupOf[m] = g

EligibilityInv == SessionInv /\ DeliveryType /\ DeliveryInv /\ KnownInv
                  /\ NothingLostSilently

\* Nothing is under way when the first process starts.
LEMMA EligibilityInit == Init => EligibilityInv
<1> SUFFICES ASSUME Init PROVE EligibilityInv
  OBVIOUS
<1>1. SessionInv
  BY SessionInit
<1>2. DeliveryType /\ DeliveryInv /\ KnownInv /\ NothingLostSilently
  BY BridgeAssumption DEF Init, NewBridge, DeliveryType, DeliveryInv, KnownInv,
     NothingLostSilently, BridgeAssumption
<1> QED
  BY <1>1, <1>2 DEF EligibilityInv

\* A command appends at most one call.
LEMMA SendType ==
  ASSUME NEW g \in Group, SessionType, DeliveryType, SendGroup(g)
  PROVE  calls' \in Seq(CallRecord) /\ Call(g) \in CallRecord
<1>1. Call(g) \in CallRecord
  BY DEF Call, CallRecord, SessionType, DeliveryType
<1>2. Append(calls, Call(g)) \in Seq(CallRecord)
  BY <1>1 DEF DeliveryType
<1> QED
  BY <1>1, <1>2 DEF SendGroup, DeliveryType

\* Every step preserves the invariant of deliveries.
LEMMA EligibilityStep == EligibilityInv /\ [Next]_vars => EligibilityInv'
<1> SUFFICES ASSUME EligibilityInv, [Next]_vars PROVE EligibilityInv'
  OBVIOUS
<1> USE BridgeAssumption DEF BridgeAssumption
<1>0. SessionInv'
  BY SessionStep DEF EligibilityInv
<1> SUFFICES (DeliveryType /\ DeliveryInv /\ KnownInv /\ NothingLostSilently)'
  BY <1>0 DEF EligibilityInv
<1>1. CASE Start \/ Stop \/ Connected \/ TimerFires \/ \E code \in Code : Closed(code)
  <2>1. UNCHANGED <<delivery, late, stored, accepted, reported, clock, calls>>
    BY <1>1 DEF Start, Stop, Connected, TimerFires, Closed, network, limits
  <2>2. bridge'.known = bridge.known
    <3>1. bridge \in BridgeState /\ bridge.handle = bridge.due
      BY DEF EligibilityInv, SessionInv, SessionType, HandleIsTimer
    <3>2. Cancelled(bridge).known = bridge.known /\ Cancelled(bridge) \in BridgeState
      BY <3>1, CancelledFields
    <3> QED
      BY <1>1, <3>1, <3>2 DEF Start, Stop, Connected, TimerFires, Closed, OnConnected,
         OnClosed, Scheduled, Fired, BridgeState
  <2> QED
    BY <2>1, <2>2 DEF EligibilityInv, DeliveryType, DeliveryInv, KnownInv,
                      NothingLostSilently
<1>2. CASE Restart
  BY <1>2 DEF Restart, NewBridge, EligibilityInv, DeliveryType, DeliveryInv, KnownInv,
              NothingLostSilently
<1>3. ASSUME NEW m \in Message, Inbound(m)
      PROVE  (DeliveryType /\ DeliveryInv /\ KnownInv /\ NothingLostSilently)'
  BY <1>3 DEF Inbound, limits, EligibilityInv, DeliveryType, DeliveryInv, KnownInv,
              NothingLostSilently
<1>4. ASSUME NEW m \in Message, HubStores(m) \/ HubFails(m)
      PROVE  (DeliveryType /\ DeliveryInv /\ KnownInv /\ NothingLostSilently)'
  BY <1>4 DEF HubStores, HubFails, limits, EligibilityInv, DeliveryType, DeliveryInv,
              KnownInv, NothingLostSilently
<1>5. ASSUME NEW m \in Message, LateRequest(m)
      PROVE  (DeliveryType /\ DeliveryInv /\ KnownInv /\ NothingLostSilently)'
  BY <1>5 DEF LateRequest, limits, EligibilityInv, DeliveryType, DeliveryInv, KnownInv,
              NothingLostSilently
<1>6. ASSUME NEW m \in Message, DeliveryTimesOut(m)
      PROVE  (DeliveryType /\ DeliveryInv /\ KnownInv /\ NothingLostSilently)'
  BY <1>6 DEF DeliveryTimesOut, MayTimeOut, limits, EligibilityInv, DeliveryType,
              DeliveryInv, KnownInv, NothingLostSilently
<1>7. ASSUME NEW m \in Message, Answered(m)
      PROVE  (DeliveryType /\ DeliveryInv /\ KnownInv /\ NothingLostSilently)'
  <2>1. CASE Admits(delivery[m])
    <3>1. m \in accepted \cap stored
      BY <2>1 DEF Admits, EligibilityInv, DeliveryInv
    <3>2. bridge'.known = bridge.known \cup {GroupOf[m]}
      BY <1>7, <2>1 DEF Answered, EligibilityInv, SessionInv, SessionType, BridgeState
    <3> QED
      BY <1>7, <2>1, <3>1, <3>2 DEF Answered, limits, EligibilityInv, DeliveryType,
         DeliveryInv, KnownInv, NothingLostSilently
  <2>2. CASE ~Admits(delivery[m])
    BY <1>7, <2>2 DEF Answered, limits, EligibilityInv, DeliveryType, DeliveryInv,
                      KnownInv, NothingLostSilently
  <2> QED
    BY <2>1, <2>2
<1>8. CASE Tick
  BY <1>8 DEF Tick, network, EligibilityInv, DeliveryType, DeliveryInv, KnownInv,
              NothingLostSilently
<1>9. ASSUME NEW g \in Group, PageSends(g) \/ ControlSends(g)
      PROVE  (DeliveryType /\ DeliveryInv /\ KnownInv /\ NothingLostSilently)'
  <2>1. calls' \in Seq(CallRecord)
    <3>1. SendGroup(g) \/ calls' = calls
      BY <1>9 DEF PageSends, ControlSends
    <3> QED
      BY <3>1, SendType DEF EligibilityInv, SessionInv, DeliveryType
  <2>2. UNCHANGED <<bridge, delivery, stored, accepted, reported, clock>>
    BY <1>9 DEF PageSends, ControlSends, network
  <2> QED
    BY <2>1, <2>2 DEF EligibilityInv, DeliveryType, DeliveryInv, KnownInv,
                      NothingLostSilently
<1>10. CASE UNCHANGED vars
  BY <1>10 DEF vars, network, limits, EligibilityInv, DeliveryType, DeliveryInv,
               KnownInv, NothingLostSilently
<1> QED
  BY <1>1, <1>2, <1>3, <1>4, <1>5, <1>6, <1>7, <1>8, <1>9, <1>10 DEF Next

\* An accepted message is under way, stored or reported, whatever the hub does
\* and however often a message is emitted again.
THEOREM NoSilentLoss == Spec => []NothingLostSilently
<1>1. EligibilityInv => NothingLostSilently
  BY DEF EligibilityInv
<1> QED
  BY <1>1, EligibilityInit, EligibilityStep, PTL DEF Spec

\* Every provider call goes over an open connection to a group of which this
\* process made a message durable.
THEOREM EligibleSends == Spec => SendsAreEligible
<1>1. ASSUME EligibilityInv, [Next]_vars, calls' # calls
      PROVE  /\ socket = "open"
             /\ \E m \in accepted \cap stored : GroupOf[m] = calls'[Len(calls')].group
  <2>1. PICK g \in Group : PageSends(g) \/ ControlSends(g)
    BY <1>1 DEF Next, vars, network, limits, Start, Stop, Restart, Connected, Closed,
       TimerFires, Inbound, HubStores, HubFails, LateRequest, Answered,
       DeliveryTimesOut, Tick
  <2>2. SendGroup(g)
    BY <1>1, <2>1 DEF PageSends, ControlSends
  <2>3. Eligible(g) /\ calls' = Append(calls, Call(g))
    BY <1>1, <2>2 DEF SendGroup
  <2>4. calls'[Len(calls')].group = g
    BY <2>3 DEF Call, EligibilityInv, DeliveryType
  <2>5. socket = "open"
    BY <1>1, <2>3 DEF Eligible, EligibilityInv, SessionInv, StatusInv
  <2>6. \E m \in accepted \cap stored : GroupOf[m] = g
    BY <1>1, <2>3 DEF Eligible, EligibilityInv, KnownInv
  <2> QED
    BY <2>4, <2>5, <2>6
<1> QED
  BY <1>1, EligibilityInit, EligibilityStep, PTL DEF Spec, SendsAreEligible

-----------------------------------------------------------------------------
(* The limiter.  It forgets what has left the window: what it keeps is the *)
(* end of all that was called, and whatever it lacks is older than that.   *)

\* The times of the calls after the first b.
Times(l, b) == [i \in 1..(Len(l) - b) |-> l[b + i].time]

\* WithinRate of any history of calls.
Rate(l) ==
  \A i, j \in 1..Len(l) :
    i < j /\ j - i >= MaxSends * (1 + l[j].process - l[i].process)
      => l[j].time >= l[i].time + Window

\* The first b calls of a history were made by processes before this one, and no others.
Earlier(l, b, p) ==
  /\ \A i \in 1..b : l[i].process < p
  /\ \A i \in (b + 1)..Len(l) : l[i].process = p

\* What this process has called is what its limiter covers.
OwnCovered(b) ==
  /\ Earlier(calls, b, process.count)
  /\ Ordered(Times(calls, b), clock)
  /\ Covers(timestamps, Times(calls, b), clock - Window)

LimiterInv == timestamps \in Seq(Int) /\ \E b \in 0..Len(calls) : OwnCovered(b)

RateInv == LimiterInv /\ Ordered(Times(calls, 0), clock) /\ Rate(calls)

\* What is known of a call.
LEMMA CallFields ==
  \A c \in CallRecord : c.time \in Int /\ c.process \in Nat
BY BridgeAssumption DEF CallRecord, BridgeAssumption

\* One more call adds its time to the times after any of those before it.
LEMMA TimesAppend ==
  ASSUME NEW l \in Seq(CallRecord), NEW c \in CallRecord, NEW b \in 0..Len(l)
  PROVE  /\ Times(l, b) \in Seq(Int) /\ Len(Times(l, b)) = Len(l) - b
         /\ \A i \in 1..(Len(l) - b) : Times(l, b)[i] = l[b + i].time
         /\ Times(Append(l, c), b) = Append(Times(l, b), c.time)
<1> DEFINE n == Len(l)
           k == n - b
           more == Append(l, c)
           times == Times(l, b)
           left == Times(more, b)
           right == Append(times, c.time)
<1>1. /\ n \in Nat /\ b \in Nat /\ k \in Nat /\ n = b + k /\ c.time \in Int
      /\ \A i \in 1..n : l[i] \in CallRecord
  BY CallFields
<1>2. /\ Len(more) = n + 1 /\ more[n + 1] = c
      /\ \A i \in 1..n : more[i] = l[i]
  OBVIOUS
<1>3. \A i \in 1..k : b + i \in 1..n
  BY <1>1
<1>4. times = [i \in 1..k |-> l[b + i].time]
  BY DEF Times
<1>5. left = [i \in 1..(k + 1) |-> more[b + i].time]
  <2>1. Len(more) - b = k + 1
    BY <1>1, <1>2
  <2> QED
    BY <2>1, Zenon DEF Times
<1> HIDE DEF n, k, more, times, left
<1>6. \A i \in 1..k : l[b + i].time \in Int
  BY <1>1, <1>3, CallFields
<1>7. /\ times \in Seq(Int) /\ Len(times) = k
      /\ \A i \in 1..k : times[i] = l[b + i].time
  BY <1>1, <1>4, <1>6
<1>8. /\ right \in Seq(Int) /\ Len(right) = k + 1 /\ right[k + 1] = c.time
      /\ \A i \in 1..k : right[i] = times[i]
  BY <1>1, <1>7
<1>9. \A i \in 1..(k + 1) : i \in 1..k \/ i = k + 1
  BY <1>1
<1>10. /\ \A i \in 1..k : more[b + i].time = l[b + i].time
       /\ more[b + (k + 1)].time = c.time
  <2>1. b + (k + 1) = n + 1
    BY <1>1
  <2> QED
    BY <1>2, <1>3, <2>1
<1>11. \A i \in 1..(k + 1) : more[b + i].time \in Int
  BY <1>1, <1>6, <1>9, <1>10
<1>12. /\ left \in Seq(Int) /\ Len(left) = k + 1
       /\ \A i \in 1..(k + 1) : left[i] = more[b + i].time
  BY <1>1, <1>5, <1>11
<1> HIDE DEF right
<1>13. \A i \in 1..(k + 1) : left[i] = right[i]
  BY <1>1, <1>7, <1>8, <1>9, <1>10, <1>12
<1>14. left = right
  BY <1>8, <1>12, <1>13, SeqEqual
<1> QED
  BY <1>7, <1>14 DEF n, k, more, times, left, right

\* The allowance of the processes from p to c: m for each of them, so that without the last
\* it is at least that of the processes from p to q, and at least m.
LEMMA Allowance ==
  ASSUME NEW m \in Nat \ {0}, NEW p \in Nat, NEW q \in Nat, NEW c \in Nat, p < c, q < c
  PROVE  /\ m * (1 + c - p) = m * (c - p) + m
         /\ m * (1 + q - p) <= m * (c - p)
         /\ m * (c - p) \in Nat /\ m <= m * (c - p) /\ m * (1 + q - p) \in Int
<1>1. 1 + c - p = (c - p) + 1 /\ c - p \in Nat /\ c - p - 1 \in Nat /\ c - 1 - q \in Nat
  OBVIOUS
<1>2. m * (1 + c - p) = m * (c - p) + m
  BY <1>1
<1>3. m * (c - p - 1) \in Nat /\ m * (c - p) = m * (c - p - 1) + m
  BY <1>1
<1>4. m * (c - 1 - q) \in Nat /\ m * (c - p) = m * (1 + q - p) + m * (c - 1 - q)
  BY <1>1
<1> QED
  BY <1>1, <1>2, <1>3, <1>4

\* A call that finds room keeps the rate.  Against a call of its own process: the limiter
\* covers both.  Against one of an earlier process: either this process has used up its own
\* allowance, then its call MaxSends ago is old and the earlier one older; or it has not, and
\* the last call before this process is far enough from the earlier one already.
LEMMA RateAppend ==
  ASSUME NEW l \in Seq(CallRecord), NEW c \in CallRecord, NEW b \in 0..Len(l), NEW kept,
         Rate(l), Ordered(Times(l, 0), c.time), Earlier(l, b, c.process),
         Covers(kept, Times(l, b), c.time - Window), Len(kept) \in Nat, Len(kept) < MaxSends
  PROVE  Rate(Append(l, c))
<1> DEFINE n == Len(l)
           more == Append(l, c)
           moment == c.time - Window
           max == MaxSends - 1
           own == Times(l, b)
<1>1. /\ n \in Nat /\ b \in Nat /\ b <= n /\ MaxSends \in Nat \ {0} /\ max \in Nat
      /\ Window \in Nat /\ c.time \in Int /\ c.process \in Nat /\ moment \in Int
  BY CallFields, BridgeAssumption DEF BridgeAssumption
<1>1a. \A i \in 1..n : l[i].time \in Int /\ l[i].process \in Nat
  BY CallFields
<1>2. /\ Len(more) = n + 1 /\ more[n + 1] = c
      /\ \A i \in 1..n : more[i] = l[i]
  OBVIOUS
<1>3. /\ \A i \in 1..n : l[i].time <= c.time
      /\ \A i, j \in 1..n : i <= j => l[i].time <= l[j].time
  <2> DEFINE all == Times(l, 0)
  <2>1. Len(all) = n /\ \A i \in 1..n : all[i] = l[i].time
    <3>1. 0 \in 0..Len(l) /\ Len(l) - 0 = n /\ \A i \in 1..n : 0 + i = i
      BY <1>1
    <3> QED
      BY <3>1, TimesAppend
  <2> HIDE DEF all, n
  <2> QED
    BY <2>1 DEF Ordered, all
<1>4. /\ own \in Seq(Int) /\ Len(own) = n - b
      /\ \A i \in 1..(n - b) : own[i] = l[b + i].time
  BY TimesAppend
<1>5. Len(kept) <= max /\ Covers(kept, own, moment)
  BY <1>1
<1> HIDE DEF n, more, moment, max, own
<1>6. ASSUME NEW i \in (b + 1)..n, i + max <= n PROVE l[i].time <= moment
  <2>1. i - b \in 1..Len(own) /\ (i - b) + max <= Len(own) /\ b + (i - b) = i
    BY <1>1, <1>4, <1>6
  <2>2. own[i - b] <= moment
    BY <1>1, <1>4, <1>5, <2>1, CoveredIsOld
  <2> QED
    BY <1>4, <2>1, <2>2
<1>7. ASSUME NEW i \in 1..n, (n + 1) - i >= MaxSends * (1 + c.process - l[i].process)
      PROVE  c.time >= l[i].time + Window
  <2> DEFINE t == l[i].time
             now == c.time
  <2>0. t \in Int /\ now \in Int
    BY <1>1, <1>1a
  <2>a. ASSUME t <= moment PROVE now >= t + Window
    <3>1. t <= now - Window
      BY <2>a DEF moment
    <3> HIDE DEF t, now
    <3> QED
      BY <1>1, <2>0, <3>1
  <2>b. ASSUME NEW u \in Int, u >= t + Window, now >= u PROVE now >= t + Window
    <3> HIDE DEF t, now
    <3> QED
      BY <1>1, <2>0, <2>b
  <2>c. ASSUME NEW u \in Int, u <= moment, t <= u PROVE t <= moment
    <3> HIDE DEF t
    <3> QED
      BY <1>1, <2>0, <2>c
  <2>1. CASE i \in (b + 1)..n
    <3>1. l[i].process = c.process
      BY <2>1 DEF Earlier, n
    <3>2. 1 + c.process - l[i].process = 1 /\ MaxSends * 1 = MaxSends
      BY <1>1, <3>1
    <3>3. i + max <= n
      BY <1>1, <1>7, <3>2 DEF max
    <3>4. l[i].time <= moment
      BY <1>6, <2>1, <3>3
    <3> QED
      BY <2>a, <3>4
  <2>2. CASE i \in 1..b
    <3> DEFINE p == l[i].process
               q == l[b].process
               k == n + 1 - MaxSends
    <3>1. b \in 1..n /\ p < c.process /\ q < c.process /\ p \in Nat /\ q \in Nat
      <4>1. b \in 1..b /\ b \in 1..n
        BY <1>1, <2>2
      <4> QED
        BY <1>1a, <2>2, <4>1 DEF Earlier
    <3>2. /\ MaxSends * (1 + c.process - p) = MaxSends * (c.process - p) + MaxSends
          /\ MaxSends * (1 + q - p) <= MaxSends * (c.process - p)
          /\ MaxSends * (c.process - p) \in Nat /\ MaxSends <= MaxSends * (c.process - p)
          /\ MaxSends * (1 + q - p) \in Int
      <4> HIDE DEF p, q
      <4> QED
        BY <1>1, <3>1, Allowance
    <3>3. CASE k > b
      <4>1. k \in (b + 1)..n /\ k + max <= n /\ k \in 1..n /\ i <= k
        BY <1>1, <2>2, <3>3 DEF max
      <4>2. l[k].time <= moment /\ l[i].time <= l[k].time
        BY <1>3, <1>6, <4>1
      <4>3. l[k].time \in Int
        BY <1>1a, <4>1
      <4> HIDE DEF k
      <4>4. l[i].time <= moment
        BY <2>c, <4>2, <4>3
      <4> QED
        BY <2>a, <4>4
    <3>4. CASE k <= b
      <4> DEFINE x == MaxSends * (1 + q - p)
                 y == MaxSends * (c.process - p)
      <4>1. (n + 1) - i >= y + MaxSends /\ x <= y /\ MaxSends <= y /\ x \in Int /\ y \in Nat
        BY <1>7, <3>2
      <4>2. i \in Int /\ n + 1 <= b + MaxSends
        BY <1>1, <2>2, <3>4
      <4> HIDE DEF p, q, k, x, y
      <4>3. i + y <= b
        BY <1>1, <4>1, <4>2
      <4>4. i < b /\ b - i >= x
        BY <1>1, <4>1, <4>2, <4>3
      <4>5. l[b].time >= l[i].time + Window
        BY <3>1, <4>4 DEF Rate, x, p, q, n
      <4>6. c.time >= l[b].time /\ l[b].time \in Int
        BY <1>1a, <1>3, <3>1
      <4> QED
        BY <2>b, <4>5, <4>6
    <3>5. k > b \/ k <= b
      BY <1>1
    <3> QED
      BY <3>3, <3>4, <3>5
  <2>3. i \in (b + 1)..n \/ i \in 1..b
    BY <1>1
  <2> QED
    BY <2>1, <2>2, <2>3
<1>8. SUFFICES ASSUME NEW i \in 1..(n + 1), NEW j \in 1..(n + 1), i < j,
                      j - i >= MaxSends * (1 + more[j].process - more[i].process)
               PROVE  more[j].time >= more[i].time + Window
  BY <1>2 DEF Rate, more
<1>9. i \in 1..n /\ more[i] = l[i]
  BY <1>1, <1>2, <1>8
<1>10. CASE j \in 1..n
  BY <1>2, <1>8, <1>9, <1>10 DEF Rate, n
<1>11. CASE j = n + 1
  BY <1>2, <1>7, <1>8, <1>9, <1>11
<1>12. j \in 1..n \/ j = n + 1
  BY <1>1
<1> QED
  BY <1>10, <1>11, <1>12

\* A process that has called nothing yet.
NothingCalled ==
  /\ timestamps = <<>> /\ Len(calls) \in Nat
  /\ \A i \in 1..Len(calls) : calls[i].process < process.count

LEMMA NothingOwn == NothingCalled => LimiterInv
<1> SUFFICES ASSUME NothingCalled PROVE LimiterInv
  OBVIOUS
<1> USE DEF NothingCalled
<1> DEFINE n == Len(calls)
<1>1. n \in 0..n /\ \A i \in (n + 1)..n : FALSE
  OBVIOUS
<1>2. Times(calls, n) = <<>> /\ <<>> \in Seq(Int)
  BY DEF Times
<1>3. Covers(<<>>, <<>>, clock - Window)
  BY <1>2, CoversItself, Zenon
<1>4. Ordered(<<>>, clock)
  BY DEF Ordered
<1>5. Earlier(calls, n, process.count)
  BY <1>1 DEF Earlier
<1> HIDE DEF n
<1>6. OwnCovered(n)
  BY <1>2, <1>3, <1>4, <1>5 DEF OwnCovered
<1> QED
  BY <1>1, <1>2, <1>6 DEF LimiterInv, n

\* What a limiter keeps is the end of what was let pass, when its list was.
LEMMA LimiterForgets ==
  ASSUME NEW kept, NEW all, kept \in Seq(Int), Ordered(all, clock),
         Covers(kept, all, clock - Window), clock \in Int
  PROVE  Recent(kept) \in Seq(Int) /\ Covers(Recent(kept), all, clock - Window)
<1> DEFINE moment == clock - Window
<1>1. moment \in Int /\ Covers(kept, all, moment)
  BY BridgeAssumption DEF BridgeAssumption
<1>2. Recent(kept) = After(kept, moment)
  BY DEF Recent
<1> HIDE DEF moment
<1>3. After(kept, moment) \in Seq(Int) /\ Covers(After(kept, moment), all, moment)
  BY <1>1, AfterCovers
<1> QED
  BY <1>2, <1>3 DEF moment

\* One more time that is let pass.
LEMMA LimiterNotes ==
  ASSUME NEW kept, NEW all, kept \in Seq(Int), Ordered(all, clock),
         Covers(kept, all, clock - Window), clock \in Int
  PROVE  /\ Append(kept, clock) \in Seq(Int) /\ Ordered(Append(all, clock), clock)
         /\ Covers(Append(kept, clock), Append(all, clock), clock - Window)
<1> DEFINE moment == clock - Window
<1>1. Covers(kept, all, moment) /\ all \in Seq(Int)
  BY DEF Ordered
<1> HIDE DEF moment
<1>2. Covers(Append(kept, clock), Append(all, clock), moment)
  BY <1>1, CoversAppend
<1>3. Ordered(Append(all, clock), clock) /\ Append(kept, clock) \in Seq(Int)
  BY OrderedAppend
<1> QED
  BY <1>2, <1>3 DEF moment

\* Time goes on.
LEMMA LimiterLater ==
  ASSUME NEW kept, NEW all, Ordered(all, clock), Covers(kept, all, clock - Window),
         clock \in Int, NEW now \in Int, clock <= now
  PROVE  Ordered(all, now) /\ Covers(kept, all, now - Window)
<1> DEFINE moment == clock - Window
           later == now - Window
<1>1. Covers(kept, all, moment) /\ moment \in Int /\ later \in Int /\ moment <= later
  BY BridgeAssumption DEF BridgeAssumption
<1> HIDE DEF moment, later
<1>2. Ordered(all, now) /\ Covers(kept, all, later)
  BY <1>1, OrderedLater, CoversLater
<1> QED
  BY <1>2 DEF later

\* A send that finds room is noted by the limiter, and keeps the rate.
LEMMA SendWithinRate ==
  ASSUME EligibilityInv, RateInv, NEW g \in Group, SendGroup(g), clock' = clock,
         process' = process
  PROVE  RateInv'
<1>1. /\ clock \in Int /\ calls \in Seq(CallRecord) /\ Call(g) \in CallRecord
      /\ Call(g).time = clock /\ Call(g).process = process.count
  BY SendType, BridgeAssumption
     DEF BridgeAssumption, EligibilityInv, SessionInv, DeliveryType, Call
<1> DEFINE left == Recent(timestamps)
           call == Call(g)
           more == Append(calls, call)
<1>2. PICK b \in 0..Len(calls) : OwnCovered(b)
  BY DEF RateInv, LimiterInv
<1>3. /\ left \in Seq(Int) /\ Covers(left, Times(calls, b), clock - Window)
      /\ Ordered(Times(calls, b), clock)
  BY <1>1, <1>2, LimiterForgets DEF RateInv, LimiterInv, OwnCovered
<1>4. CASE calls' = calls /\ timestamps' \in {timestamps, left}
  <2>1. OwnCovered(b)'
    BY <1>2, <1>3, <1>4, clock' = clock, process' = process DEF OwnCovered
  <2> QED
    BY <1>3, <1>4, <2>1, clock' = clock DEF RateInv, LimiterInv
<1>5. CASE HasRoom(timestamps) /\ timestamps' = Append(left, clock) /\ calls' = more
  <2>1. /\ Times(more, b) = Append(Times(calls, b), clock)
        /\ Times(more, 0) = Append(Times(calls, 0), clock)
    <3>1. 0 \in 0..Len(calls)
      BY <1>1
    <3> HIDE DEF call
    <3> QED
      BY <1>1, <3>1, TimesAppend DEF call
  <2>2. Len(more) = Len(calls) + 1 /\ Len(calls) \in Nat
    BY <1>1
  <2>3. Earlier(more, b, process.count)
    <3>1. more[Len(calls) + 1] = call /\ \A i \in 1..Len(calls) : more[i] = calls[i]
      BY <1>1
    <3>2. Earlier(calls, b, process.count)
      BY <1>2 DEF OwnCovered
    <3>3. \A i \in (b + 1)..(Len(calls) + 1) :
            i \in (b + 1)..Len(calls) \/ i = Len(calls) + 1
      BY <2>2
    <3>4. \A i \in 1..b : i \in 1..Len(calls)
      BY <2>2
    <3>5. \A i \in (b + 1)..Len(calls) : i \in 1..Len(calls)
      BY <2>2
    <3> HIDE DEF more, call
    <3>6. \A i \in 1..b : more[i].process < process.count
      BY <3>1, <3>2, <3>4 DEF Earlier
    <3>7. \A i \in (b + 1)..(Len(calls) + 1) : more[i].process = process.count
      BY <1>1, <3>1, <3>2, <3>3, <3>5 DEF Earlier, call
    <3> QED
      BY <2>2, <3>6, <3>7 DEF Earlier
  <2>4. Rate(more)
    <3>1. Len(left) \in Nat /\ Len(left) < MaxSends
      BY <1>3, <1>5 DEF HasRoom
    <3>2. Rate(calls) /\ Ordered(Times(calls, 0), call.time)
          /\ Earlier(calls, b, call.process)
          /\ Covers(left, Times(calls, b), call.time - Window)
      BY <1>1, <1>2, <1>3 DEF RateInv, OwnCovered
    <3> HIDE DEF left, call
    <3>3. call \in CallRecord
      BY <1>1 DEF call
    <3> QED
      BY <1>1, <3>1, <3>2, <3>3, RateAppend
  <2> HIDE DEF left, more
  <2>5. /\ timestamps' \in Seq(Int) /\ Ordered(Times(more, b), clock)
        /\ Covers(timestamps', Times(more, b), clock - Window)
    BY <1>1, <1>3, <1>5, <2>1, LimiterNotes
  <2>6. Ordered(Times(more, 0), clock)
    BY <1>1, <2>1, OrderedAppend DEF RateInv
  <2>7. OwnCovered(b)'
    BY <1>5, <2>3, <2>5, clock' = clock, process' = process DEF OwnCovered
  <2>8. b \in 0..Len(calls')
    BY <1>5, <2>2
  <2> QED
    BY <1>5, <2>4, <2>5, <2>6, <2>7, <2>8, clock' = clock DEF RateInv, LimiterInv
<1> QED
  BY <1>4, <1>5 DEF SendGroup, Reserved

\* Every step keeps what the limiter knows, a restart by leaving the calls behind.
LEMMA RateStep == ASSUME EligibilityInv, RateInv, [Next]_vars PROVE RateInv'
<1>1. clock \in Int /\ Len(calls) \in Nat /\ process.count \in Nat
  BY BridgeAssumption DEF BridgeAssumption, EligibilityInv, DeliveryType, SessionInv, SessionType
<1>2. PICK b \in 0..Len(calls) : OwnCovered(b)
  BY DEF RateInv, LimiterInv
<1>3. ASSUME UNCHANGED <<timestamps, calls>>, process'.count = process.count,
             clock' \in {clock, clock + 1}
      PROVE  RateInv'
  <2>1. clock' \in Int /\ clock <= clock'
    BY <1>1, <1>3
  <2>2. /\ Ordered(Times(calls, b), clock') /\ Covers(timestamps, Times(calls, b), clock' - Window)
    BY <1>1, <1>2, <2>1, LimiterLater DEF OwnCovered
  <2>3. Ordered(Times(calls, 0), clock')
    BY <1>1, <2>1, OrderedLater DEF RateInv
  <2>4. OwnCovered(b)'
    BY <1>2, <1>3, <2>2 DEF OwnCovered
  <2> QED
    BY <1>3, <2>3, <2>4 DEF RateInv, LimiterInv
<1>4. CASE Restart
  <2>1. /\ timestamps' = <<>> /\ calls' = calls /\ clock' = clock
        /\ process'.count = process.count + 1
    BY <1>4 DEF Restart
  <2>2. \A i \in 1..Len(calls) : calls[i].process < process.count + 1
    <3>1. \A i \in 1..Len(calls) : i \in 1..b \/ i \in (b + 1)..Len(calls)
      BY <1>1
    <3>2. \A i \in 1..b : calls[i].process < process.count
      BY <1>2 DEF OwnCovered, Earlier
    <3>3. \A i \in (b + 1)..Len(calls) : calls[i].process = process.count
      BY <1>2 DEF OwnCovered, Earlier
    <3>4. \A i \in 1..Len(calls) : calls[i].process \in Nat
      BY CallFields DEF EligibilityInv, DeliveryType
    <3> QED
      BY <1>1, <3>1, <3>2, <3>3, <3>4
  <2>3. NothingCalled' => LimiterInv'
    BY NothingOwn, PTL
  <2>4. NothingCalled'
    BY <1>1, <2>1, <2>2 DEF NothingCalled
  <2> QED
    BY <2>1, <2>3, <2>4 DEF RateInv, LimiterInv
<1>5. ASSUME NEW g \in Group, PageSends(g) \/ ControlSends(g) PROVE RateInv'
  <2>1. clock' = clock /\ process' = process /\ (SendGroup(g) \/ UNCHANGED <<timestamps, calls>>)
    BY <1>5 DEF PageSends, ControlSends
  <2> QED
    BY <1>3, <2>1, SendWithinRate
<1>6. CASE Start \/ Stop
  <2>1. process'.count = process.count
    BY <1>6 DEF Start, Stop, EligibilityInv, SessionInv, SessionType
  <2> QED
    BY <1>3, <1>6, <2>1 DEF Start, Stop, limits
<1>7. CASE Connected \/ TimerFires \/ \E code \in Code : Closed(code)
  BY <1>3, <1>7 DEF Connected, TimerFires, Closed, limits
<1>8. CASE \E m \in Message : Inbound(m) \/ HubStores(m) \/ HubFails(m) \/ LateRequest(m)
                              \/ Answered(m) \/ DeliveryTimesOut(m)
  BY <1>3, <1>8 DEF Inbound, HubStores, HubFails, LateRequest, Answered, DeliveryTimesOut,
     limits
<1>9. CASE Tick \/ UNCHANGED vars
  BY <1>3, <1>9 DEF Tick, vars, limits
<1> QED
  BY <1>4, <1>5, <1>6, <1>7, <1>8, <1>9 DEF Next

LEMMA RateStart == Init => RateInv
<1> SUFFICES ASSUME Init PROVE RateInv
  OBVIOUS
<1>1. timestamps = <<>> /\ calls = <<>> /\ Len(calls) = 0
  BY DEF Init
<1>2. LimiterInv
  BY <1>1, NothingOwn DEF NothingCalled
<1>3. Times(calls, 0) = <<>>
  BY <1>1 DEF Times
<1>4. Ordered(<<>>, clock)
  BY DEF Ordered
<1>5. Rate(calls)
  BY <1>1 DEF Rate
<1> QED
  BY <1>2, <1>3, <1>4, <1>5 DEF RateInv, LimiterInv

\* In any window the provider sees at most MaxSends calls for each process that made some of
\* them, whatever mixture of pages, commands, reconnects, answers of the hub and restarts
\* there is.
THEOREM RateKept == Spec => []WithinRate
<1>1. RateInv => WithinRate
  BY DEF RateInv, Rate, WithinRate
<1> QED
  BY <1>1, RateStart, RateStep, EligibilityInit, EligibilityStep, PTL DEF Spec

-----------------------------------------------------------------------------
(* The page drives the bridge as ZaloBridge lets it.                       *)

\* A step of the page and the bridge is a step of the bridge or leaves it alone: of
\* all that the page does only the sends touch it, and each is one PageSends.
LEMMA PageIsBridgeStep == SessionInv /\ [ConsoleNext]_allVars => [Next]_vars
<1> SUFFICES ASSUME SessionInv, [ConsoleNext]_allVars
             PROVE  [Next]_vars
  OBVIOUS
<1>1. CASE BridgeGoesOn \/ BridgeComesUp \/ RestartBoth
  BY <1>1 DEF BridgeGoesOn, BridgeComesUp, RestartBoth, Next, Code
<1>2. CASE CloseSessions
  BY <1>2 DEF CloseSessions, bridgeVars
<1>3. ASSUME NEW r \in Request, NEW right \in BOOLEAN, Login(r, right)
      PROVE  [Next]_vars
  BY <1>3 DEF Login, bridgeVars
<1>4. ASSUME NEW r \in Request, Verified(r) \/ Listed(r) \/ LoggedOut(r)
      PROVE  [Next]_vars
  BY <1>4 DEF Verified, Listed, LoggedOut, bridgeVars
<1>5. ASSUME NEW r \in Request, NEW s \in Token,
             ViewQr(r, s) \/ OpenPage(r, s) \/ SubmitLogout(r, s)
      PROVE  [Next]_vars
  BY <1>5 DEF ViewQr, OpenPage, SubmitLogout, Arrive, bridgeVars
<1>6. ASSUME NEW r \in Request, NEW s \in Token, NEW page \in 1..pages, NEW g \in Group,
             Submit(r, s, page, g)
      PROVE  [Next]_vars
  BY <1>6 DEF Submit, Arrive, bridgeVars
<1>7. ASSUME NEW r \in Request, Sent(r)
      PROVE  [Next]_vars
  <2>1. UNCHANGED <<timestamps, calls>> => UNCHANGED vars
    BY <1>7 DEF Sent, vars, limits
  <2>2. CASE /\ requests[r].group \in Group
             /\ process.phase # "login" /\ SendGroup(requests[r].group)
    <3>1. PageSends(requests[r].group)
      BY <1>7, <2>2 DEF Sent, PageSends
    <3> QED
      BY <2>2, <3>1 DEF Next
  <2>3. CASE requests[r].group \notin Group /\ SendGroup(requests[r].group)
    <3>1. ~Eligible(requests[r].group)
      BY <2>3 DEF Eligible, SessionInv, SessionType, BridgeState
    <3>2. UNCHANGED <<timestamps, calls>>
      BY <2>3, <3>1 DEF SendGroup
    <3> QED
      BY <2>1, <3>2
  <2> QED
    BY <1>7, <2>1, <2>2, <2>3 DEF Sent
<1>8. CASE UNCHANGED allVars
  BY <1>8 DEF allVars
<1> QED
  BY <1>1, <1>2, <1>3, <1>4, <1>5, <1>6, <1>7, <1>8 DEF ConsoleNext, PageNext

\* The bridge with its page implements the bridge that is sent commands from outside.
THEOREM ConsoleImplementsBridge == ConsoleSpec => Spec
<1>1. ConsoleInit => Init
  BY DEF ConsoleInit
<1> QED
  BY <1>1, SessionInit, SessionStep, PageIsBridgeStep, PTL DEF ConsoleSpec, Spec

\* With a page that operators use at the same time, no message is lost silently,
\* every send goes over an open connection to a group of a durable message, and in any
\* window the provider sees no more calls than each process that made some may make.
THEOREM ConsoleIsSafe ==
  ConsoleSpec => []NothingLostSilently /\ SendsAreEligible /\ []WithinRate
BY ConsoleImplementsBridge, NoSilentLoss, EligibleSends, RateKept

-----------------------------------------------------------------------------
(* Sessions of the page.                                                   *)

PageSession ==
  [open : BOOLEAN, idle : Nat, absolute : Nat, page : Nat, offered : SUBSET Group]

\* What the fields of a session say of its history; a token whose logout was answered
\* is not made again.
SessionHistory(s) ==
  /\ sessions[s].open => s \notin loggedOut
  /\ sessions[s].open => /\ sessions[s].absolute = born[s] + AbsoluteTtl
                         /\ sessions[s].idle <= used[s] + IdleTtl
  /\ s \in loggedOut => sessions[s].absolute > 0

\* A logout is of a session that was opened, and what was opened stays so.
RequestsInv ==
  /\ requests = [r \in Request |-> requests[r]]
  /\ \A r \in Request : requests[r].step = "logout" =>
       requests[r].session \in Token /\ sessions[requests[r].session].absolute > 0
  /\ PageSessionsEnd

OpenedStay ==
  \A s \in Token : sessions[s].absolute > 0 => sessions'[s].absolute > 0

PageInv ==
  /\ sessions \in [Token -> PageSession]
  /\ born \in [Token -> Nat] /\ used \in [Token -> Nat] /\ pages \in Nat
  /\ \A s \in Token : SessionHistory(s)
  /\ RequestsInv

LEMMA PageInit == ConsoleInit => PageInv
BY ConsoleAssumption DEF ConsoleInit, Init, PageInv, RequestsInv, PageSession, SessionHistory, PageSessionsEnd,
   NoSession, NoRequest

\* A session that is alive has not outlived its periods or its logout.
LEMMA AliveIsCurrent ==
  ASSUME PageInv, clock \in Nat, NEW s \in Token, Alive(s)
  PROVE  ~Outlived(s)
<1>1. /\ sessions[s].idle \in Nat /\ sessions[s].absolute \in Nat
      /\ born[s] \in Nat /\ used[s] \in Nat
  BY DEF PageInv, PageSession
<1>2. SessionHistory(s)
  BY DEF PageInv
<1> QED
  BY <1>1, <1>2, ConsoleAssumption DEF Alive, Outlived, SessionHistory

\* readSession moves the idle expiry of the one session, or closes it.
LEMMA SessionRead ==
  ASSUME PageInv, clock \in Nat, NEW s \in Token
  PROVE  /\ ReadSession(s) \in [Token -> PageSession]
         /\ \A t \in Token \ {s} : ReadSession(s)[t] = sessions[t]
         /\ ReadSession(s)[s].absolute = sessions[s].absolute
         /\ ReadSession(s)[s].open =>
              /\ sessions[s].open /\ Alive(s)
              /\ ReadSession(s)[s].idle <= clock + IdleTtl
<1> DEFINE idle == IF clock + IdleTtl <= sessions[s].absolute THEN clock + IdleTtl
                   ELSE sessions[s].absolute
<1>1. sessions \in [Token -> PageSession] /\ sessions[s] \in PageSession
  BY DEF PageInv
<1>2. idle \in Nat /\ idle <= clock + IdleTtl
  BY <1>1, ConsoleAssumption DEF PageSession
<1>3. CASE Alive(s)
  <2>1. ReadSession(s) = [sessions EXCEPT ![s].idle = idle]
    BY <1>3 DEF ReadSession
  <2> HIDE DEF idle
  <2> QED
    BY <1>1, <1>2, <1>3, <2>1 DEF PageSession, Alive
<1>4. CASE ~Alive(s)
  <2>1. ReadSession(s) = [sessions EXCEPT ![s].open = FALSE]
    BY <1>4 DEF ReadSession
  <2> QED
    BY <1>1, <1>4, <2>1 DEF PageSession
<1> QED
  BY <1>3, <1>4

\* What every request with a cookie does to the sessions and the histories: those that
\* do not touch the references write ReadSession(s), the others only change them.
LEMMA ArrivalKeeps ==
  ASSUME PageInv, clock \in Nat, NEW r \in Request, NEW s \in Token, Arrive(r, s),
         sessions' \in [Token -> PageSession],
         \A t \in Token : /\ sessions'[t].open = ReadSession(s)[t].open
                          /\ sessions'[t].idle = ReadSession(s)[t].idle
                          /\ sessions'[t].absolute = ReadSession(s)[t].absolute
  PROVE  /\ \A t \in Token : SessionHistory(t)'
         /\ OpenedStay
         /\ born' \in [Token -> Nat] /\ used' \in [Token -> Nat]
<1>1. UNCHANGED <<born, loggedOut>> /\ born \in [Token -> Nat] /\ used \in [Token -> Nat]
  BY DEF Arrive, PageInv
<1>2. used' \in [Token -> Nat] /\ \A t \in Token \ {s} : used'[t] = used[t]
  BY <1>1 DEF Arrive
<1>3. Alive(s) => used'[s] = clock
  BY <1>1 DEF Arrive
<1>4. ASSUME NEW t \in Token PROVE SessionHistory(t)'
  <2>1. SessionHistory(t)
    BY DEF PageInv
  <2>2. CASE t = s
    <3>1. sessions'[t].open => /\ sessions[t].open /\ used'[t] = clock
                              /\ sessions'[t].idle <= clock + IdleTtl
      BY <1>3, <2>2, SessionRead
    <3>2. sessions'[t].absolute = sessions[t].absolute
      BY <2>2, SessionRead
    <3> QED
      BY <1>1, <2>1, <3>1, <3>2 DEF SessionHistory
  <2>3. CASE t # s
    BY <1>1, <1>2, <2>1, <2>3, SessionRead DEF SessionHistory
  <2> QED
    BY <2>2, <2>3
<1>5. OpenedStay
  <2> SUFFICES ASSUME NEW t \in Token, sessions[t].absolute > 0
               PROVE  sessions'[t].absolute > 0
    BY DEF OpenedStay
  <2>1. ReadSession(s)[t].absolute = sessions[t].absolute
    <3>1. CASE t = s
      BY <3>1, SessionRead
    <3>2. CASE t # s
      BY <3>2, SessionRead
    <3> QED
      BY <3>1, <3>2
  <2> QED
    BY <2>1
<1> QED
  BY <1>1, <1>2, <1>4, <1>5

\* A request that is taken up has outlived nothing if what is taken up has not, and one
\* that is done leaves the others as they are.
LEMMA Served ==
  ASSUME PageInv, OpenedStay, NEW r \in Request, NEW request, ~request.outlived,
         request.step = "logout" =>
           request.session \in Token /\ sessions[request.session].absolute > 0,
         Serve(r, request) \/ UNCHANGED requests
  PROVE  RequestsInv'
<1>1. RequestsInv
  BY DEF PageInv
<1>2. CASE Serve(r, request)
  <2>1. requests' = [requests EXCEPT ![r] = request]
    BY <1>2 DEF Serve
  <2>2. \A q \in Request : requests'[q] = IF q = r THEN request ELSE requests[q]
    BY <1>1, <2>1 DEF RequestsInv
  <2>3. requests' = [q \in Request |-> requests'[q]]
    BY <1>1, <2>1 DEF RequestsInv
  <2> QED
    BY <1>1, <2>2, <2>3 DEF RequestsInv, PageSessionsEnd, OpenedStay
<1>3. CASE UNCHANGED requests
  BY <1>1, <1>3 DEF RequestsInv, PageSessionsEnd, OpenedStay
<1> QED
  BY <1>2, <1>3

LEMMA Finished ==
  ASSUME PageInv, OpenedStay, NEW r \in Request, Done(r)
  PROVE  RequestsInv'
<1>1. RequestsInv
  BY DEF PageInv
<1>2. \A q \in Request : requests'[q] = IF q = r THEN NoRequest ELSE requests[q]
  BY <1>1 DEF Done, RequestsInv
<1>3. requests' = [q \in Request |-> requests'[q]]
  BY <1>1 DEF Done, RequestsInv
<1> QED
  BY <1>1, <1>2, <1>3 DEF RequestsInv, PageSessionsEnd, NoRequest, OpenedStay

\* The references of a session are replaced, its periods stay.
LEMMA FormsReplaced ==
  \A old \in PageSession, page \in Nat, offered \in SUBSET Group :
    /\ WithForms(old, page, offered) \in PageSession
    /\ WithForms(old, page, offered).open = old.open
    /\ WithForms(old, page, offered).idle = old.idle
    /\ WithForms(old, page, offered).absolute = old.absolute
BY DEF PageSession, WithForms

\* No step of the page or of the bridge under it breaks what is known of the sessions.
LEMMA PageStep ==
  PageInv /\ clock \in Nat /\ SessionInv /\ [ConsoleNext]_allVars => PageInv'
<1> SUFFICES ASSUME PageInv, clock \in Nat, SessionInv, [ConsoleNext]_allVars
             PROVE  PageInv'
  OBVIOUS
<1>1. CASE UNCHANGED consoleVars
  BY <1>1 DEF consoleVars, PageInv, RequestsInv, SessionHistory, PageSessionsEnd
<1>2. CASE RestartBoth
  BY <1>2, ConsoleAssumption DEF RestartBoth, PageInv, RequestsInv, PageSession, SessionHistory,
     PageSessionsEnd, NoSession, NoRequest
<1>3. CASE CloseSessions
  <2>1. \A s \in Token : sessions'[s] = [sessions[s] EXCEPT !.open = FALSE]
    BY <1>3 DEF CloseSessions
  <2>2. sessions' \in [Token -> PageSession]
    BY <1>3 DEF CloseSessions, PageInv, PageSession
  <2>3. \A s \in Token : SessionHistory(s)'
    BY <1>3, <2>1 DEF CloseSessions, PageInv, PageSession, SessionHistory
  <2>4. RequestsInv'
    <3>1. \A s \in Token : sessions'[s].absolute = sessions[s].absolute
      BY <2>1 DEF PageInv, PageSession
    <3> QED
      BY <1>3, <3>1 DEF CloseSessions, PageInv, RequestsInv, PageSessionsEnd
  <2> QED
    BY <1>3, <2>2, <2>3, <2>4 DEF CloseSessions, PageInv
<1>4. ASSUME NEW r \in Request, NEW right \in BOOLEAN, Login(r, right)
      PROVE  PageInv'
  <2> DEFINE request == [step |-> "verify", right |-> right, outlived |-> FALSE]
  <2>1. Serve(r, request) \/ UNCHANGED requests
    BY <1>4 DEF Login
  <2>2. OpenedStay
    BY <1>4 DEF Login, OpenedStay
  <2>3. RequestsInv'
    BY <2>1, <2>2, Served
  <2> QED
    BY <1>4, <2>3 DEF Login, PageInv, SessionHistory
<1>5. ASSUME NEW r \in Request, Verified(r)
      PROVE  PageInv'
  <2>1. OpenedStay => RequestsInv'
    BY <1>5, Finished DEF Verified
  <2>2. UNCHANGED <<pages, loggedOut>>
    BY <1>5 DEF Verified
  <2>3. CASE UNCHANGED <<sessions, born, used>>
    BY <2>1, <2>2, <2>3 DEF PageInv, SessionHistory, OpenedStay
  <2>4. CASE ~UNCHANGED <<sessions, born, used>>
    <3>1. PICK s \in Token : /\ sessions[s] = NoSession
                            /\ sessions' = [sessions EXCEPT ![s] = NewSession]
                            /\ born' = [born EXCEPT ![s] = clock]
                            /\ used' = [used EXCEPT ![s] = clock]
      BY <1>5, <2>4 DEF Verified
    <3>2. s \notin loggedOut
      BY <3>1 DEF PageInv, SessionHistory, NoSession
    <3>3. clock + IdleTtl \in Nat /\ clock + AbsoluteTtl \in Nat /\ clock + AbsoluteTtl > 0
      BY ConsoleAssumption
    <3>4. /\ NewSession \in PageSession
          /\ NewSession.open /\ NewSession.idle = clock + IdleTtl
          /\ NewSession.absolute = clock + AbsoluteTtl
      BY <3>3 DEF PageSession, NewSession
    <3>5. sessions' \in [Token -> PageSession]
      BY <3>1, <3>4 DEF PageInv
    <3>6. born' \in [Token -> Nat] /\ used' \in [Token -> Nat]
      BY <3>1 DEF PageInv
    <3>7. \A t \in Token : SessionHistory(t)'
      <4>1. ASSUME NEW t \in Token, t = s PROVE SessionHistory(t)'
        <5>1. /\ sessions'[s] = NewSession /\ born'[s] = clock /\ used'[s] = clock
              /\ s \notin loggedOut'
          BY <2>2, <3>1, <3>2 DEF PageInv
        <5> QED
          BY <3>3, <3>4, <4>1, <5>1 DEF SessionHistory
      <4>2. ASSUME NEW t \in Token, t # s PROVE SessionHistory(t)'
        <5>1. /\ sessions'[t] = sessions[t] /\ born'[t] = born[t] /\ used'[t] = used[t]
              /\ SessionHistory(t)
          BY <3>1, <4>2 DEF PageInv
        <5> QED
          BY <2>2, <5>1 DEF SessionHistory
      <4> QED
        BY <4>1, <4>2
    <3>8. OpenedStay
      BY <3>1, <3>3, <3>4 DEF PageInv, OpenedStay
    <3> QED
      BY <2>1, <2>2, <3>5, <3>6, <3>7, <3>8 DEF PageInv
  <2> QED
    BY <2>3, <2>4
<1>6. ASSUME NEW r \in Request, Listed(r)
      PROVE  PageInv'
  <2> DEFINE t == requests[r].session
  <2>1. PICK offered \in SUBSET Group :
          sessions' = [sessions EXCEPT ![t] = WithForms(sessions[t], pages + 1, offered)]
    BY <1>6 DEF Listed
  <2>2. UNCHANGED <<born, used, loggedOut>> /\ pages' = pages + 1 /\ Done(r)
    BY <1>6 DEF Listed
  <2>3. /\ sessions \in [Token -> PageSession] /\ pages \in Nat
        /\ \A s \in Token : SessionHistory(s)
    BY DEF PageInv
  <2> HIDE DEF t
  <2>4. \A s \in Token : /\ sessions'[s] \in PageSession
                         /\ sessions'[s].open = sessions[s].open
                         /\ sessions'[s].idle = sessions[s].idle
                         /\ sessions'[s].absolute = sessions[s].absolute
    <3>1. ASSUME NEW s \in Token, s = t
          PROVE  sessions'[s] = WithForms(sessions[s], pages + 1, offered)
      BY <2>1, <2>3, <3>1
    <3>2. ASSUME NEW s \in Token, s # t
          PROVE  sessions'[s] = sessions[s]
      BY <2>1, <2>3, <3>2
    <3> QED
      BY <2>3, <3>1, <3>2, FormsReplaced
  <2>5. sessions' \in [Token -> PageSession]
    BY <2>1, <2>3, <2>4
  <2>6. \A s \in Token : SessionHistory(s)'
    BY <2>2, <2>3, <2>4 DEF SessionHistory
  <2>7. RequestsInv'
    BY <2>2, <2>4, Finished DEF OpenedStay
  <2> QED
    BY <2>2, <2>3, <2>5, <2>6, <2>7 DEF PageInv
<1>7. ASSUME NEW r \in Request, NEW s \in Token, OpenPage(r, s)
      PROVE  PageInv'
  <2> DEFINE request == [step |-> "list", session |-> s, outlived |-> Outlived(s)]
  <2>1. Arrive(r, s) /\ UNCHANGED pages /\ UNCHANGED loggedOut
    BY <1>7 DEF OpenPage, Arrive
  <2>2. CASE Serve(r, request) /\ Alive(s) /\ sessions' = ReadSession(s)
    <3>1. ~request.outlived /\ request.step # "logout"
      BY <2>2, AliveIsCurrent
    <3> HIDE DEF request
    <3>2. /\ \A t \in Token : SessionHistory(t)'
          /\ OpenedStay /\ born' \in [Token -> Nat] /\ used' \in [Token -> Nat]
          /\ sessions' \in [Token -> PageSession]
      BY <2>1, <2>2, SessionRead, ArrivalKeeps
    <3>3. RequestsInv'
      BY <2>2, <3>1, <3>2, Served
    <3> QED
      BY <2>1, <3>2, <3>3 DEF PageInv
  <2>3. CASE UNCHANGED requests
    <3>1. OpenedStay => RequestsInv'
      BY <2>3 DEF PageSessionsEnd, PageInv, RequestsInv, OpenedStay
    <3>2. /\ sessions' \in [Token -> PageSession]
          /\ \A t \in Token : /\ sessions'[t].open = ReadSession(s)[t].open
                              /\ sessions'[t].idle = ReadSession(s)[t].idle
                              /\ sessions'[t].absolute = ReadSession(s)[t].absolute
      <4>1. \/ sessions' = ReadSession(s)
            \/ sessions' = [ReadSession(s) EXCEPT ![s] = WithForms(ReadSession(s)[s], 0, {})]
        BY <1>7, <2>3 DEF OpenPage
      <4> DEFINE read == ReadSession(s)
      <4>2. read \in [Token -> PageSession]
        BY SessionRead
      <4> HIDE DEF read
      <4>3. CASE sessions' = read
        BY <4>2, <4>3 DEF read
      <4>4. CASE sessions' = [read EXCEPT ![s] = WithForms(read[s], 0, {})]
        <5>1. /\ sessions' \in [Token -> PageSession]
              /\ \A t \in Token : /\ sessions'[t].open = read[t].open
                                  /\ sessions'[t].idle = read[t].idle
                                  /\ sessions'[t].absolute = read[t].absolute
          BY <4>2, <4>4, FormsReplaced
        <5> QED
          BY <5>1 DEF read
      <4> QED
        BY <4>1, <4>3, <4>4 DEF read
    <3> QED
      BY <2>1, <3>1, <3>2, ArrivalKeeps DEF PageInv
  <2> QED
    BY <1>7, <2>2, <2>3 DEF OpenPage
<1>8. ASSUME NEW r \in Request, NEW s \in Token, NEW request,
             Arrive(r, s), sessions' = ReadSession(s), UNCHANGED pages,
             (Alive(s) /\ Serve(r, request)) \/ UNCHANGED requests,
             request.outlived = Outlived(s), request.session = s
      PROVE  PageInv'
  <2>1. /\ \A t \in Token : SessionHistory(t)'
        /\ OpenedStay /\ born' \in [Token -> Nat] /\ used' \in [Token -> Nat]
        /\ sessions' \in [Token -> PageSession]
    BY <1>8, SessionRead, ArrivalKeeps
  <2>2. RequestsInv'
    <3>1. CASE Alive(s) /\ Serve(r, request)
      <4>1. sessions[s].absolute > 0
        BY <3>1, ConsoleAssumption DEF PageInv, SessionHistory, Alive
      <4> QED
        BY <1>8, <2>1, <3>1, <4>1, AliveIsCurrent, Served
    <3>2. CASE UNCHANGED requests
      BY <2>1, <3>2 DEF PageSessionsEnd, PageInv, RequestsInv, OpenedStay
    <3> QED
      BY <1>8, <3>1, <3>2
  <2> QED
    BY <1>8, <2>1, <2>2 DEF PageInv
<1>9. ASSUME NEW r \in Request, NEW s \in Token, SubmitLogout(r, s)
      PROVE  PageInv'
  <2> DEFINE request == [step |-> "logout", session |-> s, outlived |-> Outlived(s)]
  <2>1. request.outlived = Outlived(s) /\ request.session = s
    OBVIOUS
  <2>2. /\ Arrive(r, s) /\ sessions' = ReadSession(s) /\ UNCHANGED pages
        /\ (Alive(s) /\ Serve(r, request)) \/ UNCHANGED requests
    BY <1>9 DEF SubmitLogout
  <2> HIDE DEF request
  <2> QED
    BY <1>8, <2>1, <2>2
<1>10. ASSUME NEW r \in Request, NEW s \in Token, NEW page \in 1..pages, NEW g \in Group,
              Submit(r, s, page, g)
       PROVE  PageInv'
  <2> DEFINE request == [step |-> "send", session |-> s, page |-> page, group |-> g,
                         outlived |-> Outlived(s)]
  <2>1. request.outlived = Outlived(s) /\ request.session = s
    OBVIOUS
  <2>2. /\ Arrive(r, s) /\ sessions' = ReadSession(s) /\ UNCHANGED pages
        /\ (Alive(s) /\ Serve(r, request)) \/ UNCHANGED requests
    BY <1>10 DEF Submit
  <2> HIDE DEF request
  <2> QED
    BY <1>8, <2>1, <2>2
<1>11. ASSUME NEW r \in Request, Sent(r)
       PROVE  PageInv'
  <2>1. RequestsInv'
    BY <1>11, Finished DEF Sent, OpenedStay
  <2> QED
    BY <1>11, <2>1 DEF Sent, PageInv, SessionHistory
<1>12. ASSUME NEW r \in Request, LoggedOut(r)
       PROVE  PageInv'
  <2> DEFINE t == requests[r].session
  <2>1. OpenedStay => RequestsInv'
    BY <1>12, Finished DEF LoggedOut
  <2>2. UNCHANGED <<pages, born, used>>
    BY <1>12 DEF LoggedOut
  <2>3. t \in Token /\ sessions[t].absolute > 0
    BY <1>12 DEF LoggedOut, PageInv, RequestsInv
  <2>4. CASE UNCHANGED <<sessions, loggedOut>>
    BY <2>1, <2>2, <2>4 DEF PageInv, SessionHistory, OpenedStay
  <2>5. CASE sessions' = [sessions EXCEPT ![t].open = FALSE] /\ loggedOut' = loggedOut \cup {t}
    <3>0. PICK u \in Token : u = t
      BY <2>3
    <3> HIDE DEF t
    <3> DEFINE closed == [sessions[t] EXCEPT !.open = FALSE]
    <3>1. sessions \in [Token -> PageSession] /\ sessions[t] \in PageSession
      BY <2>3 DEF PageInv
    <3>2. closed \in PageSession /\ ~closed.open /\ closed.absolute = sessions[t].absolute
      BY <3>1 DEF PageSession
    <3>3. sessions' = [sessions EXCEPT ![t] = closed]
      BY <2>5
    <3> HIDE DEF closed
    <3>4. sessions' \in [Token -> PageSession] /\ sessions'[t] = closed
      BY <2>3, <3>1, <3>2, <3>3
    <3>5. OpenedStay
      BY <3>1, <3>2, <3>3, <3>4 DEF OpenedStay
    <3>6. ASSUME NEW s \in Token, s # u PROVE SessionHistory(s)'
      <4>1. sessions'[s] = sessions[s]
        BY <3>0, <3>1, <3>3, <3>6
      <4>2. SessionHistory(s) /\ (s \in loggedOut' <=> s \in loggedOut)
        BY <2>5, <3>0, <3>6 DEF PageInv
      <4> QED
        BY <2>2, <4>1, <4>2 DEF SessionHistory
    <3>7. SessionHistory(u)'
      BY <2>3, <3>0, <3>2, <3>4 DEF SessionHistory
    <3> QED
      BY <2>1, <2>2, <3>4, <3>5, <3>6, <3>7 DEF PageInv
  <2> QED
    BY <1>12, <2>4, <2>5 DEF LoggedOut, Deleted
<1>13. ASSUME NEW r \in Request, NEW s \in Token, ViewQr(r, s)
       PROVE  PageInv'
  <2>1. /\ \A t \in Token : SessionHistory(t)'
        /\ OpenedStay /\ born' \in [Token -> Nat] /\ used' \in [Token -> Nat]
        /\ sessions' \in [Token -> PageSession]
    BY <1>13, SessionRead, ArrivalKeeps DEF ViewQr
  <2> QED
    BY <1>13, <2>1 DEF ViewQr, PageInv, PageSessionsEnd, RequestsInv, OpenedStay
<1>14. BridgeGoesOn \/ BridgeComesUp \/ UNCHANGED allVars => UNCHANGED consoleVars
  BY DEF BridgeGoesOn, BridgeComesUp, allVars
<1> QED
  BY <1>1, <1>2, <1>3, <1>4, <1>5, <1>6, <1>7, <1>9, <1>10, <1>11, <1>12, <1>13, <1>14
     DEF ConsoleNext, PageNext

\* No request is served for a session whose logout was answered or whose time was over
\* when the request arrived.
THEOREM PageSessionsAreOver == ConsoleSpec => []PageSessionsEnd
<1>1. PageInv => PageSessionsEnd
  BY DEF PageInv, RequestsInv
<1>2. EligibilityInv => clock \in Nat
  BY BridgeAssumption DEF EligibilityInv, DeliveryType
<1>3. ConsoleInit => Init
  BY DEF ConsoleInit
<1>4. EligibilityInv => SessionInv
  BY DEF EligibilityInv
<1> QED
  BY <1>1, <1>2, <1>3, <1>4, PageInit, PageStep, PageIsBridgeStep, EligibilityInit, EligibilityStep,
     PTL DEF ConsoleSpec

-----------------------------------------------------------------------------
(* The throttle of the login.  A guess is admitted before it is verified   *)
(* and noted afterwards: those under way count against the bound, each as  *)
(* if it had been noted already.                                           *)

Verifying == {r \in Request : requests[r].step = "verify"}

CountInv ==
  /\ IsFiniteSet(Verifying)
  /\ throttle.inFlight = Cardinality(Verifying) /\ throttle.inFlight \in 0..MaxVerifications

\* However many of those under way are noted, all but the last few guesses are old.
AdmittedInv ==
  \A i \in 1..Len(guesses) :
    i + (MaxFailures + MaxVerifications - 1) <= Len(guesses) + throttle.inFlight =>
      guesses[i] <= clock - Window

GuessInv ==
  /\ CountInv
  /\ throttle.failures \in Seq(Int)
  /\ Ordered(guesses, clock)
  /\ Covers(throttle.failures, guesses, clock - Window)
  /\ AdmittedInv
  /\ GuessesAreBounded

\* No guess, and nothing under way.
LEMMA NothingGuessed ==
  ASSUME guesses = <<>>, throttle.failures = <<>>, throttle.inFlight = 0,
         \A r \in Request : requests[r].step # "verify"
  PROVE  GuessInv
<1>1. Verifying = {} /\ <<>> \in Seq(Int) /\ Len(guesses) = 0
  BY DEF Verifying
<1>2. Covers(<<>>, <<>>, clock - Window)
  BY <1>1, CoversItself, Zenon
<1>3. Ordered(<<>>, clock) /\ AdmittedInv /\ GuessesAreBounded
  BY <1>1, ConsoleAssumption DEF Ordered, AdmittedInv, GuessesAreBounded
<1>4. CountInv
  BY <1>1, FS_EmptySet, ConsoleAssumption DEF CountInv
<1> QED
  BY <1>1, <1>2, <1>3, <1>4 DEF GuessInv

\* Requests that are no logins come and go without the throttle.
LEMMA OtherRequests ==
  ASSUME PageInv, NEW r \in Request, NEW request, request.step # "verify",
         \/ Serve(r, request)
         \/ requests[r].step # "verify" /\ Done(r)
         \/ UNCHANGED requests
  PROVE  Verifying' = Verifying
<1>1. requests = [q \in Request |-> requests[q]]
  BY DEF PageInv, RequestsInv
<1>2. CASE Serve(r, request)
  <2>1. \A q \in Request : requests'[q] = IF q = r THEN request ELSE requests[q]
    BY <1>1, <1>2 DEF Serve
  <2>2. requests[r].step # "verify"
    BY <1>2 DEF Serve, NoRequest
  <2> QED
    BY <2>1, <2>2 DEF Verifying
<1>3. CASE requests[r].step # "verify" /\ Done(r)
  <2>1. \A q \in Request : requests'[q] = IF q = r THEN NoRequest ELSE requests[q]
    BY <1>1, <1>3 DEF Done
  <2> QED
    BY <1>3, <2>1 DEF Verifying, NoRequest
<1>4. CASE UNCHANGED requests
  BY <1>4 DEF Verifying
<1> QED
  BY <1>2, <1>3, <1>4

\* Time goes on, or the bridge and the other requests do.
LEMMA GuessesRest ==
  ASSUME GuessInv, clock \in Int, UNCHANGED <<throttle, guesses>>, Verifying' = Verifying,
         clock' \in {clock, clock + 1}
  PROVE  GuessInv'
<1>1. clock' \in Int /\ clock <= clock'
  <2>1. clock' = clock \/ clock' = clock + 1
    OBVIOUS
  <2> QED
    BY <2>1
<1>2. Ordered(guesses, clock') /\ Covers(throttle.failures, guesses, clock' - Window)
  BY <1>1, LimiterLater DEF GuessInv
<1>3. CountInv'
  BY DEF GuessInv, CountInv
<1>4. AdmittedInv'
  <2>1. ASSUME NEW i \in 1..Len(guesses),
               i + (MaxFailures + MaxVerifications - 1) <= Len(guesses) + throttle.inFlight
        PROVE  guesses[i] <= clock' - Window
    <3>1. guesses[i] <= clock - Window /\ guesses[i] \in Int
      BY <2>1 DEF GuessInv, AdmittedInv, Ordered
    <3> QED
      BY <1>1, <3>1, BridgeAssumption DEF BridgeAssumption
  <2> QED
    BY <2>1 DEF AdmittedInv
<1> QED
  BY <1>2, <1>3, <1>4 DEF GuessInv, GuessesAreBounded

\* A login is let pass, or refused; either way the throttle forgets.
LEMMA LoginStep ==
  ASSUME GuessInv, PageInv, clock \in Int, NEW r \in Request, NEW right \in BOOLEAN,
         Login(r, right)
  PROVE  GuessInv'
<1> DEFINE left == Recent(throttle.failures)
<1>1. left \in Seq(Int) /\ Covers(left, guesses, clock - Window)
  BY LimiterForgets DEF GuessInv
<1>2. clock' = clock /\ guesses' = guesses
  BY DEF Login, bridgeVars, vars, limits
<1>3. requests = [q \in Request |-> requests[q]] /\ requests[r].step # "verify"
  BY DEF Login, PageInv, RequestsInv, NoRequest
<1>4. Len(guesses) \in Nat /\ guesses \in Seq(Int)
  BY DEF GuessInv, Ordered
<1>5. CASE MayTry(throttle)
  <2> DEFINE request == [step |-> "verify", right |-> right, outlived |-> FALSE]
  <2>1. /\ requests' = [requests EXCEPT ![r] = request]
        /\ throttle' = [failures |-> left, inFlight |-> throttle.inFlight + 1]
    BY <1>5 DEF Login, Serve
  <2>2. throttle'.failures = left /\ throttle'.inFlight = throttle.inFlight + 1
        /\ throttle.inFlight < MaxVerifications /\ Len(left) < MaxFailures
    BY <1>5, <2>1 DEF MayTry
  <2>3. CountInv'
    <3>1. \A q \in Request : requests'[q] = IF q = r THEN request ELSE requests[q]
      BY <1>3, <2>1
    <3>2. Verifying' = Verifying \cup {r} /\ r \notin Verifying
      BY <1>3, <3>1 DEF Verifying
    <3>3. IsFiniteSet(Verifying') /\ Cardinality(Verifying') = Cardinality(Verifying) + 1
      BY <3>2, FS_AddElement DEF GuessInv, CountInv
    <3> QED
      BY <2>2, <3>3, ConsoleAssumption DEF GuessInv, CountInv
  <2>4. AdmittedInv'
    <3> DEFINE max == MaxFailures - 1
               moment == clock - Window
    <3>1. max \in Nat /\ Len(left) <= max
      BY <1>1, <2>2, ConsoleAssumption
    <3>2. Covers(left, guesses, moment)
      BY <1>1
    <3> HIDE DEF max, moment, left
    <3>3. \A i \in 1..Len(guesses) : i + max <= Len(guesses) => guesses[i] <= moment
      BY <1>4, <3>1, <3>2, CoveredIsOld
    <3>4. ASSUME NEW i \in 1..Len(guesses),
                 i + (MaxFailures + MaxVerifications - 1)
                   <= Len(guesses) + (throttle.inFlight + 1)
          PROVE  i + max <= Len(guesses)
      BY <1>4, <2>2, <3>4, ConsoleAssumption DEF max, GuessInv, CountInv
    <3> QED
      BY <1>2, <2>2, <3>3, <3>4 DEF AdmittedInv, moment
  <2> QED
    BY <1>1, <1>2, <2>2, <2>3, <2>4 DEF GuessInv, GuessesAreBounded
<1>6. CASE ~MayTry(throttle)
  <2>1. throttle' = [throttle EXCEPT !.failures = left] /\ UNCHANGED requests
    BY <1>6 DEF Login
  <2>2. throttle'.failures = left /\ throttle'.inFlight = throttle.inFlight
    BY <2>1 DEF GuessInv, CountInv
  <2> QED
    BY <1>1, <1>2, <2>1, <2>2
       DEF GuessInv, CountInv, Verifying, AdmittedInv, GuessesAreBounded
<1> QED
  BY <1>5, <1>6

\* A verification that is over is noted, or forgives all that were noted.
LEMMA VerifiedStep ==
  ASSUME GuessInv, PageInv, clock \in Int, NEW r \in Request, Verified(r)
  PROVE  GuessInv'
<1> DEFINE failures == throttle.failures
           bound == MaxFailures + MaxVerifications - 1
<1>1. clock' = clock /\ Done(r) /\ requests[r].step = "verify"
      /\ throttle' = Completed(throttle, requests[r].right)
  BY DEF Verified, bridgeVars, vars, limits
<1>2. requests = [q \in Request |-> requests[q]]
  BY DEF PageInv, RequestsInv
<1>3. CountInv' /\ throttle'.inFlight = throttle.inFlight - 1 /\ throttle.inFlight \in 1..MaxVerifications
  <2>1. throttle'.inFlight = throttle.inFlight - 1
    BY <1>1 DEF Completed
  <2>2. \A q \in Request : requests'[q] = IF q = r THEN NoRequest ELSE requests[q]
    BY <1>1, <1>2 DEF Done
  <2>3. Verifying' = Verifying \ {r} /\ r \in Verifying
    BY <1>1, <2>2 DEF Verifying, NoRequest
  <2>4. IsFiniteSet(Verifying') /\ Cardinality(Verifying') = Cardinality(Verifying) - 1
    BY <2>3, FS_RemoveElement DEF GuessInv, CountInv
  <2>5. Cardinality(Verifying') \in Nat
    BY <2>4, FS_CardinalityType
  <2> QED
    BY <2>1, <2>4, <2>5, ConsoleAssumption DEF GuessInv, CountInv
<1>4. CASE requests[r].right
  <2>1. guesses' = <<>> /\ throttle'.failures = <<>>
    BY <1>1, <1>4 DEF Verified, Completed
  <2>2. <<>> \in Seq(Int) /\ Len(guesses') = 0
    BY <2>1
  <2>3. Covers(<<>>, <<>>, clock - Window) /\ Ordered(<<>>, clock)
    <3>1. Covers(<<>>, <<>>, clock - Window)
      BY <2>2, CoversItself, Zenon
    <3>2. Ordered(<<>>, clock)
      BY DEF Ordered
    <3> QED
      BY <3>1, <3>2
  <2>4. AdmittedInv' /\ GuessesAreBounded'
    BY <2>2, ConsoleAssumption DEF AdmittedInv, GuessesAreBounded
  <2> QED
    BY <1>1, <1>3, <2>1, <2>2, <2>3, <2>4 DEF GuessInv
<1>5. CASE ~requests[r].right
  <2> DEFINE n == Len(guesses)
             flight == throttle.inFlight
  <2>1. guesses' = Append(guesses, clock) /\ throttle'.failures = Append(failures, clock)
    BY <1>1, <1>5 DEF Verified, Completed
  <2>2. failures \in Seq(Int) /\ Covers(failures, guesses, clock - Window)
        /\ Ordered(guesses, clock) /\ guesses \in Seq(Int)
    BY DEF GuessInv, Ordered
  <2>3. throttle'.failures \in Seq(Int) /\ Ordered(guesses', clock)
        /\ Covers(throttle'.failures, guesses', clock - Window)
    <3> HIDE DEF failures
    <3> QED
      BY <2>1, <2>2, LimiterNotes
  <2>4. /\ n \in Nat /\ Len(guesses') = n + 1 /\ guesses'[n + 1] = clock
        /\ \A i \in 1..n : guesses'[i] = guesses[i] /\ guesses[i] \in Int
    BY <2>1, <2>2
  <2>5. /\ bound \in Nat /\ flight \in Int /\ flight <= bound + 1 /\ flight >= 1
        /\ throttle'.inFlight = flight - 1 /\ Window \in Nat
        /\ bound >= MaxVerifications /\ MaxVerifications \in Nat /\ flight <= MaxVerifications
    BY <1>3, ConsoleAssumption, BridgeAssumption DEF BridgeAssumption
  <2>6. \A i \in 1..n : i + bound <= n + flight => guesses[i] <= clock - Window
    BY DEF GuessInv, AdmittedInv
  <2>7. \A i \in 1..n : i + bound <= n => guesses[i + bound] >= guesses[i] + Window
    BY DEF GuessInv, GuessesAreBounded
  <2> HIDE DEF n, flight, bound
  <2>8. \A i \in 1..(n + 1) : i \in 1..n \/ i = n + 1
    BY <2>4
  <2>9. ASSUME NEW i \in 1..(n + 1), i + bound <= n + 1 + (flight - 1)
        PROVE  guesses'[i] <= clock - Window
    <3>1. i \in 1..n
      BY <2>4, <2>5, <2>8, <2>9
    <3>2. i + bound <= n + flight
      BY <2>4, <2>5, <2>9
    <3> QED
      BY <2>4, <2>6, <3>1, <3>2
  <2>10. ASSUME NEW i \in 1..(n + 1), i + bound <= n + 1
         PROVE  guesses'[i + bound] >= guesses'[i] + Window
    <3>1. i \in 1..n \/ (i = n + 1 /\ bound = 0)
      BY <2>4, <2>5, <2>8, <2>10
    <3>2. bound # 0 /\ i \in 1..n
      BY <2>5, <3>1
    <3>3. CASE i + bound = n + 1
      <4>1. guesses[i] <= clock - Window
        BY <2>4, <2>5, <2>6, <3>2, <3>3
      <4> QED
        BY <2>4, <2>5, <3>2, <3>3, <4>1
    <3>4. CASE i + bound <= n
      <4>1. i + bound \in 1..n
        BY <2>4, <2>5, <3>2, <3>4
      <4> QED
        BY <2>4, <2>7, <3>2, <3>4, <4>1
    <3>5. i + bound = n + 1 \/ i + bound <= n
      BY <2>4, <2>5, <2>10
    <3> QED
      BY <3>3, <3>4, <3>5
  <2>11. AdmittedInv'
    <3>1. \A i \in 1..Len(guesses') :
            i + bound <= Len(guesses') + throttle'.inFlight => guesses'[i] <= clock' - Window
      BY <1>1, <2>4, <2>5, <2>9
    <3> QED
      BY <3>1 DEF AdmittedInv, bound
  <2>12. GuessesAreBounded'
    <3>1. \A i \in 1..Len(guesses') :
            i + bound <= Len(guesses') => guesses'[i + bound] >= guesses'[i] + Window
      BY <2>4, <2>10
    <3> QED
      BY <3>1 DEF GuessesAreBounded, bound
  <2> QED
    BY <1>1, <1>3, <2>3, <2>11, <2>12 DEF GuessInv
<1> QED
  BY <1>4, <1>5

\* Every step keeps what the throttle of the login knows.
LEMMA GuessStep ==
  ASSUME GuessInv, PageInv, clock \in Int, [ConsoleNext]_allVars PROVE GuessInv'
<1>1. ASSUME NEW r \in Request, NEW request, request.step # "verify",
             \/ Serve(r, request)
             \/ requests[r].step # "verify" /\ Done(r)
             \/ UNCHANGED requests,
             UNCHANGED <<throttle, guesses, clock>>
      PROVE  GuessInv'
  BY <1>1, OtherRequests, GuessesRest
<1>2. CASE UNCHANGED consoleVars /\ clock' \in {clock, clock + 1}
  <2>1. Verifying' = Verifying /\ UNCHANGED <<throttle, guesses>>
    BY <1>2 DEF consoleVars, Verifying
  <2> QED
    BY <1>2, <2>1, GuessesRest
<1>3. CASE RestartBoth
  <2>1. /\ guesses' = <<>> /\ throttle'.failures = <<>> /\ throttle'.inFlight = 0
        /\ \A r \in Request : requests'[r].step # "verify"
    BY <1>3 DEF RestartBoth, NoRequest
  <2>2. (/\ guesses = <<>> /\ throttle.failures = <<>> /\ throttle.inFlight = 0
         /\ \A r \in Request : requests[r].step # "verify")' => GuessInv'
    BY NothingGuessed, PTL
  <2> QED
    BY <2>1, <2>2
<1>4. CASE CloseSessions
  <2>1. Verifying' = Verifying /\ UNCHANGED <<throttle, guesses, clock>>
    BY <1>4 DEF CloseSessions, Verifying, bridgeVars, vars, limits
  <2> QED
    BY <2>1, GuessesRest
<1>5. ASSUME NEW r \in Request,
             Listed(r) \/ Sent(r) \/ LoggedOut(r)
      PROVE  GuessInv'
  <2>1. requests[r].step # "verify" /\ Done(r) /\ UNCHANGED <<throttle, guesses, clock>>
    BY <1>5 DEF Listed, Sent, LoggedOut, bridgeVars, vars, limits
  <2>2. NoRequest.step # "verify"
    BY DEF NoRequest
  <2> QED
    BY <1>1, <2>1, <2>2
<1>6. ASSUME NEW r \in Request, NEW s \in Token, Arrive(r, s),
             \/ UNCHANGED requests
             \/ \E request : request.step # "verify" /\ Serve(r, request)
      PROVE  GuessInv'
  <2>1. UNCHANGED <<throttle, guesses, clock>>
    BY <1>6 DEF Arrive, bridgeVars, vars, limits
  <2>2. NoRequest.step # "verify"
    BY DEF NoRequest
  <2> QED
    BY <1>1, <1>6, <2>1, <2>2
<1>7. ASSUME NEW r \in Request, NEW s \in Token,
             ViewQr(r, s) \/ OpenPage(r, s) \/ SubmitLogout(r, s)
      PROVE  GuessInv'
  BY <1>6, <1>7 DEF ViewQr, OpenPage, SubmitLogout
<1>8. ASSUME NEW r \in Request, NEW s \in Token, NEW page \in 1..pages, NEW g \in Group,
             Submit(r, s, page, g)
      PROVE  GuessInv'
  BY <1>6, <1>8 DEF Submit
<1>9. BridgeGoesOn \/ BridgeComesUp \/ UNCHANGED allVars =>
        UNCHANGED consoleVars /\ clock' \in {clock, clock + 1}
  BY DEF BridgeGoesOn, BridgeComesUp, allVars, vars, limits, Stop, Closed, Tick, ControlSends,
     Start, Connected, TimerFires, Inbound, HubStores, HubFails, LateRequest, Answered,
     DeliveryTimesOut
<1> QED
  BY <1>2, <1>3, <1>4, <1>5, <1>7, <1>8, <1>9, LoginStep, VerifiedStep DEF ConsoleNext, PageNext

\* Between two right passwords the page answers at most so many guesses in any window,
\* for any limits, any number of requests and any time a verification takes.
THEOREM BoundedGuesses == ConsoleSpec => []GuessesAreBounded
<1>1. ConsoleInit => GuessInv
  BY NothingGuessed DEF ConsoleInit, NoRequest
<1>2. GuessInv => GuessesAreBounded
  BY DEF GuessInv
<1>3. EligibilityInv => clock \in Nat /\ clock \in Int /\ SessionInv
  BY BridgeAssumption DEF EligibilityInv, DeliveryType, BridgeAssumption
<1>4. ConsoleInit => Init
  BY DEF ConsoleInit
<1> QED
  BY <1>1, <1>2, <1>3, <1>4, GuessStep, PageInit, PageStep, PageIsBridgeStep, EligibilityInit,
     EligibilityStep, PTL DEF ConsoleSpec
==============================================================================
