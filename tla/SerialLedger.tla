---------------------------- MODULE SerialLedger ----------------------------
(***************************************************************************)
(* What the hub's storage promises its callers: every operation that       *)
(* succeeds takes effect at one instant, on the database as it is at that  *)
(* instant; one that fails takes effect entirely or not at all, and its    *)
(* caller cannot tell which.  No locks, no statements, no drafts.          *)
(***************************************************************************)
EXTENDS HubTables

CONSTANTS Server, Config, LegacyDatabases, MaxLedgerId, MaxCommandId,
          Requests, NoConfig, NoRequest, NoAnswer

VARIABLES db, phase, config, request, answer

vars == <<db, phase, config, request, answer>>

Configured(cfg) == {c \in Conn : cfg.accounts[c] # NoAccount}

Init ==
  /\ db \in LegacyDatabases
  /\ phase = [s \in Server |-> "down"]
  /\ config = [s \in Server |-> NoConfig]
  /\ request = [s \in Server |-> NoRequest]
  /\ answer = [s \in Server |-> NoAnswer]

-----------------------------------------------------------------------------
(* An operation as a relation between the database it meets, the database  *)
(* it leaves and its answer.                                               *)

\* Positions of the batch that bring an event the ledger does not have.
NewEvents(d, batch) ==
  {i \in DOMAIN batch :
     /\ ~EventRecorded(d, batch[i].conn, batch[i].event)
     /\ \A j \in 1..(i - 1) :
          batch[j].conn # batch[i].conn \/ batch[j].event # batch[i].event}

\* New events enter above every stored one, in the order of the batch.
StoreBatch(d, batch, cfg, after, a) ==
  LET new == NewEvents(d, batch) IN
  /\ a = Answer("stored", 0)
  /\ \E id \in [new -> 1..MaxLedgerId] :
       /\ \A i \in new : \A r \in d.events : r.id < id[i]
       /\ \A i, j \in new : i < j => id[i] < id[j]
       /\ after = [d EXCEPT !.events = @ \cup
            {[id |-> id[i], conn |-> batch[i].conn, event |-> batch[i].event,
              channel |-> ChannelOf[cfg.accounts[batch[i].conn]],
              chat |-> batch[i].chat,
              account |-> cfg.accounts[batch[i].conn]] : i \in new}]

\* All connections of a configuration are registered, or none.
Register(d, cfg, after, a) ==
  /\ a = Answer("registered", 0)
  /\ \A c \in Configured(cfg) : RegistrationAccepted(d, c, cfg.accounts[c])
  /\ after = [d EXCEPT !.registry =
       [c \in Conn |-> IF c \in Configured(cfg) THEN Registration(cfg.accounts[c])
                       ELSE d.registry[c]]]

\* A command appears together with all of its evidence.
WithCommand(d, q, scope, source, id) ==
  [d EXCEPT
     !.commands = @ \cup {[id |-> id, conn |-> source.conn, event |-> source.event,
                           op |-> q.op, text |-> q.text, channel |-> source.channel]},
     !.authorizations = @ \cup {[command |-> id, inbox |-> q.inbox,
                                 authority |-> q.authority, scope |-> scope]},
     !.eligibility = @ \cup
       {[command |-> id, account |-> b] :
          b \in {x \in Account : /\ source.channel = "telegram_bot"
                                 /\ x = d.registry[source.conn].account}}]

Create(d, q, scope, after, a) ==
  \/ \E c \in FindCommands(d, q, scope) :
       after = d /\ a = ClassifyCommand(d, c, q, scope)
  \/ /\ FindCommands(d, q, scope) = {}
     /\ \/ /\ EligibleSource(d, q, scope) = {}
           /\ after = d /\ a = Answer("source_unavailable", 0)
        \/ \E source \in EligibleSource(d, q, scope), id \in 1..MaxCommandId :
             /\ \A c \in d.commands : c.id < id
             /\ after = WithCommand(d, q, scope, source, id)
             /\ a = Answer("created", id)

\* The writer of delivery attempts takes no lock, so the decision may miss
\* attempts recorded while it was being taken; it misses nothing else.
Authorize(d, q, scope, after, a) ==
  \E seen \in SUBSET d.attempts :
    LET e == [d EXCEPT !.attempts = seen] IN
    \/ \E v \in FindDeliveries(e, q, scope) :
         after = d /\ a = ClassifyDelivery(e, v, q, scope)
    \/ /\ FindDeliveries(e, q, scope) = {}
       /\ \/ /\ EligibleCommand(e, q, scope) = {}
             /\ after = d /\ a = Answer("command_unavailable", 0)
          \/ \E c \in EligibleCommand(e, q, scope) :
               /\ after = [d EXCEPT !.deliveries = @ \cup
                    {[command |-> c.id, inbox |-> q.inbox, principal |-> q.principal,
                      scope |-> scope, account |-> d.registry[c.conn].account]}]
               /\ a = Answer("created", q.command)

Executes(d, q, cfg, after, a) ==
  \/ q.kind = "append" /\ StoreBatch(d, q.batch, cfg, after, a)
  \/ q.kind = "register" /\ Register(d, cfg, after, a)
  \/ q.kind = "create" /\ Create(d, q, cfg.scope[q.inbox], after, a)
  \/ q.kind = "authorize" /\ Authorize(d, q, cfg.scope[q.inbox], after, a)

-----------------------------------------------------------------------------
Pending(s) == request[s] # NoRequest /\ answer[s] = NoAnswer

Successes ==
  [kind : {"stored", "registered", "created", "idempotent_replay",
           "idempotency_conflict", "source_unavailable",
           "authorization_conflict", "command_unavailable"},
   command : 0..MaxCommandId]

Start(s) ==
  /\ phase[s] = "down"
  /\ phase' = [phase EXCEPT ![s] = "starting"]
  /\ \E cfg \in Config : config' = [config EXCEPT ![s] = cfg]
  /\ request' = [request EXCEPT ![s] = [kind |-> "register"]]
  /\ answer' = [answer EXCEPT ![s] = NoAnswer]
  /\ UNCHANGED db

Receive(s) ==
  /\ phase[s] = "serving" /\ ~Pending(s)
  /\ UNCHANGED <<db, phase, config>>
  /\ answer' = [answer EXCEPT ![s] = NoAnswer]
  /\ \E q \in Requests : request' = [request EXCEPT ![s] = q]

Succeed(s) ==
  /\ Pending(s)
  /\ UNCHANGED <<config, request>>
  /\ phase' = [phase EXCEPT ![s] = "serving"]
  /\ \E a \in Successes \cap {answer'[s]} :
       /\ answer' = [answer EXCEPT ![s] = a]
       /\ Executes(db, request[s], config[s], db', a)

InDoubt(s) ==
  \/ UNCHANGED db
  \/ /\ Pending(s)
     /\ \E a \in Successes : Executes(db, request[s], config[s], db', a)

Fail(s) ==
  /\ Pending(s)
  /\ UNCHANGED request
  /\ answer' = [answer EXCEPT ![s] = Answer("error", 0)]
  /\ IF phase[s] = "starting"
     THEN /\ phase' = [phase EXCEPT ![s] = "down"]
          /\ config' = [config EXCEPT ![s] = NoConfig]
     ELSE UNCHANGED <<phase, config>>
  /\ InDoubt(s)

Crash(s) ==
  /\ phase[s] # "down"
  /\ phase' = [phase EXCEPT ![s] = "down"]
  /\ config' = [config EXCEPT ![s] = NoConfig]
  /\ request' = [request EXCEPT ![s] = NoRequest]
  /\ answer' = [answer EXCEPT ![s] = NoAnswer]
  /\ InDoubt(s)

RecordAttempt ==
  /\ UNCHANGED <<phase, config, request, answer>>
  /\ \E c \in db.commands : db' = [db EXCEPT !.attempts = @ \cup {c.id}]

Next ==
  \/ \E s \in Server : Start(s) \/ Receive(s) \/ Succeed(s) \/ Fail(s) \/ Crash(s)
  \/ RecordAttempt

Spec == Init /\ [][Next]_vars
=============================================================================
