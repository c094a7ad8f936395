----------------------------- MODULE HubLedger -----------------------------
(***************************************************************************)
(* The durable core of the hub: API processes that register the accounts   *)
(* of their configuration, append webhook events, record reply commands    *)
(* and record delivery authorizations, each through one PostgreSQL         *)
(* transaction that takes advisory locks before its statements.            *)
(*                                                                         *)
(* A server is one pool client of one process (packages/storage-postgres,  *)
(* pool of 5): its configuration, the request it serves and its            *)
(* transaction.  Two clients of one process are two servers with the same  *)
(* configuration.  Every statement is a step; it sees the committed rows   *)
(* and the rows of its own transaction (READ COMMITTED).                   *)
(***************************************************************************)
EXTENDS HubTables

CONSTANTS
  Server,         \* pool clients of API processes
  Config,         \* configurations: [accounts : [Conn -> ...], scope : ...]
  Batches,        \* normalized webhook deliveries: sequences of events
  CreateRequests, \* reply commands callers may ask for
  AuthorizeRequests, \* delivery authorizations callers may ask for
  LegacyDatabases,   \* databases older migrations can have left behind
  MaxLedgerId,    \* largest value of the identity inbound_events.ledger_id
  MaxCommandId,   \* largest value of the identity outbound_commands.command_id
  MaxAttempts,    \* bound on rows of outbound_delivery_attempts
  Nobody,         \* the holder of a free lock
  NoRequest,      \* a server that serves nothing
  NoAnswer        \* a request that is not answered yet

Lock == {"APPEND", "REGISTRY", "COMMAND", "DELIVERY"}

BatchEvent == [conn : Conn, event : Event, chat : ChatType]
AppendRequest == [kind : {"append"}, batch : Seq(BatchEvent)]
CreateRequest == [kind : {"create"}, inbox : Inbox, authority : Authority,
                  conn : Conn, event : Event, op : Operation, text : Text]
AuthorizeRequest == [kind : {"authorize"}, command : Nat, inbox : Inbox,
                     principal : Principal]
RegisterRequest == [kind : {"register"}]
Request == AppendRequest \cup CreateRequest \cup AuthorizeRequest
           \cup RegisterRequest

AnswerKind == {"stored", "registered", "created", "idempotent_replay",
               "idempotency_conflict", "source_unavailable",
               "authorization_conflict", "command_unavailable", "error"}
AnswerRecord == [kind : AnswerKind, command : Nat]
ConfigRecord == [accounts : [Conn -> AccountOrNull],
                 scope : [Inbox -> SUBSET Conn]]

\* What a serving process may be asked.
Requests == {[kind |-> "append", batch |-> b] : b \in Batches}
            \cup CreateRequests \cup AuthorizeRequests

Configured(cfg) == {c \in Conn : cfg.accounts[c] # NoAccount}

(***************************************************************************)
(* What the configuration parser and the normalizers guarantee, and what   *)
(* the constraints of the schema say of rows that predate this code:       *)
(* an account-bound registration means every event of the connection came  *)
(* from that account.                                                      *)
(***************************************************************************)
LegacyAssumption ==
  \A d \in LegacyDatabases :
    /\ d \in Database
    /\ d.deliveries = {} /\ d.attempts = {} /\ d.eligibility = {}
    /\ d.authorizations = {}
    /\ \A r \in d.events : r.id \in 1..MaxLedgerId
    /\ \A r1, r2 \in d.events :
         r1.id = r2.id \/ (r1.conn = r2.conn /\ r1.event = r2.event)
           => r1 = r2
    /\ \A c \in d.commands :
         c.id \in 1..MaxCommandId /\ EventRecorded(d, c.conn, c.event)
    /\ \A k1, k2 \in d.commands :
         k1.id = k2.id \/ (k1.conn = k2.conn /\ k1.op = k2.op) => k1 = k2
    /\ \A r \in d.events : d.registry[r.conn] # NoRow
         => r.account = d.registry[r.conn].account
    /\ \A c \in Conn : d.registry[c] # NoRow /\ d.registry[c].account \in Account
         => d.registry[c].channel = ChannelOf[d.registry[c].account]

ASSUME LedgerAssumption ==
  /\ MaxLedgerId \in Nat /\ MaxCommandId \in Nat /\ MaxAttempts \in Nat
  /\ Nobody \notin Server
  /\ NoRequest \notin Request
  /\ NoAnswer \notin AnswerRecord
  /\ Config # {}
  /\ \A cfg \in Config : /\ cfg \in ConfigRecord
                         /\ Configured(cfg) # {}
                         /\ \A i \in Inbox : cfg.scope[i] \subseteq Configured(cfg)
  /\ Batches \subseteq Seq(BatchEvent) \ {<<>>}
  /\ CreateRequests \subseteq CreateRequest
  /\ AuthorizeRequests \subseteq AuthorizeRequest
  /\ EmptyDatabase \in LegacyDatabases
  /\ LegacyAssumption

VARIABLES
  db,         \* committed rows
  ledgerSeq,  \* last value of the identity of inbound_events
  commandSeq, \* last value of the identity of outbound_commands
  lockOwner,  \* advisory transaction locks
  phase,      \* of a server: down, starting, serving
  config,     \* its configuration
  request,    \* the request it serves, or served last
  answer,     \* the answer its caller got, NoAnswer while it waits
  pc,         \* the statement its transaction executes next
  waiting,    \* the locks its transaction has still to take, in order
  position,   \* the event of the batch to insert next
  draft,      \* the uncommitted rows of its transaction
  bot,        \* created.telegramEligibility: the Bot of an inserted command
  outcome     \* the answer to give once COMMIT is acknowledged

storage == <<db, ledgerSeq, commandSeq, lockOwner>>
process == <<phase, config, request, answer>>
transaction == <<pc, waiting, position, draft, bot, outcome>>
vars == <<db, ledgerSeq, commandSeq, lockOwner, phase, config, request, answer,
          pc, waiting, position, draft, bot, outcome>>

PC == {"idle", "lock", "insert_event", "register", "find_command",
       "insert_command", "insert_authorization", "insert_eligibility",
       "find_command_again", "find_delivery", "insert_delivery",
       "find_delivery_again", "commit", "orphaned"}

\* What a process that is down remembers.
NoConfig == CHOOSE cfg \in Config : TRUE

-----------------------------------------------------------------------------
(* The order in which each operation takes its locks, and its first        *)
(* statement under them.                                                   *)

\* Faults: a command does not wait for appends; an authorization locks
\* commands before appends.
CreateBesideAppend(kind) ==
  CASE kind = "append"    -> <<"APPEND">>
    [] kind = "register"  -> <<"REGISTRY", "APPEND">>
    [] kind = "create"    -> <<"COMMAND">>
    [] kind = "authorize" -> <<"APPEND", "COMMAND", "DELIVERY">>
AuthorizeReordered(kind) ==
  CASE kind = "append"    -> <<"APPEND">>
    [] kind = "register"  -> <<"REGISTRY", "APPEND">>
    [] kind = "create"    -> <<"APPEND", "COMMAND">>
    [] kind = "authorize" -> <<"COMMAND", "APPEND", "DELIVERY">>

LocksOf(kind) ==
  CASE kind = "append"    -> <<"APPEND">>
    [] kind = "register"  -> <<"REGISTRY", "APPEND">>
    [] kind = "create"    -> <<"APPEND", "COMMAND">>
    [] kind = "authorize" -> <<"APPEND", "COMMAND", "DELIVERY">>

FirstStatement(kind) ==
  CASE kind = "append"    -> "insert_event"
    [] kind = "register"  -> "register"
    [] kind = "create"    -> "find_command"
    [] kind = "authorize" -> "find_delivery"

View(s) == Merge(db, draft[s])
ScopeOf(s) == config[s].scope[request[s].inbox]

Init ==
  /\ db \in LegacyDatabases
  /\ ledgerSeq \in {0} \cup {r.id : r \in db.events}
  /\ \A r \in db.events : r.id <= ledgerSeq
  /\ commandSeq \in {0} \cup {c.id : c \in db.commands}
  /\ \A c \in db.commands : c.id <= commandSeq
  /\ lockOwner = [l \in Lock |-> Nobody]
  /\ phase = [s \in Server |-> "down"]
  /\ config = [s \in Server |-> NoConfig]
  /\ request = [s \in Server |-> NoRequest]
  /\ answer = [s \in Server |-> NoAnswer]
  /\ pc = [s \in Server |-> "idle"]
  /\ waiting = [s \in Server |-> <<>>]
  /\ position = [s \in Server |-> 1]
  /\ draft = [s \in Server |-> EmptyDatabase]
  /\ bot = [s \in Server |-> NoAccount]
  /\ outcome = [s \in Server |-> NoAnswer]

-----------------------------------------------------------------------------
(* Requests and locks.                                                     *)

\* BEGIN, and the request whose locks it is about to take.
BeginTransaction(s, q) ==
  /\ request' = [request EXCEPT ![s] = q]
  /\ answer' = [answer EXCEPT ![s] = NoAnswer]
  /\ pc' = [pc EXCEPT ![s] = "lock"]
  /\ waiting' = [waiting EXCEPT ![s] = LocksOf(q.kind)]
  /\ position' = [position EXCEPT ![s] = 1]
  /\ UNCHANGED <<draft, bot, outcome>>

\* A process starts with some configuration and registers all of it before
\* it listens.
Start(s, cfg) ==
  /\ phase[s] = "down" /\ pc[s] = "idle"
  /\ phase' = [phase EXCEPT ![s] = "starting"]
  /\ config' = [config EXCEPT ![s] = cfg]
  /\ BeginTransaction(s, [kind |-> "register"])
  /\ UNCHANGED storage

\* A webhook delivery for configured connections; the chat type is present
\* exactly for Telegram events.
DeliverableBatch(s, batch) ==
  \A i \in DOMAIN batch :
    LET a == config[s].accounts[batch[i].conn] IN
    /\ a # NoAccount
    /\ IF ChannelOf[a] = "telegram_bot"
       THEN batch[i].chat \in {"private", "group"}
       ELSE batch[i].chat = "none"

\* A handler of a serving process calls one of the stores.
Receive(s, q) ==
  /\ phase[s] = "serving" /\ pc[s] = "idle"
  /\ q.kind = "append" => DeliverableBatch(s, q.batch)
  /\ BeginTransaction(s, q)
  /\ UNCHANGED <<phase, config>>
  /\ UNCHANGED storage

\* Fault: pg_advisory_xact_lock_shared.
AcquireSharedLock(s) ==
  /\ pc[s] = "lock"
  /\ lockOwner' = [lockOwner EXCEPT ![Head(waiting[s])] = s]
  /\ waiting' = [waiting EXCEPT ![s] = Tail(waiting[s])]
  /\ pc' = [pc EXCEPT ![s] = IF Len(waiting[s]) = 1
                             THEN FirstStatement(request[s].kind) ELSE "lock"]
  /\ UNCHANGED <<db, ledgerSeq, commandSeq, position, draft, bot, outcome>>
  /\ UNCHANGED process

\* pg_advisory_xact_lock returns: the lock was free.
AcquireLock(s) ==
  /\ pc[s] = "lock"
  /\ lockOwner[Head(waiting[s])] = Nobody
  /\ lockOwner' = [lockOwner EXCEPT ![Head(waiting[s])] = s]
  /\ waiting' = [waiting EXCEPT ![s] = Tail(waiting[s])]
  /\ pc' = [pc EXCEPT ![s] = IF Len(waiting[s]) = 1
                             THEN FirstStatement(request[s].kind) ELSE "lock"]
  /\ UNCHANGED <<db, ledgerSeq, commandSeq, position, draft, bot, outcome>>
  /\ UNCHANGED process

-----------------------------------------------------------------------------
(* Statements.  Each moves the transaction on, may add rows to its draft   *)
(* and may settle its outcome.                                             *)

MoveTo(s, next) == pc' = [pc EXCEPT ![s] = next]
Write(s, rows) == draft' = [draft EXCEPT ![s] = Merge(@, rows)]
Settle(s, a) == /\ outcome' = [outcome EXCEPT ![s] = a]
                /\ MoveTo(s, "commit")
UnchangedButStatement == UNCHANGED <<db, lockOwner, phase, config, request,
                                     answer, waiting>>

\* One INSERT ... ON CONFLICT DO NOTHING of the batch.  The identity column is
\* evaluated first, so a duplicate leaves a gap; the foreign key wants the
\* registry row.
InsertEvent(s) ==
  LET e == request[s].batch[position[s]]
      a == config[s].accounts[e.conn]
      row == [id |-> ledgerSeq + 1, conn |-> e.conn, event |-> e.event,
              channel |-> ChannelOf[a], chat |-> e.chat, account |-> a]
  IN
  /\ pc[s] = "insert_event"
  /\ ledgerSeq < MaxLedgerId
  /\ View(s).registry[e.conn] # NoRow
  /\ ledgerSeq' = ledgerSeq + 1
  /\ IF EventRecorded(View(s), e.conn, e.event)
     THEN UNCHANGED draft
     ELSE Write(s, [EmptyDatabase EXCEPT !.events = {row}])
  /\ IF position[s] = Len(request[s].batch)
     THEN Settle(s, Answer("stored", 0)) /\ UNCHANGED position
     ELSE /\ position' = [position EXCEPT ![s] = @ + 1]
          /\ UNCHANGED <<pc, outcome>>
  /\ UNCHANGED <<commandSeq, bot>>
  /\ UnchangedButStatement

\* Connections of the configuration whose upsert has not run yet.
Unregistered(s) ==
  {c \in Configured(config[s]) : draft[s].registry[c] = NoRow}

\* One accepted upsert of ensureRegistered.
RegisterConnection(s, c) ==
  LET a == config[s].accounts[c] IN
  /\ pc[s] = "register" /\ c \in Unregistered(s)
  /\ RegistrationAccepted(View(s), c, a)
  /\ Write(s, [EmptyDatabase EXCEPT !.registry[c] = Registration(a)])
  /\ IF Unregistered(s) = {c}
     THEN Settle(s, Answer("registered", 0))
     ELSE UNCHANGED <<pc, outcome>>
  /\ UNCHANGED <<ledgerSeq, commandSeq, position, bot>>
  /\ UnchangedButStatement

\* findExisting of the reply command store.
FindCommand(s) ==
  LET found == FindCommands(View(s), request[s], ScopeOf(s)) IN
  /\ pc[s] = "find_command"
  /\ IF found = {}
     THEN MoveTo(s, "insert_command") /\ UNCHANGED outcome
     ELSE \E c \in found :
            Settle(s, ClassifyCommand(View(s), c, request[s], ScopeOf(s)))
  /\ UNCHANGED <<ledgerSeq, commandSeq, position, draft, bot>>
  /\ UnchangedButStatement

\* INSERT_SOURCE_BOUND_COMMAND_SQL: the row is drawn from the source event.  A
\* key that is taken costs an id and returns no row.
InsertCommand(s) ==
  LET q == request[s]
      sources == EligibleSource(View(s), q, ScopeOf(s))
      inserted == sources # {} /\ CommandsFor(View(s), q) = {}
  IN
  /\ pc[s] = "insert_command"
  /\ sources # {} => commandSeq < MaxCommandId
  /\ commandSeq' = IF sources = {} THEN commandSeq ELSE commandSeq + 1
  /\ IF inserted
     THEN /\ \E r \in sources :
               /\ Write(s, [EmptyDatabase EXCEPT !.commands =
                 {[id |-> commandSeq + 1, conn |-> r.conn, event |-> r.event,
                   op |-> q.op, text |-> q.text, channel |-> r.channel]}])
               /\ bot' = [bot EXCEPT ![s] =
                    IF r.channel = "telegram_bot"
                    THEN View(s).registry[r.conn].account ELSE NoAccount]
          /\ outcome' = [outcome EXCEPT ![s] = Answer("created", commandSeq + 1)]
          /\ MoveTo(s, "insert_authorization")
     ELSE /\ MoveTo(s, "find_command_again")
          /\ UNCHANGED <<draft, bot, outcome>>
  /\ UNCHANGED <<ledgerSeq, position>>
  /\ UnchangedButStatement

\* insertAuthorization: who asked, and under which scope.  The eligibility
\* row follows only for a Telegram source.
InsertAuthorization(s) ==
  /\ pc[s] = "insert_authorization"
  /\ Write(s, [EmptyDatabase EXCEPT !.authorizations =
       {[command |-> outcome[s].command, inbox |-> request[s].inbox,
         authority |-> request[s].authority, scope |-> ScopeOf(s)]}])
  /\ MoveTo(s, IF bot[s] # NoAccount THEN "insert_eligibility" ELSE "commit")
  /\ UNCHANGED <<ledgerSeq, commandSeq, position, bot, outcome>>
  /\ UnchangedButStatement

\* insertTelegramEligibility, with the Bot the insert of the command returned.
InsertEligibility(s) ==
  /\ pc[s] = "insert_eligibility"
  /\ Write(s, [EmptyDatabase EXCEPT !.eligibility =
       {[command |-> outcome[s].command, account |-> bot[s]]}])
  /\ MoveTo(s, "commit")
  /\ UNCHANGED <<ledgerSeq, commandSeq, position, bot, outcome>>
  /\ UnchangedButStatement

\* The second findExisting, after an insert that returned no row.
FindCommandAgain(s) ==
  LET found == FindCommands(View(s), request[s], ScopeOf(s)) IN
  /\ pc[s] = "find_command_again"
  /\ IF found = {}
     THEN Settle(s, Answer("source_unavailable", 0))
     ELSE \E c \in found :
            Settle(s, ClassifyCommand(View(s), c, request[s], ScopeOf(s)))
  /\ UNCHANGED <<ledgerSeq, commandSeq, position, draft, bot>>
  /\ UnchangedButStatement

\* findExisting of the delivery authorization store.
FindDelivery(s) ==
  LET found == FindDeliveries(View(s), request[s], ScopeOf(s)) IN
  /\ pc[s] = "find_delivery"
  /\ IF found = {}
     THEN MoveTo(s, "insert_delivery") /\ UNCHANGED outcome
     ELSE \E v \in found :
            Settle(s, ClassifyDelivery(View(s), v, request[s], ScopeOf(s)))
  /\ UNCHANGED <<ledgerSeq, commandSeq, position, draft, bot>>
  /\ UnchangedButStatement

\* INSERT_AUTHORIZATION_SQL, bound to the Bot the connection has now.
InsertDelivery(s) ==
  LET q == request[s]
      eligible == EligibleCommand(View(s), q, ScopeOf(s))
      taken == \E v \in View(s).deliveries : v.command = q.command
  IN
  /\ pc[s] = "insert_delivery"
  /\ IF eligible # {} /\ ~taken
     THEN /\ \E c \in eligible :
               Write(s, [EmptyDatabase EXCEPT !.deliveries =
                 {[command |-> c.id, inbox |-> q.inbox,
                   principal |-> q.principal, scope |-> ScopeOf(s),
                   account |-> View(s).registry[c.conn].account]}])
          /\ Settle(s, Answer("created", q.command))
     ELSE /\ MoveTo(s, "find_delivery_again")
          /\ UNCHANGED <<draft, outcome>>
  /\ UNCHANGED <<ledgerSeq, commandSeq, position, bot>>
  /\ UnchangedButStatement

FindDeliveryAgain(s) ==
  LET found == FindDeliveries(View(s), request[s], ScopeOf(s)) IN
  /\ pc[s] = "find_delivery_again"
  /\ IF found = {}
     THEN Settle(s, Answer("command_unavailable", 0))
     ELSE \E v \in found :
            Settle(s, ClassifyDelivery(View(s), v, request[s], ScopeOf(s)))
  /\ UNCHANGED <<ledgerSeq, commandSeq, position, draft, bot>>
  /\ UnchangedButStatement

-----------------------------------------------------------------------------
(* The end of a transaction: COMMIT, ROLLBACK, or the loss of the process. *)

\* The advisory locks go with the transaction, and so does its draft.
EndTransaction(s) ==
  /\ lockOwner' = [l \in Lock |-> IF lockOwner[l] = s THEN Nobody ELSE lockOwner[l]]
  /\ pc' = [pc EXCEPT ![s] = "idle"]
  /\ waiting' = [waiting EXCEPT ![s] = <<>>]
  /\ position' = [position EXCEPT ![s] = 1]
  /\ draft' = [draft EXCEPT ![s] = EmptyDatabase]
  /\ bot' = [bot EXCEPT ![s] = NoAccount]
  /\ outcome' = [outcome EXCEPT ![s] = NoAnswer]

\* The caller sees PostgresStorageError; a process that could not register
\* its configuration exits.
Raise(s) ==
  /\ answer' = [answer EXCEPT ![s] = Answer("error", 0)]
  /\ IF phase[s] = "starting"
     THEN /\ phase' = [phase EXCEPT ![s] = "down"]
          /\ config' = [config EXCEPT ![s] = NoConfig]
     ELSE UNCHANGED <<phase, config>>
  /\ UNCHANGED request

\* COMMIT is acknowledged: the caller gets the outcome.
Commit(s) ==
  /\ pc[s] = "commit"
  /\ db' = Merge(db, draft[s])
  /\ answer' = [answer EXCEPT ![s] = outcome[s]]
  /\ phase' = [phase EXCEPT ![s] = "serving"]
  /\ EndTransaction(s)
  /\ UNCHANGED <<ledgerSeq, commandSeq, config, request>>

\* COMMIT takes effect, but its acknowledgement is lost.
CommitUnacknowledged(s) ==
  /\ pc[s] = "commit"
  /\ db' = Merge(db, draft[s])
  /\ EndTransaction(s)
  /\ Raise(s)
  /\ UNCHANGED <<ledgerSeq, commandSeq>>

Rollback(s) ==
  /\ EndTransaction(s)
  /\ Raise(s)
  /\ UNCHANGED <<db, ledgerSeq, commandSeq>>

\* The connection or a statement fails for a reason outside the database's
\* rows.
StatementFails(s) ==
  /\ pc[s] \notin {"idle", "orphaned"}
  /\ Rollback(s)

\* The next statement cannot succeed: an upsert returns no row, or an
\* identity has reached its maximum.
StatementRefused(s) ==
  /\ \/ /\ pc[s] = "register"
        /\ \E c \in Unregistered(s) :
             ~RegistrationAccepted(View(s), c, config[s].accounts[c])
     \/ pc[s] = "insert_event" /\ ledgerSeq = MaxLedgerId
     \/ /\ pc[s] = "insert_command" /\ commandSeq = MaxCommandId
        /\ EligibleSource(View(s), request[s], ScopeOf(s)) # {}
  /\ Rollback(s)

\* The process dies.  PostgreSQL keeps the transaction and its locks until
\* the backend notices; a COMMIT already sent may still take effect.
Crash(s) ==
  /\ phase[s] # "down"
  /\ phase' = [phase EXCEPT ![s] = "down"]
  /\ config' = [config EXCEPT ![s] = NoConfig]
  /\ request' = [request EXCEPT ![s] = NoRequest]
  /\ answer' = [answer EXCEPT ![s] = NoAnswer]
  /\ \/ /\ pc[s] = "commit"
        /\ db' = Merge(db, draft[s])
        /\ EndTransaction(s)
     \/ /\ pc[s] # "idle"
        /\ MoveTo(s, "orphaned")
        /\ UNCHANGED <<db, lockOwner, waiting, position, draft, bot, outcome>>
     \/ /\ pc[s] = "idle"
        /\ UNCHANGED <<db, lockOwner, pc, waiting, position, draft, bot, outcome>>
  /\ UNCHANGED <<ledgerSeq, commandSeq>>

\* The backend of a dead process rolls back.
BackendEnds(s) ==
  /\ pc[s] = "orphaned"
  /\ EndTransaction(s)
  /\ UNCHANGED <<db, ledgerSeq, commandSeq>>
  /\ UNCHANGED process

\* Nothing in the code writes outbound_delivery_attempts; the schema admits
\* one row for each command, written by whoever delivers it.
RecordAttempt ==
  /\ Cardinality(db.attempts) < MaxAttempts
  /\ \E c \in db.commands :
       /\ c.id \notin db.attempts
       /\ db' = [db EXCEPT !.attempts = @ \cup {c.id}]
  /\ UNCHANGED <<ledgerSeq, commandSeq, lockOwner>>
  /\ UNCHANGED process
  /\ UNCHANGED transaction

-----------------------------------------------------------------------------
Statement(s) ==
  \/ InsertEvent(s)
  \/ \E c \in Conn : RegisterConnection(s, c)
  \/ FindCommand(s) \/ InsertCommand(s) \/ InsertAuthorization(s)
  \/ InsertEligibility(s) \/ FindCommandAgain(s)
  \/ FindDelivery(s) \/ InsertDelivery(s) \/ FindDeliveryAgain(s)
  \/ StatementRefused(s)
  \/ Commit(s)

Arrival(s) ==
  \/ \E cfg \in Config : Start(s, cfg)
  \/ \E q \in Requests : Receive(s, q)

Failure(s) ==
  \/ CommitUnacknowledged(s) \/ StatementFails(s) \/ Crash(s)

Next ==
  \/ \E s \in Server : Arrival(s) \/ AcquireLock(s) \/ Statement(s)
                       \/ Failure(s) \/ BackendEnds(s)
  \/ RecordAttempt

Spec == Init /\ [][Next]_vars

(***************************************************************************)
(* The event loop runs every continuation of a query that has come back,   *)
(* PostgreSQL answers every statement and ends the session of a dead       *)
(* client (weak fairness).  Waiters of an advisory lock are queued, so one *)
(* that waits gets the lock if it is released again and again (strong      *)
(* fairness).  Nothing obliges callers to call, or failures to happen.     *)
(***************************************************************************)
Fairness ==
  \A s \in Server : /\ WF_vars(Statement(s))
                    /\ SF_vars(AcquireLock(s))
                    /\ WF_vars(BackendEnds(s))

FairSpec == Spec /\ Fairness

-----------------------------------------------------------------------------
(* Invariants.                                                             *)

\* Every variable has its type.
TypeOK ==
  /\ db \in Database
  /\ ledgerSeq \in 0..MaxLedgerId /\ commandSeq \in 0..MaxCommandId
  /\ lockOwner \in [Lock -> Server \cup {Nobody}]
  /\ phase \in [Server -> {"down", "starting", "serving"}]
  /\ config \in [Server -> Config]
  /\ request \in [Server -> Request \cup {NoRequest}]
  /\ answer \in [Server -> AnswerRecord \cup {NoAnswer}]
  /\ pc \in [Server -> PC]
  /\ waiting \in [Server -> Seq(Lock)]
  /\ position \in [Server -> Nat]
  /\ draft \in [Server -> Database]
  /\ bot \in [Server -> AccountOrNull]
  /\ outcome \in [Server -> AnswerRecord \cup {NoAnswer}]

\* One connection id never mixes two provider accounts: if the registry binds
\* a connection to an account, every event stored under that connection came
\* from that account, whatever configurations were started, concurrently or
\* one after another, and whatever an older version left behind.
OneAccountPerConnection ==
  \A r \in db.events :
    db.registry[r.conn] # NoRow /\ db.registry[r.conn].account \in Account
      => r.account = db.registry[r.conn].account

\* A process accepts traffic only while the durable registry binds each of
\* its connections to the very account it is configured with.
ServingIsBound ==
  \A s \in Server : phase[s] = "serving" =>
    \A c \in Configured(config[s]) :
      db.registry[c] = Registration(config[s].accounts[c])

LegacyCommand(c) == \E d \in LegacyDatabases : c \in d.commands

\* No command this code wrote is ever visible without its evidence: the
\* authority and a scope that holds its connection, and, for Telegram, a
\* private source and eligibility for the Bot the connection is bound to now.
CommandsCarryEvidence ==
  \A c \in db.commands : LegacyCommand(c) \/
    /\ \E a \in db.authorizations : a.command = c.id /\ c.conn \in a.scope
    /\ c.channel = "telegram_bot" => SourcePrivate(db, c) /\ BotEligibility(db, c)

\* A delivery authorization stands on a Telegram command of the same inbox and
\* scope with a private source, and names the Bot that is bound now, which is
\* the one the command was recorded for; a command has at most one.
DeliveriesAreBacked ==
  \A v \in db.deliveries :
    /\ \E c \in db.commands :
         /\ c.id = v.command /\ c.channel = "telegram_bot" /\ c.conn \in v.scope
         /\ CommandAuthorizedFor(db, c.id, v.inbox, v.scope)
         /\ SourcePrivate(db, c) /\ BotEligibility(db, c)
         /\ v.account = db.registry[c.conn].account
    /\ \A w \in db.deliveries : w.command = v.command => w = v

\* The three statements that spell out when a command may be authorized never
\* disagree on stored rows: the dashboard offers an authorization exactly when
\* recording it would succeed, and an authorization already recorded is
\* recognised exactly as long as it could still be recorded.
StatementsAgree ==
  \A cfg \in Config, i \in Inbox, c \in db.commands : c.conn \in cfg.scope[i] =>
    LET q == [command |-> c.id, inbox |-> i]
        scope == cfg.scope[i]
        stored == FindDeliveries(db, q, scope)
        recordable == EligibleCommand(db, q, scope) # {}
    IN  /\ HistoryOffersAuthorization(db, c, i, scope)
             <=> recordable /\ stored = {}
        /\ \A v \in stored : EligibleNow(db, v, q, scope) <=> recordable

Answered(s, kinds) == answer[s] # NoAnswer /\ answer[s].kind \in kinds

\* An acknowledged success is on disk: a stored batch is in the ledger, and
\* the command or authorization the caller was told of is exactly the one it
\* asked for.
AnswersAreDurable ==
  \A s \in Server :
    LET q == request[s] IN
    /\ Answered(s, {"stored"}) =>
         \A i \in DOMAIN q.batch : EventRecorded(db, q.batch[i].conn, q.batch[i].event)
    /\ Answered(s, {"created", "idempotent_replay"}) /\ q.kind = "create" =>
         \E c \in db.commands : /\ c.id = answer[s].command
                                /\ c.conn = q.conn /\ c.op = q.op
                                /\ c.event = q.event /\ c.text = q.text
                                /\ SameAuthorization(db, c, q, ScopeOf(s))
    /\ Answered(s, {"created", "idempotent_replay"}) /\ q.kind = "authorize" =>
         \E v \in db.deliveries :
           /\ v.command = q.command /\ v.inbox = q.inbox
           /\ v.principal = q.principal /\ v.scope = ScopeOf(s)

\* A retry is never mistaken for a conflict: whoever is told of one asked for
\* something else than what is stored, or met a row older than the evidence.
ConflictsAreGenuine ==
  \A s \in Server :
    LET q == request[s] IN
    /\ Answered(s, {"idempotency_conflict"}) =>
         \E c \in CommandsFor(db, q) :
           \/ LegacyCommand(c)
           \/ c.event # q.event \/ c.text # q.text
           \/ ~SameAuthorization(db, c, q, ScopeOf(s))
    /\ Answered(s, {"authorization_conflict"}) =>
         \E v \in db.deliveries :
           v.command = q.command /\ (v.inbox # q.inbox \/ v.principal # q.principal
                                     \/ v.scope # ScopeOf(s))

\* What a caller is told is true of the database, whatever became of earlier attempts
\* of his, of their acknowledgements and of the processes that made them.
AnswersAreTrue == AnswersAreDurable /\ ConflictsAreGenuine

-----------------------------------------------------------------------------
(* Action properties.                                                      *)

\* A row becomes visible only above every row already visible, in the ledger
\* and among commands: a reader that has seen id n has seen every id up to n
\* that it will ever be able to see.  EventRowsSpec and CommandRowsSpec say
\* more; this is the part of them that rests on the locks.
VisibleInIdOrder ==
  [][/\ \A new \in db'.events \ db.events : \A old \in db.events : old.id < new.id
     /\ \A new \in db'.commands \ db.commands :
          \A old \in db.commands : old.id < new.id]_vars

\* A registered connection never changes channel, and its account is set at
\* most once, never over events that are already stored.
BindingNeverMoves ==
  [][\A c \in Conn : db.registry[c] # NoRow /\ db'.registry[c] # db.registry[c]
       => /\ db'.registry[c].channel = db.registry[c].channel
          /\ db.registry[c].account = NoAccount
          /\ ~HasHistory(db, c)]_vars

-----------------------------------------------------------------------------
(* Liveness.                                                               *)

\* Every operation that has begun ends, with an answer unless its process
\* dies: four operations that take up to three locks each never wait for each
\* other for ever, and neither a failed statement nor a dead process keeps a
\* lock.
EveryOperationEnds ==
  \A s \in Server :
    /\ pc[s] # "idle" ~> pc[s] = "idle"
    /\ request[s] # NoRequest ~> answer[s] # NoAnswer \/ phase[s] = "down"
-----------------------------------------------------------------------------
(* Refinement.  Locks, sequences and open transactions disappear.          *)

Serial == INSTANCE SerialLedger

\* The stores are serializable in the order of their commits: every answer,
\* and every change of the database, is the one that a single atomic
\* operation on the committed rows would have given at that moment.
SerialSpec == Serial!Spec

\* What a reader sees of either identity column.
Stream(rows) == {[id |-> r.id, conn |-> r.conn] : r \in rows}

EventRows == INSTANCE VisibleRows
               WITH visible <- Stream(db.events), MaxId <- MaxLedgerId
CommandRows == INSTANCE VisibleRows
                 WITH visible <- Stream(db.commands), MaxId <- MaxCommandId

\* Readers may rely on the two tables as VisibleRows describes them: although
\* transactions draw ids before they commit, lose ids and die, no row ever
\* becomes visible below one that is visible already, and none changes.
EventRowsSpec == EventRows!Spec
CommandRowsSpec == CommandRows!Spec
=============================================================================
