-------------------------- MODULE HubSerial_proofs --------------------------
(***************************************************************************)
(* The stores are serializable: HubLedger implements SerialLedger, for     *)
(* every set of servers, configurations, requests and legacy databases.    *)
(*                                                                         *)
(* A transaction decides on what it reads and writes a draft.  Because it  *)
(* holds the lock APPEND, the committed rows it has read are still the     *)
(* committed rows when it commits, so the draft and the outcome are those  *)
(* of one atomic operation at the instant of COMMIT.  Only delivery        *)
(* attempts are written without a lock; SerialLedger lets an authorization *)
(* miss them, and nothing else depends on them.                            *)
(*                                                                         *)
(* Then, what the stored rows and the answers mean.  The steps of          *)
(* HubLedger are atomic operations, so it is enough that each operation,   *)
(* executed on sound committed rows, leaves sound rows, adds to the tables *)
(* without taking away, and answers the truth.                             *)
(***************************************************************************)
EXTENDS HubSafety_proofs, WellFoundedInduction

-----------------------------------------------------------------------------
(* The operations of SerialLedger, with their rows and updates named.      *)

\* A database with some of its tables replaced.
WithEvents(d, x) == [d EXCEPT !.events = x]
WithRegistry(d, x) == [d EXCEPT !.registry = x]
WithDeliveries(d, x) == [d EXCEPT !.deliveries = x]
WithAttempts(d, x) == [d EXCEPT !.attempts = x]
WithEvidence(d, x, y, z) ==
  [d EXCEPT !.commands = x, !.authorizations = y, !.eligibility = z]

\* The row of the event e of a batch under identity n.
BatchRow(cfg, e, n) ==
  [id |-> n, conn |-> e.conn, event |-> e.event,
   channel |-> ChannelOf[cfg.accounts[e.conn]], chat |-> e.chat,
   account |-> cfg.accounts[e.conn]]

\* Identities for the new events: above every stored one, in the order of the
\* batch.
NewIds(d, new, id) ==
  /\ id \in [new -> 1..MaxLedgerId]
  /\ \A i \in new : \A r \in d.events : r.id < id[i]
  /\ \A i, j \in new : i < j => id[i] < id[j]

\* The command drawn from source, and the authorization that goes with it.
CommandFrom(source, q, id) ==
  [id |-> id, conn |-> source.conn, event |-> source.event,
   op |-> q.op, text |-> q.text, channel |-> source.channel]
AuthorizationFrom(q, id, scope) ==
  [command |-> id, inbox |-> q.inbox, authority |-> q.authority, scope |-> scope]

\* A batch is stored.
Stores(d, batch, cfg, after, a) ==
  /\ a = Answer("stored", 0)
  /\ \E id : /\ NewIds(d, Serial!NewEvents(d, batch), id)
             /\ after = WithEvents(d, d.events \cup
                  {BatchRow(cfg, batch[i], id[i]) : i \in Serial!NewEvents(d, batch)})

\* A configuration is registered.
Registers(d, cfg, after, a) ==
  /\ a = Answer("registered", 0)
  /\ \A c \in Configured(cfg) : RegistrationAccepted(d, c, cfg.accounts[c])
  /\ after = WithRegistry(d, [c \in Conn |->
       IF c \in Configured(cfg) THEN Registration(cfg.accounts[c]) ELSE d.registry[c]])

\* A reply command is created, found or refused.
Eligibility(d, source, id) ==
  {[command |-> id, account |-> b] :
     b \in {x \in Account : /\ source.channel = "telegram_bot"
                            /\ x = d.registry[source.conn].account}}
Creates(d, q, scope, after, a) ==
  \/ \E c \in FindCommands(d, q, scope) :
       after = d /\ a = ClassifyCommand(d, c, q, scope)
  \/ /\ FindCommands(d, q, scope) = {}
     /\ \/ /\ EligibleSource(d, q, scope) = {}
           /\ after = d /\ a = Answer("source_unavailable", 0)
        \/ \E source \in EligibleSource(d, q, scope), id \in 1..MaxCommandId :
             /\ \A c \in d.commands : c.id < id
             /\ after = WithEvidence(d, d.commands \cup {CommandFrom(source, q, id)},
                  d.authorizations \cup {AuthorizationFrom(q, id, scope)},
                  d.eligibility \cup Eligibility(d, source, id))
             /\ a = Answer("created", id)

\* A delivery is authorized, found or refused; attempts may be missed.
DeliveryFor(d, c, q, scope) ==
  [command |-> c.id, inbox |-> q.inbox, principal |-> q.principal,
   scope |-> scope, account |-> d.registry[c.conn].account]
Authorizes(d, q, scope, after, a) ==
  \E seen \in SUBSET d.attempts :
    \/ \E v \in FindDeliveries(WithAttempts(d, seen), q, scope) :
         after = d /\ a = ClassifyDelivery(WithAttempts(d, seen), v, q, scope)
    \/ /\ FindDeliveries(WithAttempts(d, seen), q, scope) = {}
       /\ \/ /\ EligibleCommand(WithAttempts(d, seen), q, scope) = {}
             /\ after = d /\ a = Answer("command_unavailable", 0)
          \/ \E c \in EligibleCommand(WithAttempts(d, seen), q, scope) :
               /\ after = WithDeliveries(d, d.deliveries \cup {DeliveryFor(d, c, q, scope)})
               /\ a = Answer("created", q.command)

Executed(d, q, cfg, after, a) ==
  \/ q.kind = "append" /\ Stores(d, q.batch, cfg, after, a)
  \/ q.kind = "register" /\ Registers(d, cfg, after, a)
  \/ q.kind = "create" /\ Creates(d, q, cfg.scope[q.inbox], after, a)
  \/ q.kind = "authorize" /\ Authorizes(d, q, cfg.scope[q.inbox], after, a)

-----------------------------------------------------------------------------
(* The inductive invariant: what an open transaction has done so far, in   *)
(* terms of the committed rows d, its request q and its draft w.           *)

\* Of the first n events of a batch, those that are new.
NewAmong(d, batch, n) == {i \in Serial!NewEvents(d, batch) : i <= n}

\* The first n events of the batch are inserted.
Inserted(d, cfg, batch, n, w) ==
  /\ w = WithEvents(EmptyDatabase, w.events)
  /\ \A i \in 1..n : EventRecorded(Merge(d, w), batch[i].conn, batch[i].event)
  /\ \E id : /\ NewIds(d, NewAmong(d, batch, n), id)
             /\ w.events = {BatchRow(cfg, batch[i], id[i]) : i \in NewAmong(d, batch, n)}

\* A command is drafted from an eligible source under a new id, and its
\* authorization if that statement has been executed.
Creating(d, q, scope, w, b, o, authorized) ==
  /\ FindCommands(d, q, scope) = {}
  /\ o = Answer("created", o.command) /\ o.command \in 1..MaxCommandId
  /\ \A c \in d.commands : c.id < o.command
  /\ \E source \in EligibleSource(d, q, scope) :
       /\ b = IF source.channel = "telegram_bot"
              THEN d.registry[source.conn].account ELSE NoAccount
       /\ w = WithEvidence(EmptyDatabase, {CommandFrom(source, q, o.command)},
            IF authorized THEN {AuthorizationFrom(q, o.command, scope)} ELSE {}, {})

\* The statement at which a transaction is about to execute tells what it has
\* drafted and what it has found out; at COMMIT it has executed its operation.
Stage(d, cfg, q, at, n, w, b, o) ==
  /\ at \in {"idle", "lock"} => w = EmptyDatabase /\ n = 1
  /\ at = "insert_event" => Inserted(d, cfg, q.batch, n - 1, w)
  /\ at = "register" => w = WithRegistry(EmptyDatabase, w.registry)
  /\ at \in {"find_command", "insert_command", "find_command_again",
             "find_delivery", "insert_delivery", "find_delivery_again"} =>
       w = EmptyDatabase
  /\ at \in {"insert_command", "find_command_again"} =>
       FindCommands(d, q, cfg.scope[q.inbox]) = {}
  /\ at = "find_command_again" => EligibleSource(d, q, cfg.scope[q.inbox]) = {}
  /\ at \in {"insert_authorization", "insert_eligibility"} =>
       Creating(d, q, cfg.scope[q.inbox], w, b, o, at = "insert_eligibility")
  /\ at = "insert_eligibility" => b # NoAccount
  /\ at \in {"insert_delivery", "find_delivery_again"} =>
       FindDeliveries(d, q, cfg.scope[q.inbox]) = {}
  /\ at = "find_delivery_again" =>
       \E seen \in SUBSET d.attempts :
         EligibleCommand(WithAttempts(d, seen), q, cfg.scope[q.inbox]) = {}
  /\ at = "commit" =>
       o \in Serial!Successes /\ Executed(d, q, cfg, Merge(d, w), o)

Working(s) == Stage(db, config[s], request[s], pc[s], position[s], draft[s],
                    bot[s], outcome[s])

\* A request is open from BEGIN until its caller has an answer.
Waits(s) ==
  /\ Open(s) => Serial!Pending(s)
  /\ phase[s] = "serving" /\ pc[s] = "idle" => ~Serial!Pending(s)

SerialInv == SafetyInv /\ \A s \in Server : Working(s) /\ Waits(s)

-----------------------------------------------------------------------------
(* Lemmas about databases.                                                 *)

\* Databases with the same tables are equal.
LEMMA SameTables ==
  ASSUME NEW d \in Database, NEW e \in Database,
         d.events = e.events, d.registry = e.registry, d.commands = e.commands,
         d.authorizations = e.authorizations, d.eligibility = e.eligibility,
         d.deliveries = e.deliveries, d.attempts = e.attempts
  PROVE  d = e
  BY DEF Database

\* The tables of a merge.
LEMMA MergeTables ==
  ASSUME NEW d, NEW w
  PROVE  /\ Merge(d, w).events = d.events \cup w.events
         /\ Merge(d, w).registry =
              [c \in Conn |-> IF w.registry[c] # NoRow THEN w.registry[c]
                              ELSE d.registry[c]]
         /\ Merge(d, w).commands = d.commands \cup w.commands
         /\ Merge(d, w).authorizations = d.authorizations \cup w.authorizations
         /\ Merge(d, w).eligibility = d.eligibility \cup w.eligibility
         /\ Merge(d, w).deliveries = d.deliveries \cup w.deliveries
         /\ Merge(d, w).attempts = d.attempts \cup w.attempts
  BY DEF Merge

\* A table without drafts is merged as it is.
LEMMA MergeUndrafted ==
  ASSUME NEW d \in Database, NEW w
  PROVE  /\ w.events = {} => Merge(d, w).events = d.events
         /\ w.commands = {} => Merge(d, w).commands = d.commands
         /\ w.authorizations = {} => Merge(d, w).authorizations = d.authorizations
         /\ w.eligibility = {} => Merge(d, w).eligibility = d.eligibility
         /\ w.deliveries = {} => Merge(d, w).deliveries = d.deliveries
         /\ w.attempts = {} => Merge(d, w).attempts = d.attempts
         /\ (\A c \in Conn : w.registry[c] = NoRow) => Merge(d, w).registry = d.registry
  <1>2. ASSUME \A c \in Conn : w.registry[c] = NoRow
        PROVE  Merge(d, w).registry = d.registry
    <2>1. Merge(d, w).registry = [c \in Conn |-> d.registry[c]]
      BY <1>2, MergeTables
    <2>2. d.registry = [c \in Conn |-> d.registry[c]]
      BY TableTypes
    <2>3. QED
      BY <2>1, <2>2
  <1>3. /\ w.events = {} => Merge(d, w).events = d.events
        /\ w.commands = {} => Merge(d, w).commands = d.commands
        /\ w.authorizations = {} => Merge(d, w).authorizations = d.authorizations
        /\ w.eligibility = {} => Merge(d, w).eligibility = d.eligibility
        /\ w.deliveries = {} => Merge(d, w).deliveries = d.deliveries
        /\ w.attempts = {} => Merge(d, w).attempts = d.attempts
    BY DEF Merge
  <1>4. QED
    BY <1>2, <1>3

\* A transaction that has drafted nothing sees the committed rows.
LEMMA MergeEmpty ==
  ASSUME NEW d \in Database
  PROVE  Merge(d, EmptyDatabase) = d
  <1> DEFINE m == Merge(d, EmptyDatabase)
  <1>1. m \in Database
    BY MergeType, EmptyType
  <1>2. /\ EmptyDatabase.events = {} /\ EmptyDatabase.commands = {}
        /\ EmptyDatabase.authorizations = {} /\ EmptyDatabase.eligibility = {}
        /\ EmptyDatabase.deliveries = {} /\ EmptyDatabase.attempts = {}
        /\ \A c \in Conn : EmptyDatabase.registry[c] = NoRow
    BY DEF EmptyDatabase
  <1>3. /\ m.events = d.events /\ m.registry = d.registry /\ m.commands = d.commands
        /\ m.authorizations = d.authorizations /\ m.eligibility = d.eligibility
        /\ m.deliveries = d.deliveries /\ m.attempts = d.attempts
    BY <1>2, MergeUndrafted
  <1> HIDE DEF m
  <1>4. m = d
    BY <1>1, <1>3, SameTables
  <1>5. QED
    BY <1>4 DEF m

\* Drafts of events.
LEMMA MergeEvents ==
  ASSUME NEW d \in Database, NEW w \in Database,
         w = WithEvents(EmptyDatabase, w.events)
  PROVE  Merge(d, w) = WithEvents(d, d.events \cup w.events)
  <1> DEFINE m == Merge(d, w)
  <1>1. m \in Database
    BY MergeType
  <1>2. /\ w.commands = {} /\ w.authorizations = {} /\ w.eligibility = {}
        /\ w.deliveries = {} /\ w.attempts = {}
        /\ \A c \in Conn : w.registry[c] = NoRow
    BY DEF EmptyDatabase, WithEvents, WithDeliveries
  <1>3. /\ m.events = d.events \cup w.events
        /\ m.commands = d.commands /\ m.authorizations = d.authorizations
        /\ m.eligibility = d.eligibility
        /\ m.deliveries = d.deliveries /\ m.attempts = d.attempts
    BY <1>2 DEF Merge
  <1>4. m.registry = d.registry
    BY <1>2, MergeUndrafted
  <1> HIDE DEF m
  <1>5. m = WithEvents(d, d.events \cup w.events)
    BY <1>1, <1>3, <1>4 DEF Database, WithEvents
  <1>6. QED
    BY <1>5 DEF m

\* Drafts of delivery authorizations.
LEMMA MergeDeliveries ==
  ASSUME NEW d \in Database, NEW w \in Database,
         w = WithDeliveries(EmptyDatabase, w.deliveries)
  PROVE  Merge(d, w) = WithDeliveries(d, d.deliveries \cup w.deliveries)
  <1> DEFINE m == Merge(d, w)
  <1>1. m \in Database
    BY MergeType
  <1>2. /\ w.events = {} /\ w.commands = {} /\ w.authorizations = {}
        /\ w.eligibility = {} /\ w.attempts = {}
        /\ \A c \in Conn : w.registry[c] = NoRow
    BY DEF EmptyDatabase, WithEvents, WithDeliveries
  <1>3. /\ m.events = d.events
        /\ m.commands = d.commands /\ m.authorizations = d.authorizations
        /\ m.eligibility = d.eligibility
        /\ m.deliveries = d.deliveries \cup w.deliveries /\ m.attempts = d.attempts
    BY <1>2 DEF Merge
  <1>4. m.registry = d.registry
    BY <1>2, MergeUndrafted
  <1> HIDE DEF m
  <1>5. m = WithDeliveries(d, d.deliveries \cup w.deliveries)
    BY <1>1, <1>3, <1>4 DEF Database, WithDeliveries
  <1>6. QED
    BY <1>5 DEF m

\* Drafts of a command and its evidence.
LEMMA MergeEvidence ==
  ASSUME NEW d \in Database, NEW w \in Database,
         w.events = {}, w.deliveries = {}, w.attempts = {},
         \A c \in Conn : w.registry[c] = NoRow
  PROVE  Merge(d, w) = WithEvidence(d, d.commands \cup w.commands,
                                       d.authorizations \cup w.authorizations,
                                       d.eligibility \cup w.eligibility)
  <1> DEFINE m == Merge(d, w)
  <1>1. m \in Database
    BY MergeType
  <1>2. /\ m.events = d.events
        /\ m.commands = d.commands \cup w.commands
        /\ m.authorizations = d.authorizations \cup w.authorizations
        /\ m.eligibility = d.eligibility \cup w.eligibility
        /\ m.deliveries = d.deliveries /\ m.attempts = d.attempts
    BY DEF Merge
  <1>3. m.registry = d.registry
    BY MergeUndrafted
  <1> HIDE DEF m
  <1>4. m = WithEvidence(d, d.commands \cup w.commands,
                            d.authorizations \cup w.authorizations,
                            d.eligibility \cup w.eligibility)
    BY <1>1, <1>2, <1>3 DEF Database, WithEvidence
  <1>5. QED
    BY <1>4 DEF m

\* SerialLedger speaks of the tables with the operators of HubTables: first the
\* conditions that several statements share.
LEMMA SerialConditions ==
  /\ \A d, c : Serial!SourcePrivate(d, c) <=> SourcePrivate(d, c)
  /\ \A d, c : Serial!BotEligibility(d, c) <=> BotEligibility(d, c)
  /\ \A d, q, scope : Serial!CommandInScope(d, q, scope) = CommandInScope(d, q, scope)
  /\ \A d, id, inbox, scope :
       Serial!CommandAuthorizedFor(d, id, inbox, scope) <=> CommandAuthorizedFor(d, id, inbox, scope)
  <1>1. \A d, c : Serial!SourcePrivate(d, c) <=> SourcePrivate(d, c)
    BY DEF Serial!SourcePrivate, SourcePrivate
  <1>2. \A d, c : Serial!BotEligibility(d, c) <=> BotEligibility(d, c)
    BY DEF Serial!BotEligibility, BotEligibility, Serial!BoundBot, BoundBot
  <1>3. \A d, q, scope : Serial!CommandInScope(d, q, scope) = CommandInScope(d, q, scope)
    BY DEF Serial!CommandInScope, CommandInScope
  <1>4. \A d, id, inbox, scope :
          Serial!CommandAuthorizedFor(d, id, inbox, scope) <=> CommandAuthorizedFor(d, id, inbox, scope)
    BY DEF Serial!CommandAuthorizedFor, CommandAuthorizedFor
  <1>5. QED
    BY <1>1, <1>2, <1>3, <1>4

\* Then the statements.
LEMMA SerialTables ==
  /\ \A kind, id : Serial!Answer(kind, id) = Answer(kind, id)
  /\ \A a : Serial!Registration(a) = Registration(a)
  /\ \A d, c, e : Serial!EventRecorded(d, c, e) <=> EventRecorded(d, c, e)
  /\ \A d, c, a : Serial!RegistrationAccepted(d, c, a) <=> RegistrationAccepted(d, c, a)
  /\ \A d, q, scope : Serial!FindCommands(d, q, scope) = FindCommands(d, q, scope)
  /\ \A d, q, scope : Serial!EligibleSource(d, q, scope) = EligibleSource(d, q, scope)
  /\ \A d, c, q, scope :
       Serial!ClassifyCommand(d, c, q, scope) = ClassifyCommand(d, c, q, scope)
  /\ \A d, q, scope : Serial!FindDeliveries(d, q, scope) = FindDeliveries(d, q, scope)
  /\ \A d, q, scope : Serial!EligibleCommand(d, q, scope) = EligibleCommand(d, q, scope)
  /\ \A d, v, q, scope :
       Serial!ClassifyDelivery(d, v, q, scope) = ClassifyDelivery(d, v, q, scope)
  /\ \A cfg : Serial!Configured(cfg) = Configured(cfg)
  <1>1. \A kind, id : Serial!Answer(kind, id) = Answer(kind, id)
    BY DEF Serial!Answer, Answer
  <1>2. \A a : Serial!Registration(a) = Registration(a)
    BY DEF Serial!Registration, Registration
  <1>3. \A d, c, e : Serial!EventRecorded(d, c, e) <=> EventRecorded(d, c, e)
    BY DEF Serial!EventRecorded, EventRecorded
  <1>4. \A d, c, a : Serial!RegistrationAccepted(d, c, a) <=> RegistrationAccepted(d, c, a)
    BY DEF Serial!RegistrationAccepted, RegistrationAccepted, Serial!HasHistory, HasHistory
  <1>5. \A d, q, scope : Serial!FindCommands(d, q, scope) = FindCommands(d, q, scope)
    BY DEF Serial!FindCommands, FindCommands, Serial!CommandsFor, CommandsFor
  <1>6. \A d, q, scope : Serial!EligibleSource(d, q, scope) = EligibleSource(d, q, scope)
    BY DEF Serial!EligibleSource, EligibleSource, Serial!BoundBot, BoundBot
  <1>7. \A d, c, q, scope :
          Serial!ClassifyCommand(d, c, q, scope) = ClassifyCommand(d, c, q, scope)
    <2>1. \A d, c, q, scope : Serial!SameAuthorization(d, c, q, scope) <=> SameAuthorization(d, c, q, scope)
      BY DEF Serial!SameAuthorization, SameAuthorization
    <2>2. \A d, c : Serial!MatchingEligibility(d, c) <=> MatchingEligibility(d, c)
      BY SerialConditions DEF Serial!MatchingEligibility, MatchingEligibility
    <2>3. \A d, c, q, scope : Serial!IsReplay(d, c, q, scope) <=> IsReplay(d, c, q, scope)
      BY <2>1, <2>2 DEF Serial!IsReplay, IsReplay
    <2> QED
      BY <1>1, <2>3 DEF Serial!ClassifyCommand, ClassifyCommand
  <1>8. \A d, q, scope : Serial!FindDeliveries(d, q, scope) = FindDeliveries(d, q, scope)
    BY SerialConditions DEF Serial!FindDeliveries, FindDeliveries
  <1>9. \A d, q, scope : Serial!EligibleCommand(d, q, scope) = EligibleCommand(d, q, scope)
    BY SerialConditions DEF Serial!EligibleCommand, EligibleCommand
  <1>10. \A d, v, q, scope :
           Serial!ClassifyDelivery(d, v, q, scope) = ClassifyDelivery(d, v, q, scope)
    <2>1. \A d, v, q, scope : Serial!EligibleNow(d, v, q, scope) <=> EligibleNow(d, v, q, scope)
      BY SerialConditions DEF Serial!EligibleNow, EligibleNow
    <2> QED
      BY <1>1, <2>1 DEF Serial!ClassifyDelivery, ClassifyDelivery
  <1>11. \A cfg : Serial!Configured(cfg) = Configured(cfg)
    BY DEF Serial!Configured, Configured
  <1>12. QED
    BY <1>1, <1>2, <1>3, <1>4, <1>5, <1>6, <1>7, <1>8, <1>9, <1>10, <1>11

\* Databases that differ at most in their delivery attempts.
SameButAttempts(d, e) ==
  /\ d.events = e.events /\ d.registry = e.registry /\ d.commands = e.commands
  /\ d.authorizations = e.authorizations /\ d.eligibility = e.eligibility
  /\ d.deliveries = e.deliveries

\* What does not depend on the attempts.
LEMMA AttemptsBlind ==
  ASSUME NEW d, NEW e, SameButAttempts(d, e)
  PROVE  /\ \A c, v : EventRecorded(d, c, v) <=> EventRecorded(e, c, v)
         /\ \A c, a : RegistrationAccepted(d, c, a) <=> RegistrationAccepted(e, c, a)
         /\ \A q, scope : FindCommands(d, q, scope) = FindCommands(e, q, scope)
         /\ \A q, scope : EligibleSource(d, q, scope) = EligibleSource(e, q, scope)
         /\ \A c, q, scope :
              ClassifyCommand(d, c, q, scope) = ClassifyCommand(e, c, q, scope)
         /\ \A q, scope : FindDeliveries(d, q, scope) = FindDeliveries(e, q, scope)
         /\ \A batch : Serial!NewEvents(d, batch) = Serial!NewEvents(e, batch)
  <1> USE DEF SameButAttempts
  <1>1. \A c, v : EventRecorded(d, c, v) <=> EventRecorded(e, c, v)
    BY DEF EventRecorded
  <1>2. \A c, a : RegistrationAccepted(d, c, a) <=> RegistrationAccepted(e, c, a)
    BY DEF RegistrationAccepted, HasHistory
  <1>3. \A q, scope : FindCommands(d, q, scope) = FindCommands(e, q, scope)
    BY DEF FindCommands, CommandsFor
  <1>4. \A q, scope : EligibleSource(d, q, scope) = EligibleSource(e, q, scope)
    BY DEF EligibleSource, BoundBot
  <1>5. \A c, q, scope : ClassifyCommand(d, c, q, scope) = ClassifyCommand(e, c, q, scope)
    BY DEF ClassifyCommand, IsReplay, SameAuthorization, MatchingEligibility, SourcePrivate
  <1>6. \A q, scope : FindDeliveries(d, q, scope) = FindDeliveries(e, q, scope)
    BY DEF FindDeliveries, CommandInScope
  <1>7. \A batch : Serial!NewEvents(d, batch) = Serial!NewEvents(e, batch)
    BY DEF Serial!NewEvents, Serial!EventRecorded
  <1>8. QED
    BY <1>1, <1>2, <1>3, <1>4, <1>5, <1>6, <1>7

\* Recording an attempt while a transaction runs adds it to what the operation
\* has met and to what it leaves.
LEMMA AfterAttempts ==
  ASSUME NEW d \in Database, NEW e \in Database, SameButAttempts(d, e),
         d.attempts \subseteq e.attempts, NEW w \in Database
  PROVE  /\ Merge(d, w) = d => Merge(e, w) = e
         /\ \A x : Merge(d, w) = WithEvents(d, x) => Merge(e, w) = WithEvents(e, x)
         /\ \A x : Merge(d, w) = WithRegistry(d, x) => Merge(e, w) = WithRegistry(e, x)
         /\ \A x : Merge(d, w) = WithDeliveries(d, x) => Merge(e, w) = WithDeliveries(e, x)
         /\ \A x, y, z : Merge(d, w) = WithEvidence(d, x, y, z)
                           => Merge(e, w) = WithEvidence(e, x, y, z)
  <1> DEFINE v == Merge(d, w)
             u == Merge(e, w)
  <1>1. u \in Database /\ v \in Database
    BY MergeType
  <1>2. /\ u.events = v.events /\ u.registry = v.registry /\ u.commands = v.commands
        /\ u.authorizations = v.authorizations /\ u.eligibility = v.eligibility
        /\ u.deliveries = v.deliveries
        /\ v.attempts = d.attempts => u.attempts = e.attempts
    BY DEF Merge, SameButAttempts
  <1> HIDE DEF u, v
  <1>3. v = d => u = e
    BY <1>1, <1>2, SameTables DEF SameButAttempts
  <1>4. ASSUME NEW x, v = WithEvents(d, x) PROVE u = WithEvents(e, x)
    <2>1. v.attempts = d.attempts
      BY <1>4 DEF Database, WithEvents
    <2>2. QED
      BY <1>1, <1>2, <1>4, <2>1 DEF Database, SameButAttempts, WithEvents
  <1>5. ASSUME NEW x, v = WithRegistry(d, x) PROVE u = WithRegistry(e, x)
    <2>1. v.attempts = d.attempts
      BY <1>5 DEF Database, WithRegistry
    <2>2. QED
      BY <1>1, <1>2, <1>5, <2>1 DEF Database, SameButAttempts, WithRegistry
  <1>6. ASSUME NEW x, v = WithDeliveries(d, x) PROVE u = WithDeliveries(e, x)
    <2>1. v.attempts = d.attempts
      BY <1>6 DEF Database, WithDeliveries
    <2>2. QED
      BY <1>1, <1>2, <1>6, <2>1 DEF Database, SameButAttempts, WithDeliveries
  <1>7. ASSUME NEW x, NEW y, NEW z, v = WithEvidence(d, x, y, z)
        PROVE  u = WithEvidence(e, x, y, z)
    <2>1. /\ v.attempts = d.attempts /\ v.events = d.events
          /\ v.registry = d.registry /\ v.deliveries = d.deliveries
          /\ v.commands = x /\ v.authorizations = y /\ v.eligibility = z
      BY <1>7 DEF Database, WithEvidence
    <2>2. /\ u.attempts = e.attempts /\ u.events = e.events
          /\ u.registry = e.registry /\ u.deliveries = e.deliveries
          /\ u.commands = x /\ u.authorizations = y /\ u.eligibility = z
      BY <1>2, <2>1 DEF SameButAttempts
    <2>3. QED
      BY <1>1, <2>2 DEF Database, WithEvidence
  <1>8. QED
    BY <1>3, <1>4, <1>5, <1>6, <1>7 DEF u, v

\* SerialLedger says the same.
LEMMA SerialOperations ==
  ASSUME NEW d, NEW q, NEW cfg, NEW after, NEW a
  PROVE  Serial!Executes(d, q, cfg, after, a) <=> Executed(d, q, cfg, after, a)
  <1>1. Serial!StoreBatch(d, q.batch, cfg, after, a) <=>
          Stores(d, q.batch, cfg, after, a)
    BY Zenon DEF Stores, Serial!StoreBatch, WithEvents, BatchRow, NewIds, Serial!Answer,
         Answer
  <1>2. Serial!Register(d, cfg, after, a) <=> Registers(d, cfg, after, a)
    BY Zenon DEF Serial!Register, Registers, WithRegistry, Serial!Answer, Answer,
         Serial!Configured, Configured, Serial!RegistrationAccepted, RegistrationAccepted,
         Serial!HasHistory, HasHistory, Serial!Registration, Registration
  <1>3. Serial!Create(d, q, cfg.scope[q.inbox], after, a) <=>
          Creates(d, q, cfg.scope[q.inbox], after, a)
    BY SerialTables, Zenon DEF Serial!Create, Serial!WithCommand, WithEvidence, Creates,
         Eligibility, CommandFrom, AuthorizationFrom
  <1>4. Serial!Authorize(d, q, cfg.scope[q.inbox], after, a) <=>
          Authorizes(d, q, cfg.scope[q.inbox], after, a)
    BY SerialTables, Zenon DEF Serial!Authorize, WithDeliveries, WithAttempts, Authorizes,
         DeliveryFor
  <1>5. QED
    BY <1>1, <1>2, <1>3, <1>4, Zenon DEF Executed, Serial!Executes

\* An operation that has been executed is still executed when an attempt has
\* been recorded.
LEMMA ExecutedAttempts ==
  ASSUME NEW d \in Database, NEW e \in Database, SameButAttempts(d, e),
         d.attempts \subseteq e.attempts, NEW w \in Database,
         NEW q, NEW cfg, NEW a, Executed(d, q, cfg, Merge(d, w), a)
  PROVE  Executed(e, q, cfg, Merge(e, w), a)
  <1>1. /\ d.events = e.events /\ d.registry = e.registry /\ d.commands = e.commands
        /\ d.authorizations = e.authorizations /\ d.eligibility = e.eligibility
        /\ d.deliveries = e.deliveries
    BY DEF SameButAttempts
  <1>2. /\ \A c, g : RegistrationAccepted(d, c, g) <=> RegistrationAccepted(e, c, g)
        /\ \A y, scope : FindCommands(d, y, scope) = FindCommands(e, y, scope)
        /\ \A y, scope : EligibleSource(d, y, scope) = EligibleSource(e, y, scope)
        /\ \A c, y, scope : ClassifyCommand(d, c, y, scope) = ClassifyCommand(e, c, y, scope)
        /\ \A batch : Serial!NewEvents(d, batch) = Serial!NewEvents(e, batch)
    BY AttemptsBlind, Zenon
  <1>3. /\ Merge(d, w) = d => Merge(e, w) = e
        /\ \A x : Merge(d, w) = WithEvents(d, x) => Merge(e, w) = WithEvents(e, x)
        /\ \A x : Merge(d, w) = WithRegistry(d, x) => Merge(e, w) = WithRegistry(e, x)
        /\ \A x : Merge(d, w) = WithDeliveries(d, x) => Merge(e, w) = WithDeliveries(e, x)
        /\ \A x, y, z : Merge(d, w) = WithEvidence(d, x, y, z)
                          => Merge(e, w) = WithEvidence(e, x, y, z)
    BY AfterAttempts
  <1>4. \A batch : Stores(d, batch, cfg, Merge(d, w), a) => Stores(e, batch, cfg, Merge(e, w), a)
    BY <1>1, <1>2, <1>3, Zenon DEF Stores, NewIds
  <1>5. Registers(d, cfg, Merge(d, w), a) => Registers(e, cfg, Merge(e, w), a)
    BY <1>1, <1>2, <1>3, Zenon DEF Registers
  <1>6. \A scope : Creates(d, q, scope, Merge(d, w), a) => Creates(e, q, scope, Merge(e, w), a)
    <2>1. \A source, id : Eligibility(d, source, id) = Eligibility(e, source, id)
      BY <1>1, Zenon DEF Eligibility
    <2>2. SUFFICES ASSUME NEW scope, Creates(d, q, scope, Merge(d, w), a)
                   PROVE  Creates(e, q, scope, Merge(e, w), a)
      BY Zenon
    <2>3. CASE \E c \in FindCommands(d, q, scope) :
                 Merge(d, w) = d /\ a = ClassifyCommand(d, c, q, scope)
      BY <1>2, <1>3, <2>3, Zenon DEF Creates
    <2>4. CASE /\ FindCommands(d, q, scope) = {} /\ EligibleSource(d, q, scope) = {}
               /\ Merge(d, w) = d /\ a = Answer("source_unavailable", 0)
      BY <1>2, <1>3, <2>4, Zenon DEF Creates
    <2>5. ASSUME FindCommands(d, q, scope) = {},
                 NEW source \in EligibleSource(d, q, scope), NEW id \in 1..MaxCommandId,
                 \A c \in d.commands : c.id < id,
                 Merge(d, w) = WithEvidence(d, d.commands \cup {CommandFrom(source, q, id)},
                  d.authorizations \cup {AuthorizationFrom(q, id, scope)},
                  d.eligibility \cup Eligibility(d, source, id)),
                 a = Answer("created", id)
          PROVE  Creates(e, q, scope, Merge(e, w), a)
      <3> DEFINE x == e.commands \cup {CommandFrom(source, q, id)}
                 y == e.authorizations \cup {AuthorizationFrom(q, id, scope)}
                 z == e.eligibility \cup Eligibility(e, source, id)
      <3>1. Merge(d, w) = WithEvidence(d, x, y, z)
        BY <1>1, <2>1, <2>5, Zenon
      <3>2. Merge(e, w) = WithEvidence(e, x, y, z)
        <4> HIDE DEF x, y, z
        <4>1. QED
          BY <1>3, <3>1, Zenon
      <3>3. /\ FindCommands(e, q, scope) = {} /\ source \in EligibleSource(e, q, scope)
            /\ \A c \in e.commands : c.id < id
        BY <1>1, <1>2, <2>5, Zenon
      <3>4. QED
        BY <2>5, <3>2, <3>3, Zenon DEF Creates
    <2>6. QED
      BY <2>2, <2>3, <2>4, <2>5, Zenon DEF Creates
  <1>7. \A seen \in SUBSET d.attempts :
          seen \in SUBSET e.attempts /\ WithAttempts(d, seen) = WithAttempts(e, seen)
    BY <1>1 DEF Database, WithAttempts
  <1>8. \A scope : Authorizes(d, q, scope, Merge(d, w), a)
                     => Authorizes(e, q, scope, Merge(e, w), a)
    BY <1>1, <1>3, <1>7, Zenon DEF Authorizes, DeliveryFor
  <1>9. QED
    BY <1>4, <1>5, <1>6, <1>8, Zenon DEF Executed

\* The stage a transaction has reached is kept when an attempt is recorded.
LEMMA StageAttempts ==
  ASSUME NEW d \in Database, NEW e \in Database, SameButAttempts(d, e),
         d.attempts \subseteq e.attempts, NEW w \in Database,
         NEW cfg, NEW q, NEW at, NEW n, NEW b, NEW o,
         Stage(d, cfg, q, at, n, w, b, o)
  PROVE  Stage(e, cfg, q, at, n, w, b, o)
  <1>1. /\ d.events = e.events /\ d.registry = e.registry /\ d.commands = e.commands
    BY DEF SameButAttempts
  <1>2. /\ \A y, scope : FindCommands(d, y, scope) = FindCommands(e, y, scope)
        /\ \A y, scope : EligibleSource(d, y, scope) = EligibleSource(e, y, scope)
        /\ \A y, scope : FindDeliveries(d, y, scope) = FindDeliveries(e, y, scope)
        /\ \A batch : Serial!NewEvents(d, batch) = Serial!NewEvents(e, batch)
    BY AttemptsBlind, Zenon
  <1>3. Inserted(d, cfg, q.batch, n - 1, w) => Inserted(e, cfg, q.batch, n - 1, w)
    <2>1. NewAmong(d, q.batch, n - 1) = NewAmong(e, q.batch, n - 1)
      BY <1>2, Zenon DEF NewAmong
    <2>2. \A c, v : EventRecorded(Merge(d, w), c, v) <=> EventRecorded(Merge(e, w), c, v)
      BY <1>1 DEF EventRecorded, Merge
    <2>3. \A id : NewIds(d, NewAmong(d, q.batch, n - 1), id)
                    <=> NewIds(e, NewAmong(e, q.batch, n - 1), id)
      BY <1>1, <2>1, Zenon DEF NewIds
    <2>4. QED
      BY <2>1, <2>2, <2>3, Zenon DEF Inserted
  <1>4. \A scope, authorized : Creating(d, q, scope, w, b, o, authorized)
                          => Creating(e, q, scope, w, b, o, authorized)
    BY <1>1, <1>2, Zenon DEF Creating
  <1>5. \A seen \in SUBSET d.attempts :
          seen \in SUBSET e.attempts /\ WithAttempts(d, seen) = WithAttempts(e, seen)
    BY DEF SameButAttempts, Database, WithAttempts
  <1>6. Executed(d, q, cfg, Merge(d, w), o) => Executed(e, q, cfg, Merge(e, w), o)
    BY ExecutedAttempts, Zenon
  <1>7. QED
    BY <1>2, <1>3, <1>4, <1>5, <1>6, Zenon DEF Stage

-----------------------------------------------------------------------------
(* From one statement to the next.                                         *)

\* What is to be shown of each statement.
LEMMA StageAt ==
  ASSUME NEW d, NEW cfg, NEW q, NEW n, NEW w, NEW b, NEW o
  PROVE  /\ Stage(d, cfg, q, "idle", n, w, b, o) <=> w = EmptyDatabase /\ n = 1
         /\ Stage(d, cfg, q, "lock", n, w, b, o) <=> w = EmptyDatabase /\ n = 1
         /\ Stage(d, cfg, q, "orphaned", n, w, b, o)
         /\ Stage(d, cfg, q, "insert_event", n, w, b, o)
              <=> Inserted(d, cfg, q.batch, n - 1, w)
         /\ Stage(d, cfg, q, "register", n, w, b, o)
              <=> w = WithRegistry(EmptyDatabase, w.registry)
         /\ Stage(d, cfg, q, "find_command", n, w, b, o) <=> w = EmptyDatabase
         /\ Stage(d, cfg, q, "insert_command", n, w, b, o) <=>
              w = EmptyDatabase /\ FindCommands(d, q, cfg.scope[q.inbox]) = {}
         /\ Stage(d, cfg, q, "find_command_again", n, w, b, o) <=>
              /\ w = EmptyDatabase /\ FindCommands(d, q, cfg.scope[q.inbox]) = {}
              /\ EligibleSource(d, q, cfg.scope[q.inbox]) = {}
         /\ Stage(d, cfg, q, "insert_authorization", n, w, b, o) <=>
              Creating(d, q, cfg.scope[q.inbox], w, b, o, FALSE)
         /\ Stage(d, cfg, q, "insert_eligibility", n, w, b, o) <=>
              Creating(d, q, cfg.scope[q.inbox], w, b, o, TRUE) /\ b # NoAccount
         /\ Stage(d, cfg, q, "find_delivery", n, w, b, o) <=> w = EmptyDatabase
         /\ Stage(d, cfg, q, "insert_delivery", n, w, b, o) <=>
              w = EmptyDatabase /\ FindDeliveries(d, q, cfg.scope[q.inbox]) = {}
         /\ Stage(d, cfg, q, "find_delivery_again", n, w, b, o) <=>
              /\ w = EmptyDatabase /\ FindDeliveries(d, q, cfg.scope[q.inbox]) = {}
              /\ \E seen \in SUBSET d.attempts :
                   EligibleCommand(WithAttempts(d, seen), q, cfg.scope[q.inbox]) = {}
         /\ Stage(d, cfg, q, "commit", n, w, b, o) <=>
              o \in Serial!Successes /\ Executed(d, q, cfg, Merge(d, w), o)
  BY DEF Stage

\* The answers of the operations are successes.
LEMMA Successful ==
  ASSUME NEW d \in Database, \A c \in d.commands : c.id <= MaxCommandId,
         NEW q, NEW scope
  PROVE  /\ \A c \in FindCommands(d, q, scope) :
              ClassifyCommand(d, c, q, scope) \in Serial!Successes
         /\ \A v \in FindDeliveries(d, q, scope) :
              ClassifyDelivery(d, v, q, scope) \in Serial!Successes
         /\ \A c \in EligibleCommand(d, q, scope) :
              Answer("created", q.command) \in Serial!Successes
         /\ \A id \in 1..MaxCommandId : Answer("created", id) \in Serial!Successes
         /\ \A kind \in {"stored", "registered", "source_unavailable",
                         "command_unavailable"} : Answer(kind, 0) \in Serial!Successes
  <1>1. MaxCommandId \in Nat /\ \A c \in d.commands : c.id \in 0..MaxCommandId
    BY LedgerAssumption, TableTypes DEF CommandRow
  <1>2. \A c \in FindCommands(d, q, scope) :
          ClassifyCommand(d, c, q, scope) \in Serial!Successes
    BY <1>1 DEF FindCommands, CommandsFor, ClassifyCommand, Answer, Serial!Successes
  <1>3. ASSUME NEW v \in FindDeliveries(d, q, scope)
        PROVE  ClassifyDelivery(d, v, q, scope) \in Serial!Successes
    <2>1. v.command \in 0..MaxCommandId
      BY <1>1, <1>3 DEF FindDeliveries, CommandInScope
    <2>2. QED
      BY <1>1, <2>1 DEF ClassifyDelivery, Answer, Serial!Successes
  <1>4. ASSUME NEW c \in EligibleCommand(d, q, scope)
        PROVE  Answer("created", q.command) \in Serial!Successes
    BY <1>1, <1>4 DEF EligibleCommand, CommandInScope, Answer, Serial!Successes
  <1>5. \A id \in 1..MaxCommandId : Answer("created", id) \in Serial!Successes
    BY <1>1 DEF Answer, Serial!Successes
  <1>6. \A kind \in {"stored", "registered", "source_unavailable", "command_unavailable"} :
          Answer(kind, 0) \in Serial!Successes
    BY <1>1 DEF Answer, Serial!Successes
  <1>7. QED
    BY <1>2, <1>3, <1>4, <1>5, <1>6

\* The statements of a reply command: the row is found.
LEMMA CommandFound ==
  ASSUME NEW d \in Database, \A c \in d.commands : c.id <= MaxCommandId,
         NEW cfg, NEW q, q.kind = "create",
         NEW c \in FindCommands(d, q, cfg.scope[q.inbox]), NEW n, NEW b
  PROVE  Stage(d, cfg, q, "commit", n, EmptyDatabase, b,
               ClassifyCommand(d, c, q, cfg.scope[q.inbox]))
  <1> DEFINE scope == cfg.scope[q.inbox]
             o == ClassifyCommand(d, c, q, scope)
  <1>1. o \in Serial!Successes
    BY Successful
  <1>2. Creates(d, q, scope, Merge(d, EmptyDatabase), o)
    BY MergeEmpty, Zenon DEF Creates
  <1>3. Executed(d, q, cfg, Merge(d, EmptyDatabase), o)
    BY <1>2, Zenon DEF Executed
  <1>4. QED
    BY <1>1, <1>3, StageAt, Zenon

\* There is no row and no source for one.
LEMMA SourceMissing ==
  ASSUME NEW d \in Database, \A c \in d.commands : c.id <= MaxCommandId,
         NEW cfg, NEW q, q.kind = "create",
         FindCommands(d, q, cfg.scope[q.inbox]) = {},
         EligibleSource(d, q, cfg.scope[q.inbox]) = {}, NEW n, NEW b
  PROVE  Stage(d, cfg, q, "commit", n, EmptyDatabase, b, Answer("source_unavailable", 0))
  <1>1. Answer("source_unavailable", 0) \in Serial!Successes
    BY Successful
  <1>2. Executed(d, q, cfg, Merge(d, EmptyDatabase), Answer("source_unavailable", 0))
    BY MergeEmpty, Zenon DEF Creates, Executed
  <1>3. QED
    BY <1>1, <1>2, StageAt, Zenon

\* A delivery authorization is found.
LEMMA DeliveryFound ==
  ASSUME NEW d \in Database, \A c \in d.commands : c.id <= MaxCommandId,
         NEW cfg, NEW q, q.kind = "authorize",
         NEW v \in FindDeliveries(d, q, cfg.scope[q.inbox]), NEW n, NEW b
  PROVE  Stage(d, cfg, q, "commit", n, EmptyDatabase, b,
               ClassifyDelivery(d, v, q, cfg.scope[q.inbox]))
  <1> DEFINE scope == cfg.scope[q.inbox]
             o == ClassifyDelivery(d, v, q, scope)
  <1>1. o \in Serial!Successes
    BY Successful
  <1>2. WithAttempts(d, d.attempts) = d
    BY DEF Database, WithAttempts
  <1>3. Authorizes(d, q, scope, Merge(d, EmptyDatabase), o)
    BY MergeEmpty, <1>2, Zenon DEF Authorizes
  <1>4. Executed(d, q, cfg, Merge(d, EmptyDatabase), o)
    BY <1>3, Zenon DEF Executed
  <1>5. QED
    BY <1>1, <1>4, StageAt, Zenon

\* There is none, and no command that may be delivered.
LEMMA CommandMissing ==
  ASSUME NEW d \in Database, \A c \in d.commands : c.id <= MaxCommandId,
         NEW cfg, NEW q, q.kind = "authorize",
         FindDeliveries(d, q, cfg.scope[q.inbox]) = {},
         NEW seen \in SUBSET d.attempts,
         EligibleCommand(WithAttempts(d, seen), q, cfg.scope[q.inbox]) = {}, NEW n, NEW b
  PROVE  Stage(d, cfg, q, "commit", n, EmptyDatabase, b, Answer("command_unavailable", 0))
  <1>1. Answer("command_unavailable", 0) \in Serial!Successes
    BY Successful
  <1>2. FindDeliveries(WithAttempts(d, seen), q, cfg.scope[q.inbox]) = {}
    BY DEF FindDeliveries, CommandInScope, WithAttempts, Database
  <1>3. Executed(d, q, cfg, Merge(d, EmptyDatabase), Answer("command_unavailable", 0))
    BY MergeEmpty, <1>2, Zenon DEF Authorizes, Executed
  <1>4. QED
    BY <1>1, <1>3, StageAt, Zenon

\* The first rows of a draft.
LEMMA MergeFirst ==
  ASSUME NEW w \in Database
  PROVE  Merge(EmptyDatabase, w) = w
  <1> DEFINE m == Merge(EmptyDatabase, w)
             none == [c \in Conn |-> NoRow]
  <1>1. m \in Database
    BY MergeType, EmptyType
  <1>2. /\ m.events = w.events /\ m.commands = w.commands
        /\ m.authorizations = w.authorizations /\ m.eligibility = w.eligibility
        /\ m.deliveries = w.deliveries /\ m.attempts = w.attempts
    BY DEF Merge, EmptyDatabase
  <1>3. m.registry = [c \in Conn |-> IF w.registry[c] # NoRow THEN w.registry[c] ELSE none[c]]
    BY DEF Merge, EmptyDatabase
  <1>4. w.registry = [c \in Conn |-> w.registry[c]]
    BY TableTypes
  <1>5. m.registry = w.registry
    BY <1>3, <1>4
  <1> HIDE DEF m
  <1>6. m = w
    BY <1>1, <1>2, <1>5, SameTables
  <1>7. QED
    BY <1>6 DEF m

\* What a draft of a command and its evidence holds.
LEMMA EvidenceDraft ==
  ASSUME NEW x, NEW y, NEW z, NEW w, w = WithEvidence(EmptyDatabase, x, y, z)
  PROVE  /\ w.commands = x /\ w.authorizations = y /\ w.eligibility = z
         /\ w.events = {} /\ w.deliveries = {} /\ w.attempts = {}
         /\ \A c \in Conn : w.registry[c] = NoRow
  BY DEF WithEvidence, EmptyDatabase

\* Rows are added to such a draft.
LEMMA EvidenceAdded ==
  ASSUME NEW x, NEW y, NEW z, NEW w \in Database, w = WithEvidence(EmptyDatabase, x, y, z),
         NEW x2, NEW y2, NEW z2, NEW rows \in Database,
         rows = WithEvidence(EmptyDatabase, x2, y2, z2)
  PROVE  Merge(w, rows) = WithEvidence(EmptyDatabase, x \cup x2, y \cup y2, z \cup z2)
  <1>1. Merge(w, rows) = WithEvidence(w, x \cup x2, y \cup y2, z \cup z2)
    BY EvidenceDraft, MergeEvidence
  <1>2. QED
    BY <1>1 DEF WithEvidence, EmptyDatabase

\* A delivery authorization is inserted.
LEMMA DeliveryInserted ==
  ASSUME NEW d \in Database, \A c \in d.commands : c.id <= MaxCommandId,
         NEW cfg, NEW q, q.kind = "authorize",
         FindDeliveries(d, q, cfg.scope[q.inbox]) = {},
         NEW c \in EligibleCommand(d, q, cfg.scope[q.inbox]),
         NEW w \in Database,
         w = WithDeliveries(EmptyDatabase, {DeliveryFor(d, c, q, cfg.scope[q.inbox])}),
         NEW n, NEW b
  PROVE  Stage(d, cfg, q, "commit", n, w, b, Answer("created", q.command))
  <1> DEFINE scope == cfg.scope[q.inbox]
             o == Answer("created", q.command)
             row == DeliveryFor(d, c, q, scope)
  <1>1. o \in Serial!Successes
    BY Successful
  <1>2. WithAttempts(d, d.attempts) = d
    BY DEF Database, WithAttempts
  <1>3. Merge(d, w) = WithDeliveries(d, d.deliveries \cup {row})
    <2> HIDE DEF row
    <2>1. w.deliveries = {row}
      BY DEF WithDeliveries, EmptyDatabase, row
    <2>2. QED
      BY <2>1, MergeDeliveries DEF row
  <1>4. Authorizes(d, q, scope, Merge(d, w), o)
    BY <1>2, <1>3, Zenon DEF Authorizes
  <1>5. Executed(d, q, cfg, Merge(d, w), o)
    BY <1>4, Zenon DEF Executed
  <1>6. QED
    BY <1>1, <1>5, StageAt, Zenon

\* A command is inserted.
LEMMA CommandInserted ==
  ASSUME NEW d, NEW cfg, NEW q, FindCommands(d, q, cfg.scope[q.inbox]) = {},
         NEW id \in 1..MaxCommandId, \A c \in d.commands : c.id < id,
         NEW source \in EligibleSource(d, q, cfg.scope[q.inbox]), NEW n, NEW w, NEW b,
         w = WithEvidence(EmptyDatabase, {CommandFrom(source, q, id)}, {}, {}),
         b = IF source.channel = "telegram_bot"
             THEN d.registry[source.conn].account ELSE NoAccount
  PROVE  Stage(d, cfg, q, "insert_authorization", n, w, b, Answer("created", id))
  <1> DEFINE o == Answer("created", id)
  <1>1. o.command = id
    BY DEF Answer
  <1>2. Creating(d, q, cfg.scope[q.inbox], w, b, o, FALSE)
    BY <1>1, Zenon DEF Creating
  <1>3. ASSUME NEW x, NEW y, NEW z, Creating(d, q, cfg.scope[q.inbox], x, y, z, FALSE)
        PROVE  Stage(d, cfg, q, "insert_authorization", n, x, y, z)
    BY <1>3, StageAt
  <1>4. QED
    BY <1>2, <1>3

\* Its authorization is inserted, and this ends the operation unless the
\* source is a Telegram message.
LEMMA AuthorizationInserted ==
  ASSUME NEW d \in Database, NEW cfg, NEW q, q.kind = "create", NEW w \in Database,
         NEW b, NEW o, Creating(d, q, cfg.scope[q.inbox], w, b, o, FALSE),
         NEW rows \in Database,
         rows = WithEvidence(EmptyDatabase, {},
                  {AuthorizationFrom(q, o.command, cfg.scope[q.inbox])}, {}), NEW n
  PROVE  /\ b # NoAccount =>
              Stage(d, cfg, q, "insert_eligibility", n, Merge(w, rows), b, o)
         /\ b = NoAccount => Stage(d, cfg, q, "commit", n, Merge(w, rows), b, o)
  <1> DEFINE scope == cfg.scope[q.inbox]
             id == o.command
             authorization == {AuthorizationFrom(q, id, scope)}
  <1>1. PICK source \in EligibleSource(d, q, scope) :
          /\ b = IF source.channel = "telegram_bot"
                 THEN d.registry[source.conn].account ELSE NoAccount
          /\ w = WithEvidence(EmptyDatabase, {CommandFrom(source, q, id)}, {}, {})
    BY Zenon DEF Creating
  <1>2. /\ FindCommands(d, q, scope) = {} /\ o = Answer("created", id)
        /\ id \in 1..MaxCommandId /\ \A c \in d.commands : c.id < id
    BY Zenon DEF Creating
  <1> DEFINE command == {CommandFrom(source, q, id)}
             v == Merge(w, rows)
  <1>3. v = WithEvidence(EmptyDatabase, command, authorization, {})
    <2> HIDE DEF command, authorization
    <2>1. v = WithEvidence(EmptyDatabase, command \cup {}, {} \cup authorization, {} \cup {})
      BY <1>1, EvidenceAdded DEF command, authorization
    <2>2. QED
      BY <2>1
  <1>4. b # NoAccount => Stage(d, cfg, q, "insert_eligibility", n, v, b, o)
    <2>1. Creating(d, q, scope, v, b, o, TRUE)
      BY <1>1, <1>2, <1>3, Zenon DEF Creating
    <2>2. QED
      BY <2>1, StageAt, Zenon
  <1>5. ASSUME b = NoAccount PROVE Stage(d, cfg, q, "commit", n, v, b, o)
    <2>1. source.channel # "telegram_bot"
      BY <1>1, <1>5, TablesAssumption DEF EligibleSource, BoundBot
    <2>2. Eligibility(d, source, id) = {}
      BY <2>1 DEF Eligibility
    <2>3. v \in Database
      BY MergeType
    <2> HIDE DEF v, command, authorization
    <2>4. Merge(d, v) = WithEvidence(d, d.commands \cup command,
                                     d.authorizations \cup authorization,
                                     d.eligibility \cup Eligibility(d, source, id))
      <3>1. /\ v.commands = command /\ v.authorizations = authorization
            /\ v.eligibility = Eligibility(d, source, id)
            /\ v.events = {} /\ v.deliveries = {} /\ v.attempts = {}
            /\ \A c \in Conn : v.registry[c] = NoRow
        BY <1>3, <2>2, EvidenceDraft
      <3>2. QED
        BY <2>3, <3>1, MergeEvidence
    <2>5. Creates(d, q, scope, Merge(d, v), o)
      BY <1>2, <2>4, Zenon DEF Creates, command, authorization
    <2>6. Executed(d, q, cfg, Merge(d, v), o)
      BY <2>5, Zenon DEF Executed
    <2>7. o \in Serial!Successes
      BY <1>2, LedgerAssumption DEF Answer, Serial!Successes
    <2>8. QED
      BY <2>6, <2>7, StageAt, Zenon
  <1>6. QED
    BY <1>4, <1>5

\* The eligibility of a Telegram source is inserted, and this ends the
\* operation.
LEMMA EligibilityInserted ==
  ASSUME NEW d \in Database, NEW cfg, NEW q, q.kind = "create", NEW w \in Database,
         NEW b, NEW o, Creating(d, q, cfg.scope[q.inbox], w, b, o, TRUE), b # NoAccount,
         NEW rows \in Database,
         rows = WithEvidence(EmptyDatabase, {}, {},
                             {[command |-> o.command, account |-> b]}), NEW n
  PROVE  Stage(d, cfg, q, "commit", n, Merge(w, rows), b, o)
  <1> DEFINE scope == cfg.scope[q.inbox]
             id == o.command
             authorization == {AuthorizationFrom(q, id, scope)}
             eligible == {[command |-> id, account |-> b]}
  <1>1. PICK source \in EligibleSource(d, q, scope) :
          /\ b = IF source.channel = "telegram_bot"
                 THEN d.registry[source.conn].account ELSE NoAccount
          /\ w = WithEvidence(EmptyDatabase, {CommandFrom(source, q, id)}, authorization, {})
    BY Zenon DEF Creating
  <1>2. /\ FindCommands(d, q, scope) = {} /\ o = Answer("created", id)
        /\ id \in 1..MaxCommandId /\ \A c \in d.commands : c.id < id
    BY Zenon DEF Creating
  <1> DEFINE command == {CommandFrom(source, q, id)}
             v == Merge(w, rows)
  <1>3. v = WithEvidence(EmptyDatabase, command, authorization, eligible)
    <2> HIDE DEF command, authorization, eligible
    <2>1. v = WithEvidence(EmptyDatabase, command \cup {}, authorization \cup {},
                           {} \cup eligible)
      BY <1>1, EvidenceAdded DEF command, eligible
    <2>2. QED
      BY <2>1
  <1>4. Eligibility(d, source, id) = eligible
    <2>1. /\ source.channel = "telegram_bot" /\ b = d.registry[source.conn].account
          /\ b \in Account
      BY <1>1 DEF EligibleSource, BoundBot
    <2>2. {x \in Account : /\ source.channel = "telegram_bot"
                           /\ x = d.registry[source.conn].account} = {b}
      BY <2>1
    <2>3. QED
      BY <2>2 DEF Eligibility
  <1>5. v \in Database
    BY MergeType
  <1> HIDE DEF v, command, authorization, eligible
  <1>6. Merge(d, v) = WithEvidence(d, d.commands \cup command,
                                   d.authorizations \cup authorization,
                                   d.eligibility \cup Eligibility(d, source, id))
    <2>1. /\ v.commands = command /\ v.authorizations = authorization
          /\ v.eligibility = Eligibility(d, source, id)
          /\ v.events = {} /\ v.deliveries = {} /\ v.attempts = {}
          /\ \A c \in Conn : v.registry[c] = NoRow
      BY <1>3, <1>4, EvidenceDraft
    <2>2. QED
      BY <1>5, <2>1, MergeEvidence
  <1>7. Creates(d, q, scope, Merge(d, v), o)
    BY <1>2, <1>6, Zenon DEF Creates, command, authorization
  <1>8. Executed(d, q, cfg, Merge(d, v), o)
    BY <1>7, Zenon DEF Executed
  <1>9. o \in Serial!Successes
    BY <1>2, LedgerAssumption DEF Answer, Serial!Successes
  <1>10. Stage(d, cfg, q, "commit", n, v, b, o)
    BY <1>8, <1>9, StageAt, Zenon
  <1>11. QED
    BY <1>10 DEF v

\* The event at position n is inserted, or the batch or the ledger has it
\* already.
LEMMA EventInserted ==
  ASSUME NEW d \in Database, NEW cfg, NEW batch \in Seq(BatchEvent),
         NEW n \in DOMAIN batch, NEW w \in Database, Inserted(d, cfg, batch, n - 1, w),
         NEW seq \in Nat, seq < MaxLedgerId,
         \A r \in d.events : r.id <= seq, \A r \in w.events : r.id <= seq,
         NEW rows \in Database,
         rows = WithEvents(EmptyDatabase, {BatchRow(cfg, batch[n], seq + 1)}),
         NEW v \in Database,
         v = IF EventRecorded(Merge(d, w), batch[n].conn, batch[n].event)
             THEN w ELSE Merge(w, rows)
  PROVE  Inserted(d, cfg, batch, n, v)
  <1> DEFINE e == batch[n]
             before == NewAmong(d, batch, n - 1)
  <1>0. /\ n \in Nat /\ n >= 1 /\ MaxLedgerId \in Nat /\ DOMAIN batch = 1..Len(batch)
        /\ Len(batch) \in Nat
    BY LedgerAssumption
  <1>1. /\ w = WithEvents(EmptyDatabase, w.events)
        /\ \A i \in 1..(n - 1) : EventRecorded(Merge(d, w), batch[i].conn, batch[i].event)
    BY DEF Inserted
  <1>2. PICK id : /\ NewIds(d, before, id)
                  /\ w.events = {BatchRow(cfg, batch[i], id[i]) : i \in before}
    BY DEF Inserted
  <1>3. \A i \in before : id[i] \in 1..MaxLedgerId /\ id[i] <= seq
    <2>1. \A i \in before : BatchRow(cfg, batch[i], id[i]) \in w.events
      BY <1>2
    <2>2. QED
      BY <1>2, <2>1 DEF BatchRow, NewIds
  <1>4. CASE EventRecorded(Merge(d, w), e.conn, e.event)
    <2>1. n \notin Serial!NewEvents(d, batch)
      <3>1. PICK r \in d.events \cup w.events : r.conn = e.conn /\ r.event = e.event
        BY <1>4 DEF EventRecorded, Merge
      <3>2. CASE r \in d.events
        BY <3>1, <3>2 DEF Serial!NewEvents, Serial!EventRecorded
      <3>3. CASE r \in w.events
        <4>1. PICK i \in before : r = BatchRow(cfg, batch[i], id[i])
          BY <1>2, <3>3
        <4>2. i \in 1..(n - 1) /\ batch[i].conn = e.conn /\ batch[i].event = e.event
          BY <1>0, <3>1, <4>1 DEF BatchRow, NewAmong, Serial!NewEvents
        <4>3. QED
          BY <4>2 DEF Serial!NewEvents
      <3>4. QED
        BY <3>1, <3>2, <3>3
    <2>2. NewAmong(d, batch, n) = before
      BY <1>0, <2>1 DEF NewAmong, Serial!NewEvents
    <2>3. v = w
      BY <1>4
    <2>4. \A i \in 1..n : EventRecorded(Merge(d, w), batch[i].conn, batch[i].event)
      BY <1>0, <1>1, <1>4
    <2>5. QED
      BY <1>1, <1>2, <2>2, <2>3, <2>4 DEF Inserted
  <1>5. CASE ~EventRecorded(Merge(d, w), e.conn, e.event)
    <2>1. n \in Serial!NewEvents(d, batch)
      <3>1. ~EventRecorded(d, e.conn, e.event)
        BY <1>5 DEF EventRecorded, Merge
      <3>2. \A j \in 1..(n - 1) : batch[j].conn # e.conn \/ batch[j].event # e.event
        BY <1>1, <1>5
      <3>3. QED
        BY <3>1, <3>2 DEF Serial!NewEvents, Serial!EventRecorded, EventRecorded
    <2>2. NewAmong(d, batch, n) = before \cup {n} /\ n \notin before
      BY <1>0, <2>1 DEF NewAmong, Serial!NewEvents
    <2> DEFINE id2 == [i \in NewAmong(d, batch, n) |-> IF i = n THEN seq + 1 ELSE id[i]]
               row == BatchRow(cfg, e, seq + 1)
    <2>3. NewIds(d, NewAmong(d, batch, n), id2)
      <3>1. id2 \in [NewAmong(d, batch, n) -> 1..MaxLedgerId]
        BY <1>0, <1>3, <2>2
      <3>2. \A i \in NewAmong(d, batch, n) : \A r \in d.events : r.id < id2[i]
        <4>1. \A r \in d.events : r.id \in Nat
          BY TableTypes DEF EventRow
        <4>2. QED
          BY <1>2, <2>2, <4>1 DEF NewIds
      <3>3. \A i, j \in NewAmong(d, batch, n) : i < j => id2[i] < id2[j]
        <4>1. \A i \in before : i <= n - 1
          BY DEF NewAmong
        <4>2. NewAmong(d, batch, n) \subseteq Nat
          BY <1>0 DEF NewAmong, Serial!NewEvents
        <4>3. QED
          BY <1>0, <1>2, <1>3, <2>2, <4>1, <4>2 DEF NewIds
      <3>4. QED
        BY <3>1, <3>2, <3>3 DEF NewIds
    <2>4. v = Merge(w, rows)
      BY <1>5
    <2>5. v.events = w.events \cup {row}
      <3> HIDE DEF row
      <3>1. rows.events = {row}
        BY DEF WithEvents, EmptyDatabase, row
      <3>2. Merge(w, rows).events = w.events \cup rows.events
        BY DEF Merge
      <3>3. QED
        BY <2>4, <3>1, <3>2, Zenon
    <2>6. v.events = {BatchRow(cfg, batch[i], id2[i]) : i \in NewAmong(d, batch, n)}
      <3>1. \A i \in before : id2[i] = id[i] /\ i # n
        BY <2>2
      <3>2. id2[n] = seq + 1
        BY <2>2
      <3> HIDE DEF id2
      <3>3. QED
        BY <1>2, <2>2, <2>5, <3>1, <3>2
    <2>7. v = WithEvents(EmptyDatabase, v.events)
      <3>1. Merge(w, rows) = WithEvents(w, w.events \cup rows.events)
        <4>1. rows = WithEvents(EmptyDatabase, rows.events)
          BY DEF WithEvents, EmptyDatabase
        <4>2. QED
          BY <4>1, MergeEvents
      <3>2. QED
        BY <1>1, <2>4, <3>1 DEF WithEvents, EmptyDatabase
    <2>8. \A i \in 1..n : EventRecorded(Merge(d, v), batch[i].conn, batch[i].event)
      <3>1. EventRecorded(Merge(d, v), e.conn, e.event)
        <4>1. row \in v.events /\ row.conn = e.conn /\ row.event = e.event
          BY <2>5 DEF BatchRow
        <4> HIDE DEF row
        <4>2. QED
          BY <4>1 DEF EventRecorded, Merge
      <3>2. \A i \in 1..(n - 1) : EventRecorded(Merge(d, v), batch[i].conn, batch[i].event)
        BY <1>1, <2>5 DEF EventRecorded, Merge
      <3>3. \A i \in 1..n : i = n \/ i \in 1..(n - 1)
        BY <1>0
      <3>4. QED
        BY <3>1, <3>2, <3>3
    <2>9. QED
      BY <2>3, <2>6, <2>7, <2>8 DEF Inserted
  <1>6. QED
    BY <1>4, <1>5

\* The whole batch is inserted.
LEMMA BatchInserted ==
  ASSUME NEW d \in Database, NEW cfg, NEW q, q.kind = "append", q.batch \in Seq(BatchEvent),
         NEW w \in Database, Inserted(d, cfg, q.batch, Len(q.batch), w), NEW n, NEW b,
         \A c \in d.commands : c.id <= MaxCommandId
  PROVE  Stage(d, cfg, q, "commit", n, w, b, Answer("stored", 0))
  <1> DEFINE new == Serial!NewEvents(d, q.batch)
  <1>1. Answer("stored", 0) \in Serial!Successes
    BY Successful
  <1>2. NewAmong(d, q.batch, Len(q.batch)) = new
    BY DEF NewAmong, Serial!NewEvents
  <1>3. Merge(d, w) = WithEvents(d, d.events \cup w.events)
    BY MergeEvents DEF Inserted
  <1>4. Stores(d, q.batch, cfg, Merge(d, w), Answer("stored", 0))
    BY <1>2, <1>3, Zenon DEF Inserted, Stores
  <1>5. Executed(d, q, cfg, Merge(d, w), Answer("stored", 0))
    BY <1>4, Zenon DEF Executed
  <1>6. QED
    BY <1>1, <1>5, StageAt, Zenon

\* Drafts of registrations.
LEMMA MergeRegistry ==
  ASSUME NEW d \in Database, NEW w \in Database, w = WithRegistry(EmptyDatabase, w.registry)
  PROVE  Merge(d, w) = WithRegistry(d, Merge(d, w).registry)
  <1> DEFINE m == Merge(d, w)
  <1>1. m \in Database
    BY MergeType
  <1>2. /\ w.events = {} /\ w.commands = {} /\ w.authorizations = {} /\ w.eligibility = {}
        /\ w.deliveries = {} /\ w.attempts = {}
    BY DEF EmptyDatabase, WithRegistry
  <1>3. /\ m.events = d.events
        /\ m.commands = d.commands /\ m.authorizations = d.authorizations
        /\ m.eligibility = d.eligibility
        /\ m.deliveries = d.deliveries /\ m.attempts = d.attempts
    BY <1>2 DEF Merge
  <1> HIDE DEF m
  <1>4. m = WithRegistry(d, m.registry)
    BY <1>1, <1>3 DEF Database, WithRegistry
  <1>5. QED
    BY <1>4 DEF m

\* An upsert returns its row.
LEMMA Registered ==
  ASSUME NEW d \in Database, NEW cfg, NEW q, NEW n, NEW w \in Database, NEW b, NEW o,
         Stage(d, cfg, q, "register", n, w, b, o),
         NEW rows \in Database, rows = WithRegistry(EmptyDatabase, rows.registry)
  PROVE  Stage(d, cfg, q, "register", n, Merge(w, rows), b, o)
  <1>1. w = WithRegistry(EmptyDatabase, w.registry)
    BY StageAt, ZenonT(40)
  <1>2. Merge(w, rows) = WithRegistry(w, Merge(w, rows).registry)
    BY MergeRegistry
  <1>3. Merge(w, rows) = WithRegistry(EmptyDatabase, Merge(w, rows).registry)
    <2> DEFINE x == Merge(w, rows).registry
    <2> HIDE DEF x
    <2>1. WithRegistry(w, x) = WithRegistry(EmptyDatabase, x)
      BY <1>1 DEF WithRegistry, EmptyDatabase
    <2>2. QED
      BY <1>2, <2>1, Zenon DEF x
  <1>4. QED
    BY <1>3, StageAt, Zenon

\* The whole configuration is registered.
LEMMA AllConnectionsRegistered ==
  ASSUME NEW d \in Database, NEW cfg, NEW q, q.kind = "register", NEW n,
         NEW w \in Database, w = WithRegistry(EmptyDatabase, w.registry), NEW b,
         \A c \in Conn : w.registry[c] # NoRow =>
           /\ c \in Configured(cfg)
           /\ w.registry[c] = Registration(cfg.accounts[c])
           /\ RegistrationAccepted(d, c, cfg.accounts[c]),
         \A c \in Configured(cfg) : w.registry[c] # NoRow,
         \A c \in d.commands : c.id <= MaxCommandId
  PROVE  Stage(d, cfg, q, "commit", n, w, b, Answer("registered", 0))
  <1> DEFINE o == Answer("registered", 0)
             g == [c \in Conn |-> IF c \in Configured(cfg) THEN Registration(cfg.accounts[c])
                                  ELSE d.registry[c]]
  <1>1. o \in Serial!Successes
    BY Successful
  <1>2. Merge(d, w).registry = g
    <2>1. Merge(d, w).registry = [c \in Conn |-> IF w.registry[c] # NoRow THEN w.registry[c]
                                                 ELSE d.registry[c]]
      BY MergeTables
    <2>2. Configured(cfg) \subseteq Conn
      BY DEF Configured
    <2>3. QED
      BY <2>1, <2>2
  <1>3. Merge(d, w) = WithRegistry(d, g)
    BY <1>2, MergeRegistry
  <1>4. \A c \in Configured(cfg) : RegistrationAccepted(d, c, cfg.accounts[c])
    BY DEF Configured
  <1>5. Registers(d, cfg, Merge(d, w), o)
    BY <1>3, <1>4, Zenon DEF Registers
  <1>6. Executed(d, q, cfg, Merge(d, w), o)
    BY <1>5, Zenon DEF Executed
  <1>7. QED
    BY <1>1, <1>6, StageAt, Zenon

-----------------------------------------------------------------------------
(* The statements.                                                         *)

\* A statement that takes its transaction from one stage to another.
LEMMA StatementKeeps ==
  ASSUME SerialInv, NEW s \in Server, Executing(s), UnchangedButStatement,
         pc'[s] \notin {"idle", "orphaned"},
         \A t \in Server \ {s} : /\ pc'[t] = pc[t] /\ position'[t] = position[t]
                                 /\ draft'[t] = draft[t] /\ bot'[t] = bot[t]
                                 /\ outcome'[t] = outcome[t],
         Stage(db, config[s], request[s], pc'[s], position'[s], draft'[s], bot'[s],
               outcome'[s])
  PROVE  \A t \in Server : Working(t)' /\ Waits(t)'
  <1>1. UNCHANGED <<db, config, request, answer, phase>>
    BY DEF UnchangedButStatement
  <1>2. \A t \in Server : Serial!Pending(t)' <=> Serial!Pending(t)
    BY <1>1 DEF Serial!Pending
  <1>3. Working(s)'
    BY <1>1 DEF Working
  <1>4. Waits(s)'
    BY <1>1, <1>2 DEF SerialInv, Waits, Executing, Open
  <1>5. ASSUME NEW t \in Server \ {s} PROVE Working(t)' /\ Waits(t)'
    <2>1. Working(t) /\ Waits(t)
      BY DEF SerialInv
    <2>2. Working(t)'
      BY <1>1, <1>5, <2>1 DEF Working
    <2>3. Waits(t)'
      BY <1>1, <1>2, <1>5, <2>1 DEF Waits, Open
    <2>4. QED
      BY <2>2, <2>3
  <1>6. QED
    BY <1>3, <1>4, <1>5

\* What a statement may rely on.
LEMMA Facts ==
  ASSUME SerialInv, NEW s \in Server, Executing(s)
  PROVE  /\ TypeInv /\ db \in Database /\ draft[s] \in Database
         /\ \A c \in db.commands : c.id <= MaxCommandId
         /\ Stage(db, config[s], request[s], pc[s], position[s], draft[s], bot[s],
                  outcome[s])
         /\ request[s] \in Request
  <1>1. TypeInv
    BY DEF SerialInv, SafetyInv
  <1>2. db \in Database /\ draft[s] \in Database
    BY <1>1 DEF TypeInv, TypeOK
  <1>3. \A c \in db.commands : c.id <= MaxCommandId
    <2>1. \A c \in db.commands : c.id <= commandSeq /\ c.id \in Nat
      BY <1>2, TableTypes DEF SerialInv, SafetyInv, BelowSequences, CommandRow
    <2>2. commandSeq \in 0..MaxCommandId
      BY <1>1 DEF TypeInv, TypeOK
    <2>3. QED
      BY <2>1, <2>2, LedgerAssumption
  <1>4. Stage(db, config[s], request[s], pc[s], position[s], draft[s], bot[s], outcome[s])
    BY DEF SerialInv, Working
  <1>5. request[s] \in Request
    BY <1>1, StatementRequest DEF Executing
  <1>6. QED
    BY <1>1, <1>2, <1>3, <1>4, <1>5

\* findExisting, both times, of both stores.
LEMMA FindKeeps ==
  ASSUME SerialInv, NEW s \in Server,
         FindCommand(s) \/ FindCommandAgain(s) \/ FindDelivery(s) \/ FindDeliveryAgain(s)
  PROVE  \A t \in Server : Working(t)' /\ Waits(t)'
  <1> DEFINE q == request[s]
             cfg == config[s]
             scope == cfg.scope[q.inbox]
             n == position[s]
             b == bot[s]
             w == draft[s]
             o == outcome'[s]
  <1>1. /\ Executing(s) /\ UnchangedButStatement /\ ScopeOf(s) = scope
        /\ UNCHANGED <<position, draft, bot>>
    BY DEF FindCommand, FindCommandAgain, FindDelivery, FindDeliveryAgain, Executing, Open,
           ScopeOf
  <1>2. /\ TypeInv /\ db \in Database /\ \A c \in db.commands : c.id <= MaxCommandId
        /\ Stage(db, cfg, q, pc[s], n, w, b, outcome[s])
    BY <1>1, Facts
  <1>3. pc \in [Server -> PC] /\ outcome \in [Server -> AnswerRecord \cup {NoAnswer}]
    BY <1>2 DEF TypeInv, TypeOK
  <1>4. w = EmptyDatabase /\ View(s) = db
    <2>1. pc[s] \in {"find_command", "find_command_again", "find_delivery",
                     "find_delivery_again"}
      BY DEF FindCommand, FindCommandAgain, FindDelivery, FindDeliveryAgain
    <2>2. w = EmptyDatabase
      BY <1>2, <2>1 DEF Stage
    <2>3. QED
      BY <1>2, <2>2, MergeEmpty DEF View
  <1>5. \A t \in Server \ {s} : pc'[t] = pc[t] /\ outcome'[t] = outcome[t]
    BY <1>3 DEF FindCommand, FindCommandAgain, FindDelivery, FindDeliveryAgain, Settle, MoveTo
  <1>6. \A x, a : MoveTo(s, x) => pc'[s] = x
    BY <1>3 DEF MoveTo
  <1>7. \A a : Settle(s, a) => pc'[s] = "commit" /\ outcome'[s] = a
    BY <1>3 DEF Settle, MoveTo
  <1>8. CASE FindCommand(s) \/ FindCommandAgain(s)
    <2>1. q.kind = "create"
      BY <1>1, <1>2, <1>8, StatementRequest DEF FindCommand, FindCommandAgain, Executing
    <2>2. CASE FindCommands(db, q, scope) # {}
      <3>1. PICK c \in FindCommands(db, q, scope) :
              Settle(s, ClassifyCommand(db, c, q, scope))
        BY <1>1, <1>4, <1>8, <2>2 DEF FindCommand, FindCommandAgain
      <3>2. Stage(db, cfg, q, "commit", n, EmptyDatabase, b,
                  ClassifyCommand(db, c, q, scope))
        BY <1>2, <2>1, CommandFound
      <3>3. QED
        BY <1>1, <1>4, <1>5, <1>7, <3>1, <3>2, StatementKeeps
    <2>3. CASE FindCommands(db, q, scope) = {} /\ FindCommand(s)
      <3>1. MoveTo(s, "insert_command") /\ UNCHANGED outcome
        BY <1>1, <1>4, <2>3 DEF FindCommand
      <3>2. \A x : Stage(db, cfg, q, "insert_command", n, w, b, x)
        BY <1>4, <2>3 DEF Stage
      <3>3. QED
        BY <1>1, <1>5, <1>6, <3>1, <3>2, StatementKeeps
    <2>4. CASE FindCommands(db, q, scope) = {} /\ FindCommandAgain(s)
      <3>1. Settle(s, Answer("source_unavailable", 0))
        BY <1>1, <1>4, <2>4 DEF FindCommandAgain
      <3>2. EligibleSource(db, q, scope) = {}
        BY <1>2, <2>4 DEF FindCommandAgain, Stage
      <3>3. Stage(db, cfg, q, "commit", n, EmptyDatabase, b, Answer("source_unavailable", 0))
        BY <1>2, <2>1, <2>4, <3>2, SourceMissing
      <3>4. QED
        BY <1>1, <1>4, <1>5, <1>7, <3>1, <3>3, StatementKeeps
    <2>5. QED
      BY <1>8, <2>2, <2>3, <2>4
  <1>9. CASE FindDelivery(s) \/ FindDeliveryAgain(s)
    <2>1. q.kind = "authorize"
      BY <1>1, <1>2, <1>9, StatementRequest DEF FindDelivery, FindDeliveryAgain, Executing
    <2>2. CASE FindDeliveries(db, q, scope) # {}
      <3>1. PICK v \in FindDeliveries(db, q, scope) :
              Settle(s, ClassifyDelivery(db, v, q, scope))
        <4>1. CASE FindDelivery(s)
          BY <1>1, <1>4, <2>2, <4>1 DEF FindDelivery
        <4>2. CASE FindDeliveryAgain(s)
          BY <1>1, <1>4, <2>2, <4>2 DEF FindDeliveryAgain
        <4>3. QED
          BY <1>9, <4>1, <4>2
      <3>2. Stage(db, cfg, q, "commit", n, EmptyDatabase, b,
                  ClassifyDelivery(db, v, q, scope))
        BY <1>2, <2>1, DeliveryFound
      <3>3. QED
        BY <1>1, <1>4, <1>5, <1>7, <3>1, <3>2, StatementKeeps
    <2>3. CASE FindDeliveries(db, q, scope) = {} /\ FindDelivery(s)
      <3>1. MoveTo(s, "insert_delivery") /\ UNCHANGED outcome
        BY <1>1, <1>4, <2>3 DEF FindDelivery
      <3>2. \A x : Stage(db, cfg, q, "insert_delivery", n, w, b, x)
        BY <1>4, <2>3 DEF Stage
      <3>3. QED
        BY <1>1, <1>5, <1>6, <3>1, <3>2, StatementKeeps
    <2>4. CASE FindDeliveries(db, q, scope) = {} /\ FindDeliveryAgain(s)
      <3>1. Settle(s, Answer("command_unavailable", 0))
        BY <1>1, <1>4, <2>4 DEF FindDeliveryAgain
      <3>2. PICK seen \in SUBSET db.attempts :
              EligibleCommand(WithAttempts(db, seen), q, scope) = {}
        BY <1>2, <2>4 DEF FindDeliveryAgain, Stage
      <3>3. Stage(db, cfg, q, "commit", n, EmptyDatabase, b,
                  Answer("command_unavailable", 0))
        BY <1>2, <2>1, <2>4, <3>2, CommandMissing
      <3>4. QED
        BY <1>1, <1>4, <1>5, <1>7, <3>1, <3>3, StatementKeeps
    <2>5. QED
      BY <1>9, <2>2, <2>3, <2>4
  <1>10. QED
    BY <1>8, <1>9

\* How a statement changes the transaction of its server.
LEMMA StatementWrites ==
  ASSUME TypeInv, NEW s \in Server
  PROVE  /\ \A x : MoveTo(s, x) => pc'[s] = x /\ \A t \in Server \ {s} : pc'[t] = pc[t]
         /\ \A a : Settle(s, a) => /\ pc'[s] = "commit" /\ outcome'[s] = a
                                   /\ \A t \in Server \ {s} : /\ pc'[t] = pc[t]
                                                              /\ outcome'[t] = outcome[t]
         /\ \A rows : Write(s, rows) => /\ draft'[s] = Merge(draft[s], rows)
                                        /\ \A t \in Server \ {s} : draft'[t] = draft[t]
  BY DEF TypeInv, TypeOK, MoveTo, Settle, Write

\* The rows the statements write.
LEMMA RowsAre ==
  /\ \A x : [EmptyDatabase EXCEPT !.events = x] = WithEvents(EmptyDatabase, x)
  /\ \A x : [EmptyDatabase EXCEPT !.commands = x] = WithEvidence(EmptyDatabase, x, {}, {})
  /\ \A x : [EmptyDatabase EXCEPT !.authorizations = x]
              = WithEvidence(EmptyDatabase, {}, x, {})
  /\ \A x : [EmptyDatabase EXCEPT !.eligibility = x]
              = WithEvidence(EmptyDatabase, {}, {}, x)
  /\ \A x : [EmptyDatabase EXCEPT !.deliveries = x] = WithDeliveries(EmptyDatabase, x)
  <1>1. /\ EmptyDatabase \in Database /\ EmptyDatabase.commands = {}
        /\ EmptyDatabase.authorizations = {} /\ EmptyDatabase.eligibility = {}
    BY EmptyType DEF EmptyDatabase
  <1>2. \A x : [EmptyDatabase EXCEPT !.commands = x] = WithEvidence(EmptyDatabase, x, {}, {})
    BY <1>1 DEF WithEvidence, Database
  <1>3. \A x : [EmptyDatabase EXCEPT !.authorizations = x]
                 = WithEvidence(EmptyDatabase, {}, x, {})
    BY <1>1 DEF WithEvidence, Database
  <1>4. \A x : [EmptyDatabase EXCEPT !.eligibility = x]
                 = WithEvidence(EmptyDatabase, {}, {}, x)
    BY <1>1 DEF WithEvidence, Database
  <1>5. /\ \A x : [EmptyDatabase EXCEPT !.events = x] = WithEvents(EmptyDatabase, x)
        /\ \A x : [EmptyDatabase EXCEPT !.deliveries = x] = WithDeliveries(EmptyDatabase, x)
    BY Zenon DEF WithEvents, WithDeliveries
  <1>6. QED
    BY <1>2, <1>3, <1>4, <1>5, Zenon

\* The insert of a reply command.
LEMMA InsertCommandKeeps ==
  ASSUME SerialInv, NEW s \in Server, InsertCommand(s)
  PROVE  \A t \in Server : Working(t)' /\ Waits(t)'
  <1> DEFINE q == request[s]
             cfg == config[s]
             scope == cfg.scope[q.inbox]
             n == position[s]
             sources == EligibleSource(db, q, scope)
             id == commandSeq + 1
  <1>1. /\ Executing(s) /\ UnchangedButStatement /\ ScopeOf(s) = scope
        /\ UNCHANGED position /\ pc[s] = "insert_command"
    BY DEF InsertCommand, Executing, Open, ScopeOf
  <1>2. /\ TypeInv /\ db \in Database /\ \A c \in db.commands : c.id <= MaxCommandId
        /\ Stage(db, cfg, q, "insert_command", n, draft[s], bot[s], outcome[s])
    BY <1>1, Facts
  <1>3. draft[s] = EmptyDatabase /\ FindCommands(db, q, scope) = {}
    BY <1>2, StageAt
  <1>4. View(s) = db
    BY <1>2, <1>3, MergeEmpty DEF View
  <1>5. CASE sources # {} /\ CommandsFor(db, q) = {}
    <2>1. PICK r \in sources :
            /\ Write(s, [EmptyDatabase EXCEPT !.commands =
                 {[id |-> commandSeq + 1, conn |-> r.conn, event |-> r.event,
                   op |-> q.op, text |-> q.text, channel |-> r.channel]}])
            /\ bot' = [bot EXCEPT ![s] =
                 IF r.channel = "telegram_bot"
                 THEN db.registry[r.conn].account ELSE NoAccount]
      BY <1>1, <1>4, <1>5 DEF InsertCommand
    <2>2. /\ outcome' = [outcome EXCEPT ![s] = Answer("created", id)]
          /\ MoveTo(s, "insert_authorization") /\ commandSeq < MaxCommandId
      BY <1>1, <1>4, <1>5 DEF InsertCommand
    <2> DEFINE k == CommandFrom(r, q, id)
               rows == [EmptyDatabase EXCEPT !.commands = {k}]
               b == IF r.channel = "telegram_bot"
                    THEN db.registry[r.conn].account ELSE NoAccount
    <2>3. Write(s, rows)
      BY <2>1 DEF CommandFrom
    <2>4. rows \in Database
      <3>1. q \in CreateRequest /\ id \in Nat /\ r \in EventRow
        BY <1>1, <1>2, StatementRequest, TableTypes, LedgerAssumption
        DEF Executing, TypeInv, TypeOK, EligibleSource
      <3>2. k \in CommandRow
        BY <3>1 DEF CommandFrom, CommandRow, CreateRequest, EventRow
      <3> HIDE DEF k
      <3>3. QED
        BY <3>2, WriteTypes
    <2> HIDE DEF rows
    <2>5. /\ draft'[s] = rows /\ \A t \in Server \ {s} : draft'[t] = draft[t]
      <3>1. /\ draft'[s] = Merge(EmptyDatabase, rows)
            /\ \A t \in Server \ {s} : draft'[t] = draft[t]
        BY <1>2, <1>3, <2>3, StatementWrites
      <3>2. QED
        BY <2>4, <3>1, MergeFirst
    <2>6. /\ outcome'[s] = Answer("created", id) /\ pc'[s] = "insert_authorization"
          /\ bot'[s] = b
          /\ \A t \in Server \ {s} : /\ pc'[t] = pc[t] /\ outcome'[t] = outcome[t]
                                     /\ bot'[t] = bot[t]
      BY <1>2, <2>1, <2>2, StatementWrites DEF TypeInv, TypeOK
    <2>7. rows = WithEvidence(EmptyDatabase, {k}, {}, {})
      <3> HIDE DEF k
      <3>1. QED
        BY RowsAre DEF rows
    <2>8. id \in 1..MaxCommandId /\ \A c \in db.commands : c.id < id
      <3>1. commandSeq \in 0..MaxCommandId /\ \A c \in db.commands : c.id \in Nat
        BY <1>2, TableTypes DEF TypeInv, TypeOK, CommandRow
      <3>2. \A c \in db.commands : c.id <= commandSeq
        BY DEF SerialInv, SafetyInv, BelowSequences
      <3>3. QED
        BY <2>2, <3>1, <3>2, LedgerAssumption
    <2>9. Stage(db, cfg, q, "insert_authorization", n, rows, b, Answer("created", id))
      <3> HIDE DEF id, b
      <3>1. QED
        BY <1>3, <2>7, <2>8, CommandInserted DEF b
    <2>10. QED
      BY <1>1, <2>5, <2>6, <2>9, StatementKeeps
  <1>6. CASE ~(sources # {} /\ CommandsFor(db, q) = {})
    <2>1. MoveTo(s, "find_command_again") /\ UNCHANGED <<draft, bot, outcome>>
      BY <1>1, <1>4, <1>6 DEF InsertCommand
    <2>2. sources = {}
      <3>1. ASSUME NEW r \in sources, NEW c \in CommandsFor(db, q) PROVE FALSE
        BY <1>3 DEF EligibleSource, FindCommands, CommandsFor
      <3>2. QED
        BY <1>6, <3>1
    <2>3. \A x : Stage(db, cfg, q, "find_command_again", n, EmptyDatabase, bot[s], x)
      BY <1>3, <2>2 DEF Stage
    <2>4. pc'[s] = "find_command_again" /\ \A t \in Server \ {s} : pc'[t] = pc[t]
      BY <1>2, <2>1, StatementWrites
    <2>5. QED
      BY <1>1, <1>3, <2>1, <2>3, <2>4, StatementKeeps
  <1>7. QED
    BY <1>5, <1>6

\* The insert of its authorization.
LEMMA InsertAuthorizationKeeps ==
  ASSUME SerialInv, NEW s \in Server, InsertAuthorization(s)
  PROVE  \A t \in Server : Working(t)' /\ Waits(t)'
  <1> DEFINE q == request[s]
             cfg == config[s]
             scope == cfg.scope[q.inbox]
             n == position[s]
             b == bot[s]
             o == outcome[s]
             a == AuthorizationFrom(q, o.command, scope)
             rows == [EmptyDatabase EXCEPT !.authorizations = {a}]
             next == IF b # NoAccount THEN "insert_eligibility" ELSE "commit"
  <1>1. /\ Executing(s) /\ UnchangedButStatement /\ ScopeOf(s) = scope
        /\ UNCHANGED <<position, bot, outcome>> /\ pc[s] = "insert_authorization"
        /\ MoveTo(s, next) /\ Write(s, rows)
    BY DEF InsertAuthorization, Executing, Open, ScopeOf, AuthorizationFrom
  <1>2. /\ TypeInv /\ db \in Database /\ draft[s] \in Database
        /\ Stage(db, cfg, q, "insert_authorization", n, draft[s], b, o)
    BY <1>1, Facts
  <1>3. Creating(db, q, scope, draft[s], b, o, FALSE)
    BY <1>2, StageAt
  <1>4. q \in CreateRequest /\ q.kind = "create"
    BY <1>1, <1>2, StatementRequest DEF Executing
  <1>5. rows \in Database
    <2>1. scope \in Scope
      BY <1>1, <1>2, <1>4, ScopeType DEF CreateRequest
    <2>2. o.command \in Nat
      BY <1>3, LedgerAssumption DEF Creating
    <2>3. a \in AuthorizationRow
      BY <1>4, <2>1, <2>2 DEF AuthorizationFrom, AuthorizationRow, CreateRequest
    <2> HIDE DEF a
    <2>4. QED
      BY <2>3, WriteTypes
  <1>6. rows = WithEvidence(EmptyDatabase, {}, {a}, {})
    <2> HIDE DEF a
    <2>1. QED
      BY RowsAre
  <1> HIDE DEF rows, next
  <1>7. /\ pc'[s] = next /\ draft'[s] = Merge(draft[s], rows)
        /\ \A t \in Server \ {s} : pc'[t] = pc[t] /\ draft'[t] = draft[t]
    BY <1>1, <1>2, StatementWrites
  <1>8. Stage(db, cfg, q, next, n, Merge(draft[s], rows), b, o)
    <2>1. /\ b # NoAccount =>
               Stage(db, cfg, q, "insert_eligibility", n, Merge(draft[s], rows), b, o)
          /\ b = NoAccount => Stage(db, cfg, q, "commit", n, Merge(draft[s], rows), b, o)
      BY <1>2, <1>3, <1>4, <1>5, <1>6, AuthorizationInserted
    <2>2. QED
      BY <2>1 DEF next
  <1>9. next \notin {"idle", "orphaned"}
    BY DEF next
  <1>10. QED
    BY <1>1, <1>7, <1>8, <1>9, StatementKeeps

\* The insert of its eligibility.
LEMMA InsertEligibilityKeeps ==
  ASSUME SerialInv, NEW s \in Server, InsertEligibility(s)
  PROVE  \A t \in Server : Working(t)' /\ Waits(t)'
  <1> DEFINE q == request[s]
             cfg == config[s]
             scope == cfg.scope[q.inbox]
             n == position[s]
             b == bot[s]
             o == outcome[s]
             g == [command |-> o.command, account |-> b]
             rows == [EmptyDatabase EXCEPT !.eligibility = {g}]
  <1>1. /\ Executing(s) /\ UnchangedButStatement /\ ScopeOf(s) = scope
        /\ UNCHANGED <<position, bot, outcome>> /\ pc[s] = "insert_eligibility"
        /\ MoveTo(s, "commit") /\ Write(s, rows)
    BY DEF InsertEligibility, Executing, Open, ScopeOf
  <1>2. /\ TypeInv /\ db \in Database /\ draft[s] \in Database
        /\ Stage(db, cfg, q, "insert_eligibility", n, draft[s], b, o)
    BY <1>1, Facts
  <1>3. Creating(db, q, scope, draft[s], b, o, TRUE) /\ b # NoAccount
    BY <1>2 DEF Stage
  <1>4. q.kind = "create"
    BY <1>1, <1>2, StatementRequest DEF Executing
  <1>5. rows \in Database
    <2>1. o.command \in Nat
      BY <1>3, LedgerAssumption DEF Creating
    <2>2. g \in EligibilityRow
      BY <1>2, <1>3, <2>1 DEF EligibilityRow, TypeInv, TypeOK, AccountOrNull
    <2> HIDE DEF g
    <2>3. QED
      BY <2>2, WriteTypes
  <1>6. rows = WithEvidence(EmptyDatabase, {}, {}, {g})
    <2> HIDE DEF g
    <2>1. QED
      BY RowsAre
  <1> HIDE DEF rows
  <1>7. /\ pc'[s] = "commit" /\ draft'[s] = Merge(draft[s], rows)
        /\ \A t \in Server \ {s} : pc'[t] = pc[t] /\ draft'[t] = draft[t]
    BY <1>1, <1>2, StatementWrites
  <1>8. Stage(db, cfg, q, "commit", n, Merge(draft[s], rows), b, o)
    BY <1>2, <1>3, <1>4, <1>5, <1>6, EligibilityInserted
  <1>9. QED
    BY <1>1, <1>7, <1>8, StatementKeeps

\* The insert of a delivery authorization.
LEMMA InsertDeliveryKeeps ==
  ASSUME SerialInv, NEW s \in Server, InsertDelivery(s)
  PROVE  \A t \in Server : Working(t)' /\ Waits(t)'
  <1> DEFINE q == request[s]
             cfg == config[s]
             scope == cfg.scope[q.inbox]
             n == position[s]
             b == bot[s]
             eligible == EligibleCommand(db, q, scope)
             taken == \E v \in db.deliveries : v.command = q.command
  <1>1. /\ Executing(s) /\ UnchangedButStatement /\ ScopeOf(s) = scope
        /\ UNCHANGED <<position, bot>> /\ pc[s] = "insert_delivery"
    BY DEF InsertDelivery, Executing, Open, ScopeOf
  <1>2. /\ TypeInv /\ db \in Database /\ \A c \in db.commands : c.id <= MaxCommandId
        /\ Stage(db, cfg, q, "insert_delivery", n, draft[s], b, outcome[s])
    BY <1>1, Facts
  <1>3. draft[s] = EmptyDatabase /\ FindDeliveries(db, q, scope) = {}
    BY <1>2, StageAt
  <1>4. View(s) = db
    BY <1>2, <1>3, MergeEmpty DEF View
  <1>5. q \in AuthorizeRequest /\ q.kind = "authorize"
    BY <1>1, <1>2, StatementRequest DEF Executing
  <1>6. CASE eligible # {} /\ ~taken
    <2>1. /\ \E c \in eligible :
               Write(s, [EmptyDatabase EXCEPT !.deliveries = {DeliveryFor(db, c, q, scope)}])
          /\ Settle(s, Answer("created", q.command))
      BY <1>1, <1>4, <1>6 DEF InsertDelivery, DeliveryFor
    <2>2. PICK c \in eligible :
            Write(s, [EmptyDatabase EXCEPT !.deliveries = {DeliveryFor(db, c, q, scope)}])
      BY <2>1
    <2> DEFINE v == DeliveryFor(db, c, q, scope)
               rows == [EmptyDatabase EXCEPT !.deliveries = {v}]
    <2>3. rows \in Database
      <3>1. scope \in Scope
        BY <1>1, <1>2, <1>5, ScopeType DEF AuthorizeRequest
      <3>2. c \in CommandRow /\ db.registry[c.conn].account \in Account
        BY <1>2, TableTypes DEF EligibleCommand, CommandInScope, BotEligibility, BoundBot
      <3>3. v \in DeliveryRow
        BY <1>5, <3>1, <3>2 DEF DeliveryFor, DeliveryRow, AuthorizeRequest, CommandRow
      <3> HIDE DEF v
      <3>4. QED
        BY <3>3, WriteTypes
    <2>4. rows = WithDeliveries(EmptyDatabase, {v})
      BY Zenon DEF WithDeliveries
    <2> HIDE DEF rows
    <2>5. draft'[s] = rows /\ \A t \in Server \ {s} : draft'[t] = draft[t]
      <3>1. Write(s, rows)
        BY <2>2 DEF rows
      <3>2. /\ draft'[s] = Merge(EmptyDatabase, rows)
            /\ \A t \in Server \ {s} : draft'[t] = draft[t]
        BY <1>2, <1>3, <3>1, StatementWrites
      <3>3. QED
        BY <2>3, <3>2, MergeFirst
    <2>6. Stage(db, cfg, q, "commit", n, rows, b, Answer("created", q.command))
      BY <1>2, <1>3, <1>5, <2>3, <2>4, DeliveryInserted
    <2>7. /\ pc'[s] = "commit" /\ outcome'[s] = Answer("created", q.command)
          /\ \A t \in Server \ {s} : pc'[t] = pc[t] /\ outcome'[t] = outcome[t]
      BY <1>2, <2>1, StatementWrites
    <2>8. QED
      BY <1>1, <2>5, <2>6, <2>7, StatementKeeps
  <1>7. CASE ~(eligible # {} /\ ~taken)
    <2>1. MoveTo(s, "find_delivery_again") /\ UNCHANGED <<draft, outcome>>
      BY <1>1, <1>4, <1>7 DEF InsertDelivery
    <2>2. eligible = {}
      <3>1. ASSUME NEW c \in eligible, taken PROVE FALSE
        BY <1>3, <3>1 DEF EligibleCommand, FindDeliveries
      <3>2. QED
        BY <1>7, <3>1
    <2>3. \E seen \in SUBSET db.attempts : EligibleCommand(WithAttempts(db, seen), q, scope) = {}
      <3>1. WithAttempts(db, db.attempts) = db
        BY <1>2 DEF Database, WithAttempts
      <3>2. QED
        BY <2>2, <3>1
    <2>4. \A x : Stage(db, cfg, q, "find_delivery_again", n, EmptyDatabase, b, x)
      BY <1>3, <2>3 DEF Stage
    <2>5. pc'[s] = "find_delivery_again" /\ \A t \in Server \ {s} : pc'[t] = pc[t]
      BY <1>2, <2>1, StatementWrites
    <2>6. QED
      BY <1>1, <1>3, <2>1, <2>4, <2>5, StatementKeeps
  <1>8. QED
    BY <1>6, <1>7

\* The insert of an event.
LEMMA InsertEventKeeps ==
  ASSUME SerialInv, TypeInv', NEW s \in Server, InsertEvent(s)
  PROVE  \A t \in Server : Working(t)' /\ Waits(t)'
  <1> DEFINE q == request[s]
             cfg == config[s]
             n == position[s]
             w == draft[s]
             e == q.batch[n]
             v == draft'[s]
             rows == [EmptyDatabase EXCEPT !.events = {BatchRow(cfg, e, ledgerSeq + 1)}]
  <1>1. /\ Executing(s) /\ UnchangedButStatement /\ bot' = bot /\ pc[s] = "insert_event"
        /\ ledgerSeq < MaxLedgerId
    BY Zenon DEF InsertEvent, Executing, Open
  <1>2. /\ TypeInv /\ db \in Database /\ w \in Database
        /\ \A c \in db.commands : c.id <= MaxCommandId
        /\ Stage(db, cfg, q, "insert_event", n, w, bot[s], outcome[s])
    BY <1>1, Facts
  <1>3. Inserted(db, cfg, q.batch, n - 1, w)
    BY <1>2 DEF Stage
  <1>4. q.kind = "append" /\ q.batch \in Seq(BatchEvent) /\ n \in DOMAIN q.batch
    BY <1>1, <1>2, StatementRequest, RequestTypes DEF Executing, TypeInv, Control
  <1>5. \/ /\ EventRecorded(Merge(db, w), e.conn, e.event) /\ UNCHANGED draft
        \/ /\ ~EventRecorded(Merge(db, w), e.conn, e.event) /\ Write(s, rows)
    BY Zenon DEF InsertEvent, View, BatchRow
  <1>6. v \in Database
    BY DEF TypeInv, TypeOK
  <1>7. ledgerSeq \in Nat /\ (\A r \in db.events : r.id <= ledgerSeq)
        /\ (\A r \in w.events : r.id <= ledgerSeq)
    <2>1. ledgerSeq \in Nat
      BY <1>2, LedgerAssumption DEF TypeInv, TypeOK
    <2>2. \A r \in db.events : r.id <= ledgerSeq
      BY DEF SerialInv, SafetyInv, BelowSequences
    <2>3. EventDrafts(s)
      BY <1>1 DEF SerialInv, SafetyInv, ServerInv, Drafts
    <2>4. QED
      BY <2>1, <2>2, <2>3 DEF EventDrafts
  <1>8. rows \in Database
    <2>1. e \in BatchEvent
      BY <1>4, ElementOfSeq
    <2>2. cfg.accounts[e.conn] # NoAccount
      <3>1. DeliverableBatch(s, q.batch)
        BY <1>1, <1>2, <1>4 DEF TypeInv, Control, Executing
      <3>2. QED
        BY <1>4, <3>1 DEF DeliverableBatch
    <2>3. cfg.accounts[e.conn] \in AccountOrNull
      BY <1>2, <2>1, ConfigTypes DEF TypeInv, TypeOK, BatchEvent
    <2>4. BatchRow(cfg, e, ledgerSeq + 1) \in EventRow
      <3>1. cfg.accounts[e.conn] \in Account
        BY <2>2, <2>3 DEF AccountOrNull
      <3>2. ledgerSeq + 1 \in Nat \ {0}
        BY <1>7
      <3> HIDE DEF cfg, e
      <3>3. QED
        BY <2>1, <3>1, <3>2, TablesAssumption DEF BatchRow, EventRow, BatchEvent, AccountOrNull, Channel
    <2>5. QED
      BY <2>4, WriteTypes
  <1>9. rows = WithEvents(EmptyDatabase, {BatchRow(cfg, e, ledgerSeq + 1)})
    BY Zenon DEF WithEvents
  <1> HIDE DEF rows
  <1>10. /\ v = IF EventRecorded(Merge(db, w), e.conn, e.event) THEN w ELSE Merge(w, rows)
         /\ \A t \in Server \ {s} : draft'[t] = draft[t]
    <2>1. CASE EventRecorded(Merge(db, w), e.conn, e.event)
      BY <1>5, <2>1
    <2>2. CASE ~EventRecorded(Merge(db, w), e.conn, e.event)
      BY <1>2, <1>5, <2>2, StatementWrites
    <2>3. QED
      BY <2>1, <2>2
  <1>11. Inserted(db, cfg, q.batch, n, v)
    <2> HIDE DEF v, w, cfg, q, n
    <2>1. QED
      BY <1>1, <1>2, <1>3, <1>4, <1>6, <1>7, <1>8, <1>9, <1>10, EventInserted
  <1>12. CASE n = Len(q.batch)
    <2>1. Settle(s, Answer("stored", 0)) /\ UNCHANGED position
      BY <1>12, Zenon DEF InsertEvent
    <2>2. Stage(db, cfg, q, "commit", n, v, bot[s], Answer("stored", 0))
      BY <1>2, <1>4, <1>6, <1>11, <1>12, BatchInserted
    <2>3. /\ pc'[s] = "commit" /\ outcome'[s] = Answer("stored", 0)
          /\ \A t \in Server \ {s} : pc'[t] = pc[t] /\ outcome'[t] = outcome[t]
      BY <1>2, <2>1, StatementWrites
    <2>4. QED
      BY <1>1, <1>10, <2>1, <2>2, <2>3, StatementKeeps
  <1>13. CASE n # Len(q.batch)
    <2>1. position' = [position EXCEPT ![s] = n + 1] /\ UNCHANGED <<pc, outcome>>
      BY <1>13, Zenon DEF InsertEvent
    <2>2. /\ position'[s] = n + 1 /\ position'[s] - 1 = n
          /\ \A t \in Server \ {s} : position'[t] = position[t]
      BY <1>2, <1>4, <2>1 DEF TypeInv, TypeOK
    <2>3. \A x, y : Stage(db, cfg, q, "insert_event", position'[s], v, x, y)
      BY <1>11, <2>2 DEF Stage
    <2>4. QED
      BY <1>1, <1>10, <2>1, <2>2, <2>3, StatementKeeps
  <1>14. QED
    BY <1>12, <1>13

\* An accepted upsert.
LEMMA RegisterKeeps ==
  ASSUME SerialInv, SafetyInv', NEW s \in Server, NEW c \in Conn, RegisterConnection(s, c)
  PROVE  \A t \in Server : Working(t)' /\ Waits(t)'
  <1> DEFINE q == request[s]
             cfg == config[s]
             n == position[s]
             w == draft[s]
             v == draft'[s]
             a == cfg.accounts[c]
             rows == [EmptyDatabase EXCEPT !.registry[c] = Registration(a)]
             o == Answer("registered", 0)
  <1>1. /\ Executing(s) /\ UnchangedButStatement /\ UNCHANGED <<bot, position>>
        /\ pc[s] = "register" /\ Write(s, rows) /\ c \in Configured(cfg)
    BY DEF RegisterConnection, Executing, Open, Unregistered
  <1>2. /\ TypeInv /\ db \in Database /\ w \in Database
        /\ \A k \in db.commands : k.id <= MaxCommandId
        /\ Stage(db, cfg, q, "register", n, w, bot[s], outcome[s])
    BY <1>1, Facts
  <1>3. q.kind = "register"
    BY <1>1, <1>2, StatementRequest DEF Executing
  <1>4. rows \in Database
    <2>1. Registration(a) \in RegistryRow
      BY <1>1, <1>2, ConfigTypes, TablesAssumption
      DEF TypeInv, TypeOK, Configured, AccountOrNull, Registration, RegistryRow, Channel
    <2>2. QED
      BY <2>1, WriteTypes
  <1>5. rows = WithRegistry(EmptyDatabase, rows.registry)
    <2>1. rows = [EmptyDatabase EXCEPT !.registry = [@ EXCEPT ![c] = Registration(a)]]
      BY Zenon
    <2> DEFINE x == [EmptyDatabase.registry EXCEPT ![c] = Registration(a)]
    <2>2. rows = WithRegistry(EmptyDatabase, x)
      BY <2>1, Zenon DEF WithRegistry
    <2> HIDE DEF x, rows
    <2>3. rows.registry = x
      BY <2>2 DEF WithRegistry, EmptyDatabase
    <2>4. QED
      BY <2>2, <2>3
  <1> HIDE DEF rows
  <1>6. v = Merge(w, rows) /\ \A t \in Server \ {s} : draft'[t] = draft[t]
    BY <1>1, <1>2, StatementWrites
  <1>7. \A x, y : Stage(db, cfg, q, "register", n, v, x, y)
    <2>1. Stage(db, cfg, q, "register", n, v, bot[s], outcome[s])
      BY <1>2, <1>4, <1>5, <1>6, Registered
    <2>2. QED
      BY <2>1 DEF Stage
  <1>8. CASE Unregistered(s) # {c}
    <2>1. UNCHANGED <<pc, outcome>>
      BY <1>8 DEF RegisterConnection
    <2>2. QED
      BY <1>1, <1>6, <1>7, <2>1, StatementKeeps
  <1>9. CASE Unregistered(s) = {c}
    <2>1. Settle(s, o)
      BY <1>9 DEF RegisterConnection
    <2>2. /\ pc'[s] = "commit" /\ outcome'[s] = o
          /\ \A t \in Server \ {s} : pc'[t] = pc[t] /\ outcome'[t] = outcome[t]
      BY <1>2, <2>1, StatementWrites
    <2>3. UNCHANGED <<db, config, phase>>
      BY <1>1 DEF UnchangedButStatement
    <2>4. \A k \in Conn : v.registry[k] # NoRow =>
            /\ k \in Configured(cfg)
            /\ v.registry[k] = Registration(cfg.accounts[k])
            /\ RegistrationAccepted(db, k, cfg.accounts[k])
      <3>1. RegistryDrafts(s)'
        BY <2>2 DEF SafetyInv, ServerInv, Drafts
      <3>2. QED
        BY <2>3, <3>1 DEF RegistryDrafts, Configured, RegistrationAccepted, HasHistory
    <2>5. \A k \in Configured(cfg) : v.registry[k] # NoRow
      <3>1. phase[s] = "starting"
        <4>1. \A y \in Requests : y.kind # "register"
          BY RequestTypes
        <4>2. QED
          BY <1>1, <1>2, <1>3, <4>1, StatementRequest DEF Executing
      <3>2. Unregistered(s)' = {}
        BY <2>2, <2>3, <3>1 DEF SafetyInv, ServerInv, AllRegistered
      <3>3. QED
        BY <2>3, <3>2 DEF Unregistered, Configured
    <2>6. v = WithRegistry(EmptyDatabase, v.registry)
      BY <1>7 DEF Stage
    <2>7. v \in Database
      BY <1>2, <1>4, <1>6, MergeType
    <2>8. Stage(db, cfg, q, "commit", n, v, bot[s], o)
      BY <1>2, <1>3, <2>4, <2>5, <2>6, <2>7, AllConnectionsRegistered
    <2>9. QED
      BY <1>1, <1>6, <2>2, <2>8, StatementKeeps
  <1>10. QED
    BY <1>8, <1>9

-----------------------------------------------------------------------------
(* Requests, locks and the ends of transactions.                           *)

\* BEGIN.
LEMMA BeginKeeps ==
  ASSUME SerialInv, NEW s \in Server, NEW q \in Request, pc[s] = "idle",
         BeginTransaction(s, q), UNCHANGED db,
         \A t \in Server \ {s} : phase'[t] = phase[t] /\ config'[t] = config[t]
  PROVE  \A t \in Server : Working(t)' /\ Waits(t)'
  <1>1. TypeInv
    BY DEF SerialInv, SafetyInv
  <1>2. /\ pc'[s] = "lock" /\ request'[s] = q /\ answer'[s] = NoAnswer /\ position'[s] = 1
        /\ UNCHANGED <<draft, bot, outcome>>
        /\ \A t \in Server \ {s} : /\ pc'[t] = pc[t] /\ request'[t] = request[t]
                                   /\ answer'[t] = answer[t] /\ position'[t] = position[t]
    BY <1>1 DEF BeginTransaction, TypeInv, TypeOK
  <1>3. draft[s] = EmptyDatabase
    BY DEF SerialInv, Working, Stage
  <1>4. Working(s)'
    BY <1>2, <1>3 DEF Working, Stage
  <1>5. Waits(s)'
    BY <1>2, LedgerAssumption DEF Waits, Open, Serial!Pending
  <1>6. ASSUME NEW t \in Server \ {s} PROVE Working(t)' /\ Waits(t)'
    <2>1. Working(t) /\ Waits(t)
      BY DEF SerialInv
    <2>2. QED
      BY <1>2, <1>6, <2>1 DEF Working, Waits, Open, Serial!Pending
  <1>7. QED
    BY <1>4, <1>5, <1>6

\* The stage at the first statement of each operation.
LEMMA FirstStage ==
  ASSUME NEW d, NEW cfg, NEW q \in Request, NEW b, NEW o
  PROVE  Stage(d, cfg, q, FirstStatement(q.kind), 1, EmptyDatabase, b, o)
  <1>1. CASE q.kind = "append"
    <2>1. EmptyDatabase = WithEvents(EmptyDatabase, EmptyDatabase.events)
      BY EmptyType DEF WithEvents, Database
    <2>2. q.batch \in Seq(BatchEvent)
      BY <1>1, RequestTypes
    <2>3. NewAmong(d, q.batch, 0) = {}
      BY <2>2 DEF NewAmong, Serial!NewEvents
    <2> DEFINE id == [i \in {} |-> 1]
    <2>4. NewIds(d, {}, id)
      BY DEF NewIds
    <2>5. EmptyDatabase.events = {BatchRow(cfg, q.batch[i], id[i]) : i \in {}}
      BY DEF EmptyDatabase
    <2> HIDE DEF id
    <2>6. Inserted(d, cfg, q.batch, 0, EmptyDatabase)
      <3>1. \A i \in 1..0 :
              EventRecorded(Merge(d, EmptyDatabase), q.batch[i].conn, q.batch[i].event)
        OBVIOUS
      <3>2. /\ NewIds(d, NewAmong(d, q.batch, 0), id)
            /\ EmptyDatabase.events =
                 {BatchRow(cfg, q.batch[i], id[i]) : i \in NewAmong(d, q.batch, 0)}
        BY <2>3, <2>4, <2>5
      <3>3. QED
        BY <2>1, <3>1, <3>2, Zenon DEF Inserted
    <2>7. FirstStatement(q.kind) = "insert_event"
      BY <1>1 DEF FirstStatement
    <2>8. QED
      BY <2>6, <2>7 DEF Stage
  <1>2. CASE q.kind = "register"
    <2>1. EmptyDatabase = WithRegistry(EmptyDatabase, EmptyDatabase.registry)
      BY EmptyType DEF WithRegistry, Database
    <2>2. FirstStatement(q.kind) = "register"
      BY <1>2 DEF FirstStatement
    <2>3. QED
      BY <2>1, <2>2 DEF Stage
  <1>3. CASE q.kind = "create"
    BY <1>3 DEF FirstStatement, Stage
  <1>4. CASE q.kind = "authorize"
    BY <1>4 DEF FirstStatement, Stage
  <1>5. QED
    BY <1>1, <1>2, <1>3, <1>4, RequestTypes

\* A lock is taken.
LEMMA AcquireKeeps ==
  ASSUME SerialInv, NEW s \in Server, AcquireLock(s)
  PROVE  \A t \in Server : Working(t)' /\ Waits(t)'
  <1>1. TypeInv
    BY DEF SerialInv, SafetyInv
  <1>2. /\ pc[s] = "lock" /\ UNCHANGED <<db, position, draft, bot, outcome, process>>
        /\ pc'[s] \in {"lock", FirstStatement(request[s].kind)}
        /\ \A t \in Server \ {s} : pc'[t] = pc[t]
    BY <1>1 DEF AcquireLock, TypeInv, TypeOK
  <1>3. UNCHANGED <<phase, config, request, answer>>
    BY <1>2 DEF process
  <1>4. request[s] \in Request
    BY <1>1, <1>2, LedgerAssumption, RequestTypes DEF TypeInv, TypeOK, Control, Open
  <1>5. draft[s] = EmptyDatabase /\ position[s] = 1
    BY <1>2 DEF SerialInv, Working, Stage
  <1>6. Stage(db, config[s], request[s], FirstStatement(request[s].kind), 1, EmptyDatabase,
              bot[s], outcome[s])
    BY <1>4, FirstStage
  <1>7. Stage(db, config[s], request[s], "lock", 1, EmptyDatabase, bot[s], outcome[s])
    BY DEF Stage
  <1>8. Working(s)'
    BY <1>2, <1>3, <1>5, <1>6, <1>7 DEF Working
  <1>9. FirstStatement(request[s].kind) \notin {"idle", "orphaned"}
    BY <1>4, LockTypes, RequestTypes DEF StatementsOf
  <1>10. Waits(s)'
    <2>1. Serial!Pending(s)
      BY <1>2 DEF SerialInv, Waits, Open
    <2>2. Serial!Pending(s)' /\ pc'[s] # "idle"
      BY <1>2, <1>3, <1>9, <2>1 DEF Serial!Pending
    <2>3. QED
      BY <2>2 DEF Waits
  <1>11. ASSUME NEW t \in Server \ {s} PROVE Working(t)' /\ Waits(t)'
    <2>1. Working(t) /\ Waits(t)
      BY DEF SerialInv
    <2>2. QED
      BY <1>2, <1>3, <1>11, <2>1 DEF Working, Waits, Open, Serial!Pending
  <1>12. QED
    BY <1>8, <1>10, <1>11

\* A server that does not execute does not care about the committed rows.
LEMMA StageOfWaiting ==
  ASSUME NEW d, NEW e, NEW cfg, NEW q, NEW at \in {"idle", "lock", "orphaned"},
         NEW n, NEW w, NEW b, NEW o, Stage(d, cfg, q, at, n, w, b, o)
  PROVE  Stage(e, cfg, q, at, n, w, b, o)
  BY DEF Stage

\* A transaction ends.
LEMMA EndKeeps ==
  ASSUME SerialInv, NEW s \in Server, EndTransaction(s),
         db' = db \/ pc[s] = "commit",
         \A t \in Server \ {s} : /\ phase'[t] = phase[t] /\ config'[t] = config[t]
                                 /\ request'[t] = request[t] /\ answer'[t] = answer[t],
         phase'[s] = "serving" => answer'[s] # NoAnswer
  PROVE  \A t \in Server : Working(t)' /\ Waits(t)'
  <1>1. TypeInv
    BY DEF SerialInv, SafetyInv
  <1>2. /\ pc'[s] = "idle" /\ draft'[s] = EmptyDatabase /\ position'[s] = 1
        /\ \A t \in Server \ {s} : /\ pc'[t] = pc[t] /\ position'[t] = position[t]
                                   /\ draft'[t] = draft[t] /\ bot'[t] = bot[t]
                                   /\ outcome'[t] = outcome[t]
    BY <1>1 DEF EndTransaction, TypeInv, TypeOK
  <1>3. Working(s)'
    BY <1>2 DEF Working, Stage
  <1>4. Waits(s)'
    BY <1>2 DEF Waits, Open, Serial!Pending
  <1>5. ASSUME NEW t \in Server \ {s} PROVE Working(t)' /\ Waits(t)'
    <2>1. Working(t) /\ Waits(t)
      BY DEF SerialInv
    <2>2. Waits(t)'
      BY <1>2, <1>5, <2>1 DEF Waits, Open, Serial!Pending
    <2>3. CASE db' = db
      BY <1>2, <1>5, <2>1, <2>2, <2>3 DEF Working
    <2>4. CASE pc[s] = "commit"
      <3>1. ~Executing(t)
        BY <1>5, <2>4, Alone DEF SerialInv, Executing, Open
      <3>2. pc[t] \in {"idle", "lock", "orphaned"}
        BY <3>1 DEF Executing, Open
      <3>3. Stage(db', config[t], request[t], pc[t], position[t], draft[t], bot[t],
                  outcome[t])
        BY <2>1, <3>2, StageOfWaiting DEF Working
      <3>4. QED
        BY <1>2, <1>5, <2>2, <3>3 DEF Working
    <2>5. QED
      BY <2>3, <2>4
  <1>6. QED
    BY <1>3, <1>4, <1>5

\* A process dies.
LEMMA CrashKeeps ==
  ASSUME SerialInv, NEW s \in Server, Crash(s)
  PROVE  \A t \in Server : Working(t)' /\ Waits(t)'
  <1>1. TypeInv
    BY DEF SerialInv, SafetyInv
  <1>2. /\ phase'[s] = "down"
        /\ \A t \in Server \ {s} : /\ phase'[t] = phase[t] /\ config'[t] = config[t]
                                   /\ request'[t] = request[t] /\ answer'[t] = answer[t]
    BY <1>1 DEF Crash, TypeInv, TypeOK
  <1>3. CASE pc[s] = "commit" /\ EndTransaction(s)
    BY <1>2, <1>3, EndKeeps
  <1>4. CASE /\ UNCHANGED <<db, position, draft, bot, outcome>>
             /\ \/ pc[s] # "idle" /\ MoveTo(s, "orphaned")
                \/ pc[s] = "idle" /\ UNCHANGED pc
    <2>1. pc'[s] \in {"idle", "orphaned"} /\ \A t \in Server \ {s} : pc'[t] = pc[t]
      BY <1>1, <1>4 DEF MoveTo, TypeInv, TypeOK
    <2>2. Waits(s)'
      BY <1>2, <2>1 DEF Waits, Open
    <2>3. Working(s)'
      <3>1. pc'[s] = "idle" => draft[s] = EmptyDatabase /\ position[s] = 1
        BY <1>1, <1>4 DEF MoveTo, TypeInv, TypeOK, SerialInv, Working, Stage
      <3>2. QED
        BY <1>4, <2>1, <3>1 DEF Working, Stage
    <2>4. ASSUME NEW t \in Server \ {s} PROVE Working(t)' /\ Waits(t)'
      <3>1. Working(t) /\ Waits(t)
        BY DEF SerialInv
      <3>2. QED
        BY <1>2, <1>4, <2>1, <2>4, <3>1 DEF Working, Waits, Open, Serial!Pending
    <2>5. QED
      BY <2>2, <2>3, <2>4
  <1>5. QED
    BY <1>3, <1>4, Zenon DEF Crash

\* An attempt is recorded.
LEMMA AttemptKeeps ==
  ASSUME SerialInv, TypeInv', RecordAttempt
  PROVE  \A t \in Server : Working(t)' /\ Waits(t)'
  <1>1. TypeInv
    BY DEF SerialInv, SafetyInv
  <1>2. UNCHANGED <<phase, config, request, answer, pc, position, draft, bot, outcome>>
    BY DEF RecordAttempt, process, transaction
  <1>3. db \in Database /\ db' \in Database
    BY <1>1 DEF TypeInv, TypeOK
  <1>4. PICK c \in db.commands : db' = [db EXCEPT !.attempts = @ \cup {c.id}]
    BY DEF RecordAttempt
  <1>5. SameButAttempts(db, db') /\ db.attempts \subseteq db'.attempts
    BY <1>3, <1>4 DEF SameButAttempts, Database
  <1>6. ASSUME NEW t \in Server PROVE Working(t)' /\ Waits(t)'
    <2>1. Working(t) /\ Waits(t)
      BY DEF SerialInv
    <2>2. draft[t] \in Database
      BY <1>1 DEF TypeInv, TypeOK
    <2>3. Stage(db', config[t], request[t], pc[t], position[t], draft[t], bot[t],
                outcome[t])
      BY <1>3, <1>5, <2>1, <2>2, StageAttempts DEF Working
    <2>4. QED
      BY <1>2, <2>1, <2>3 DEF Working, Waits, Open, Serial!Pending
  <1>7. QED
    BY <1>6

-----------------------------------------------------------------------------
(* The refinement.                                                         *)

\* No server has a transaction, a request or an answer at first.
LEMMA SerialInit == Init => SerialInv
  <1> SUFFICES ASSUME Init PROVE SerialInv
    OBVIOUS
  <1>1. ASSUME NEW s \in Server PROVE Working(s) /\ Waits(s)
    <2>1. /\ pc[s] = "idle" /\ position[s] = 1 /\ draft[s] = EmptyDatabase
          /\ request[s] = NoRequest
      BY DEF Init
    <2>2. QED
      BY <2>1 DEF Working, Stage, Waits, Open, Serial!Pending
  <1>2. QED
    BY <1>1, SafetyInit DEF SerialInv

\* Every step preserves the invariant: one step for each action.
LEMMA SerialStep == SerialInv /\ [Next]_vars => SerialInv'
  <1> SUFFICES ASSUME SerialInv, [Next]_vars PROVE SerialInv'
    OBVIOUS
  <1> DEFINE Kept == \A t \in Server : Working(t)' /\ Waits(t)'
  <1>0. TypeInv /\ SafetyInv' /\ TypeInv'
    BY SafetyStep DEF SerialInv, SafetyInv
  <1>1. ASSUME NEW s \in Server, NEW cfg \in Config, Start(s, cfg) PROVE Kept
    <2>1. /\ pc[s] = "idle" /\ BeginTransaction(s, [kind |-> "register"])
          /\ UNCHANGED db
          /\ \A t \in Server \ {s} : phase'[t] = phase[t] /\ config'[t] = config[t]
      BY <1>0, <1>1 DEF Start, storage, TypeInv, TypeOK
    <2>2. QED
      BY <2>1, RequestTypes, BeginKeeps
  <1>2. ASSUME NEW s \in Server, NEW q \in Requests, Receive(s, q) PROVE Kept
    <2>1. /\ pc[s] = "idle" /\ BeginTransaction(s, q) /\ UNCHANGED <<db, phase, config>>
      BY <1>2 DEF Receive, storage
    <2>2. q \in Request
      BY RequestTypes
    <2>3. QED
      BY <2>1, <2>2, BeginKeeps
  <1>3. ASSUME NEW s \in Server, AcquireLock(s) PROVE Kept
    BY <1>3, AcquireKeeps
  <1>4. ASSUME NEW s \in Server, Commit(s) PROVE Kept
    <2>1. /\ pc[s] = "commit" /\ EndTransaction(s) /\ answer'[s] = outcome[s]
          /\ UNCHANGED <<config, request>>
          /\ \A t \in Server \ {s} : phase'[t] = phase[t] /\ answer'[t] = answer[t]
      BY <1>0, <1>4 DEF Commit, TypeInv, TypeOK
    <2>2. outcome[s] # NoAnswer
      BY <1>0, <2>1, LedgerAssumption DEF TypeInv, Control
    <2>3. QED
      BY <2>1, <2>2, EndKeeps
  <1>5. ASSUME NEW s \in Server, EndTransaction(s), Raise(s), db' = db \/ pc[s] = "commit"
        PROVE  Kept
    <2>1. /\ answer'[s] = Answer("error", 0) /\ UNCHANGED request
          /\ \A t \in Server \ {s} : /\ phase'[t] = phase[t] /\ config'[t] = config[t]
                                     /\ answer'[t] = answer[t]
      BY <1>0, <1>5 DEF Raise, TypeInv, TypeOK
    <2>2. answer'[s] # NoAnswer
      BY <2>1, LedgerAssumption DEF Answer, AnswerRecord, AnswerKind
    <2>3. QED
      BY <1>5, <2>1, <2>2, EndKeeps
  <1>6. ASSUME NEW s \in Server, StatementRefused(s) \/ StatementFails(s) PROVE Kept
    BY <1>5, <1>6, Zenon DEF StatementRefused, StatementFails, Rollback
  <1>7. ASSUME NEW s \in Server, CommitUnacknowledged(s) PROVE Kept
    BY <1>5, <1>7, Zenon DEF CommitUnacknowledged
  <1>8. ASSUME NEW s \in Server, Statement(s) PROVE Kept
    <2>1. ASSUME NEW c \in Conn, RegisterConnection(s, c) PROVE Kept
      BY <1>0, <2>1, RegisterKeeps
    <2>2. CASE FindCommand(s) \/ FindCommandAgain(s) \/ FindDelivery(s)
               \/ FindDeliveryAgain(s)
      BY <2>2, FindKeeps
    <2>3. CASE InsertEvent(s) \/ InsertCommand(s) \/ InsertAuthorization(s)
               \/ InsertEligibility(s) \/ InsertDelivery(s)
      BY <1>0, <2>3, InsertEventKeeps, InsertCommandKeeps, InsertAuthorizationKeeps,
         InsertEligibilityKeeps, InsertDeliveryKeeps
    <2>4. QED
      BY <1>4, <1>6, <1>8, <2>1, <2>2, <2>3 DEF Statement
  <1>9. ASSUME NEW s \in Server, BackendEnds(s) PROVE Kept
    <2>1. /\ EndTransaction(s) /\ UNCHANGED <<db, phase, config, request, answer>>
          /\ phase[s] # "serving"
      BY <1>0, <1>9 DEF BackendEnds, process, TypeInv, Control
    <2>2. QED
      BY <2>1, EndKeeps
  <1>10. ASSUME UNCHANGED vars PROVE Kept
    <2>1. UNCHANGED <<db, phase, config, request, answer, pc, position, draft, bot, outcome>>
      BY <1>10 DEF vars
    <2>2. ASSUME NEW t \in Server PROVE Working(t)' /\ Waits(t)'
      <3>1. Working(t) /\ Waits(t)
        BY DEF SerialInv
      <3>2. QED
        BY <2>1, <3>1 DEF Working, Waits, Open, Serial!Pending
    <2>3. QED
      BY <2>2
  <1>11. ASSUME NEW s \in Server, Crash(s) PROVE Kept
    BY <1>11, CrashKeeps
  <1>12. ASSUME RecordAttempt PROVE Kept
    BY <1>0, <1>12, AttemptKeeps
  <1> HIDE DEF Kept
  <1>13. Kept
    BY <1>1, <1>2, <1>3, <1>6, <1>7, <1>8, <1>9, <1>10, <1>11, <1>12
    DEF Next, Arrival, Failure
  <1>14. QED
    BY <1>0, <1>13 DEF SerialInv, Kept

\* The operation of a server that is about to commit has been executed.
LEMMA CommitExecutes ==
  ASSUME SerialInv, NEW s \in Server, pc[s] = "commit", db' = Merge(db, draft[s])
  PROVE  /\ Serial!Pending(s) /\ outcome[s] \in Serial!Successes
         /\ Serial!Executes(db, request[s], config[s], db', outcome[s])
  <1>1. Serial!Pending(s)
    BY DEF SerialInv, Waits, Open
  <1>2. /\ outcome[s] \in Serial!Successes
        /\ Executed(db, request[s], config[s], Merge(db, draft[s]), outcome[s])
    BY DEF SerialInv, Working, Stage
  <1>3. Executed(db, request[s], config[s], db', outcome[s])
    BY <1>2
  <1>4. QED
    BY <1>1, <1>2, <1>3, SerialOperations

\* A request that ends in an error has taken effect or not, entirely.
LEMMA RaiseRefines ==
  ASSUME SerialInv, NEW s \in Server, Raise(s), Open(s),
         db' = db \/ (pc[s] = "commit" /\ db' = Merge(db, draft[s]))
  PROVE  Serial!Fail(s)
  <1>1. Serial!Pending(s)
    BY DEF SerialInv, Waits
  <1>2. Serial!InDoubt(s)
    <2>1. CASE db' = db
      BY <2>1 DEF Serial!InDoubt
    <2>2. CASE pc[s] = "commit" /\ db' = Merge(db, draft[s])
      <3>1. /\ outcome[s] \in Serial!Successes
            /\ Serial!Executes(db, request[s], config[s], db', outcome[s])
        BY <2>2, CommitExecutes
      <3>2. QED
        BY <1>1, <3>1, Zenon DEF Serial!InDoubt
    <2>3. QED
      BY <2>1, <2>2
  <1>3. QED
    BY <1>1, <1>2, Zenon DEF Raise, Serial!Fail, Serial!Answer, Answer

\* Every step is a step of SerialLedger, or none of its variables moves.
LEMMA SerialRefines == SerialInv /\ [Next]_vars => [Serial!Next]_(Serial!vars)
  <1> SUFFICES ASSUME SerialInv, [Next]_vars
               PROVE  Serial!Next \/ UNCHANGED <<db, phase, config, request, answer>>
    BY DEF Serial!vars
  <1> DEFINE Refined == Serial!Next \/ UNCHANGED <<db, phase, config, request, answer>>
  <1>0. TypeInv
    BY DEF SerialInv, SafetyInv
  <1>1. ASSUME NEW s \in Server, NEW cfg \in Config, Start(s, cfg) PROVE Refined
    <2>1. Serial!Start(s)
      BY <1>1, Zenon DEF Start, BeginTransaction, storage, Serial!Start
    <2>2. QED
      BY <2>1 DEF Serial!Next
  <1>2. ASSUME NEW s \in Server, NEW q \in Requests, Receive(s, q) PROVE Refined
    <2>1. ~Serial!Pending(s)
      BY <1>2 DEF Receive, SerialInv, Waits
    <2>2. Serial!Receive(s)
      BY <1>2, <2>1, Zenon DEF Receive, BeginTransaction, storage, Serial!Receive
    <2>3. QED
      BY <2>2 DEF Serial!Next
  <1>3. ASSUME NEW s \in Server, Commit(s) PROVE Refined
    <2>1. /\ pc[s] = "commit" /\ db' = Merge(db, draft[s])
          /\ answer' = [answer EXCEPT ![s] = outcome[s]]
          /\ phase' = [phase EXCEPT ![s] = "serving"]
          /\ UNCHANGED <<config, request>>
      BY <1>3 DEF Commit
    <2>2. /\ Serial!Pending(s) /\ outcome[s] \in Serial!Successes
          /\ Serial!Executes(db, request[s], config[s], db', outcome[s])
      BY <2>1, CommitExecutes
    <2>3. answer'[s] = outcome[s]
      BY <1>0, <2>1 DEF TypeInv, TypeOK
    <2>4. outcome[s] \in Serial!Successes \cap {answer'[s]}
      BY <2>2, <2>3
    <2>5. Serial!Succeed(s)
      BY <2>1, <2>2, <2>4, Zenon DEF Serial!Succeed
    <2>6. QED
      BY <2>5 DEF Serial!Next
  <1>4. ASSUME NEW s \in Server, CommitUnacknowledged(s) PROVE Refined
    <2>1. Serial!Fail(s)
      BY <1>4, RaiseRefines DEF CommitUnacknowledged, Open
    <2>2. QED
      BY <2>1 DEF Serial!Next
  <1>5. ASSUME NEW s \in Server, StatementRefused(s) \/ StatementFails(s) PROVE Refined
    <2>1. Open(s) /\ Raise(s) /\ db' = db
      BY <1>5 DEF StatementRefused, StatementFails, Rollback, Open
    <2>2. Serial!Fail(s)
      BY <2>1, RaiseRefines
    <2>3. QED
      BY <2>2 DEF Serial!Next
  <1>6. ASSUME NEW s \in Server, Crash(s) PROVE Refined
    <2>1. db' = db \/ (pc[s] = "commit" /\ db' = Merge(db, draft[s]))
      BY <1>6 DEF Crash
    <2>2. Serial!InDoubt(s)
      <3>1. CASE db' = db
        BY <3>1 DEF Serial!InDoubt
      <3>2. CASE pc[s] = "commit" /\ db' = Merge(db, draft[s])
        BY <3>2, CommitExecutes, Zenon DEF Serial!InDoubt
      <3>3. QED
        BY <2>1, <3>1, <3>2
    <2>3. Serial!Crash(s)
      BY <1>6, <2>2, Zenon DEF Crash, Serial!Crash
    <2>4. QED
      BY <2>3 DEF Serial!Next
  <1>7. ASSUME RecordAttempt PROVE Refined
    <2>1. Serial!RecordAttempt
      BY <1>7, Zenon DEF RecordAttempt, process, Serial!RecordAttempt
    <2>2. QED
      BY <2>1 DEF Serial!Next
  <1>8. ASSUME NEW s \in Server, AcquireLock(s) \/ BackendEnds(s) PROVE Refined
    BY <1>8 DEF AcquireLock, BackendEnds, process
  <1>9. ASSUME NEW s \in Server, UnchangedButStatement PROVE Refined
    BY <1>9 DEF UnchangedButStatement
  <1>10. ASSUME NEW s \in Server, Statement(s) PROVE Refined
    <2>1. ASSUME NEW c \in Conn, RegisterConnection(s, c) PROVE Refined
      BY <1>9, <2>1 DEF RegisterConnection
    <2>2. CASE \/ InsertEvent(s) \/ FindCommand(s) \/ InsertCommand(s)
               \/ InsertAuthorization(s) \/ InsertEligibility(s) \/ FindCommandAgain(s)
               \/ FindDelivery(s) \/ InsertDelivery(s) \/ FindDeliveryAgain(s)
      <3>1. UnchangedButStatement
        BY <2>2, Zenon DEF InsertEvent, FindCommand, InsertCommand, InsertAuthorization,
             InsertEligibility, FindCommandAgain, FindDelivery, InsertDelivery,
             FindDeliveryAgain
      <3>2. QED
        BY <1>9, <3>1
    <2>3. QED
      BY <1>3, <1>5, <1>10, <2>1, <2>2 DEF Statement
  <1>11. ASSUME UNCHANGED vars PROVE Refined
    BY <1>11 DEF vars
  <1> HIDE DEF Refined
  <1>12. Refined
    BY <1>1, <1>2, <1>4, <1>5, <1>6, <1>7, <1>8, <1>10, <1>11 DEF Next, Arrival, Failure
  <1>13. QED
    BY <1>12 DEF Refined

\* The stores are serializable: for every set of servers, of configurations
\* and of requests, and whatever fails, each answer and each change of the
\* database is that of one atomic operation on the committed rows.
THEOREM Serializable == Spec => SerialSpec
  <1>1. Init => Serial!Init
    BY DEF Init, Serial!Init
  <1>2. QED
    BY <1>1, SerialInit, SerialStep, SerialRefines, PTL DEF Spec, SerialSpec, Serial!Spec

-----------------------------------------------------------------------------
(* Soundness of committed rows d.                                          *)

\* Keys are unique and identities in range.
UniqueEvents(d) ==
  /\ \A r \in d.events : r.id \in 1..MaxLedgerId
  /\ \A r1, r2 \in d.events :
       r1.id = r2.id \/ (r1.conn = r2.conn /\ r1.event = r2.event) => r1 = r2
UniqueCommands(d) ==
  /\ \A c \in d.commands : c.id \in 1..MaxCommandId
  /\ \A c1, c2 \in d.commands :
       c1.id = c2.id \/ (c1.conn = c2.conn /\ c1.op = c2.op) => c1 = c2

\* Evidence belongs to a stored command, eligibility to a Telegram command.
Attributed(d) ==
  /\ \A a \in d.authorizations : \E c \in d.commands : c.id = a.command
  /\ \A g \in d.eligibility :
       \E c \in d.commands : c.id = g.command /\ c.channel = "telegram_bot"

\* CommandsCarryEvidence and DeliveriesAreBacked of the rows d.
Evidence(d, c) ==
  /\ \E a \in d.authorizations : a.command = c.id /\ c.conn \in a.scope
  /\ c.channel = "telegram_bot" => SourcePrivate(d, c) /\ BotEligibility(d, c)
Evident(d) == \A c \in d.commands : LegacyCommand(c) \/ Evidence(d, c)

Backing(d, v, c) ==
  /\ c.id = v.command /\ c.channel = "telegram_bot" /\ c.conn \in v.scope
  /\ CommandAuthorizedFor(d, c.id, v.inbox, v.scope)
  /\ SourcePrivate(d, c) /\ BotEligibility(d, c)
  /\ v.account = d.registry[c.conn].account
Backed(d) ==
  \A v \in d.deliveries :
    /\ \E c \in d.commands : Backing(d, v, c)
    /\ \A w \in d.deliveries : w.command = v.command => w = v

Sound(d) ==
  /\ UniqueEvents(d) /\ UniqueCommands(d) /\ Attributed(d)
  /\ Evident(d) /\ Backed(d)

\* The rows e extend the rows d: nothing is taken away, an account stays, and
\* a stored command gets no further authorization.
Extends(d, e) ==
  /\ d.events \subseteq e.events /\ d.commands \subseteq e.commands
  /\ d.authorizations \subseteq e.authorizations
  /\ d.eligibility \subseteq e.eligibility
  /\ d.deliveries \subseteq e.deliveries
  /\ \A c \in Conn : d.registry[c] # NoRow /\ d.registry[c].account \in Account
       => e.registry[c] = d.registry[c]
  /\ \A a \in e.authorizations \ d.authorizations :
       \A c \in d.commands : c.id # a.command

\* AnswersAreTrue of one answer a to the request q, in three parts.
Told(a, kinds) == a # NoAnswer /\ a.kind \in kinds
StoredTruly(d, q, a) ==
  Told(a, {"stored"}) =>
    \A i \in DOMAIN q.batch : EventRecorded(d, q.batch[i].conn, q.batch[i].event)
CreatedTruly(d, q, scope, a) ==
  /\ Told(a, {"created", "idempotent_replay"}) /\ q.kind = "create" =>
       \E c \in d.commands : /\ c.id = a.command
                             /\ c.conn = q.conn /\ c.op = q.op
                             /\ c.event = q.event /\ c.text = q.text
                             /\ SameAuthorization(d, c, q, scope)
  /\ Told(a, {"created", "idempotent_replay"}) /\ q.kind = "authorize" =>
       \E v \in d.deliveries :
         /\ v.command = q.command /\ v.inbox = q.inbox
         /\ v.principal = q.principal /\ v.scope = scope
RefusedTruly(d, q, scope, a) ==
  /\ Told(a, {"idempotency_conflict"}) =>
       \E c \in CommandsFor(d, q) :
         \/ LegacyCommand(c)
         \/ c.event # q.event \/ c.text # q.text
         \/ ~SameAuthorization(d, c, q, scope)
  /\ Told(a, {"authorization_conflict"}) =>
       \E v \in d.deliveries :
         v.command = q.command /\ (v.inbox # q.inbox \/ v.principal # q.principal
                                   \/ v.scope # scope)
Truth(d, q, scope, a) ==
  StoredTruly(d, q, a) /\ CreatedTruly(d, q, scope, a) /\ RefusedTruly(d, q, scope, a)

-----------------------------------------------------------------------------
(* Rows that extend others.                                                *)

\* What holds of evidence keeps holding.
LEMMA ExtendsKeeps ==
  ASSUME NEW d \in Database, NEW e \in Database, Extends(d, e)
  PROVE  /\ \A c, v : EventRecorded(d, c, v) => EventRecorded(e, c, v)
         /\ \A c : SourcePrivate(d, c) => SourcePrivate(e, c)
         /\ \A c \in CommandRow : BotEligibility(d, c) =>
              BotEligibility(e, c) /\ e.registry[c.conn] = d.registry[c.conn]
         /\ \A id, i, x : CommandAuthorizedFor(d, id, i, x) =>
              CommandAuthorizedFor(e, id, i, x)
         /\ \A c \in CommandRow : Evidence(d, c) => Evidence(e, c)
         /\ \A v : \A c \in CommandRow : Backing(d, v, c) => Backing(e, v, c)
  <1>1. \A c, v : EventRecorded(d, c, v) => EventRecorded(e, c, v)
    BY DEF Extends, EventRecorded
  <1>2. \A c : SourcePrivate(d, c) => SourcePrivate(e, c)
    BY DEF Extends, SourcePrivate
  <1>3. \A c \in CommandRow : BotEligibility(d, c) =>
          BotEligibility(e, c) /\ e.registry[c.conn] = d.registry[c.conn]
    BY DEF Extends, BotEligibility, BoundBot, CommandRow
  <1>4. \A id, i, x : CommandAuthorizedFor(d, id, i, x) => CommandAuthorizedFor(e, id, i, x)
    BY DEF Extends, CommandAuthorizedFor
  <1>5. \A c \in CommandRow : Evidence(d, c) => Evidence(e, c)
    BY <1>2, <1>3 DEF Extends, Evidence
  <1>6. \A v : \A c \in CommandRow : Backing(d, v, c) => Backing(e, v, c)
    BY <1>2, <1>3, <1>4 DEF Backing
  <1>7. QED
    BY <1>1, <1>2, <1>3, <1>4, <1>5, <1>6

\* An answer that is true stays true.
LEMMA TruthKeeps ==
  ASSUME NEW d \in Database, NEW e \in Database, Extends(d, e),
         NEW q, NEW scope, NEW a, Truth(d, q, scope, a)
  PROVE  Truth(e, q, scope, a)
  <1>1. StoredTruly(e, q, a)
    BY ExtendsKeeps DEF Truth, StoredTruly
  <1>2. \A c : SameAuthorization(d, c, q, scope) => SameAuthorization(e, c, q, scope)
    BY DEF Extends, SameAuthorization
  <1>3. \A c \in d.commands :
          SameAuthorization(e, c, q, scope) => SameAuthorization(d, c, q, scope)
    BY DEF Extends, SameAuthorization
  <1>4. CreatedTruly(e, q, scope, a)
    BY <1>2 DEF Truth, CreatedTruly, Extends
  <1>5. RefusedTruly(e, q, scope, a)
    BY <1>3 DEF Truth, RefusedTruly, Extends, CommandsFor
  <1>6. QED
    BY <1>1, <1>4, <1>5 DEF Truth

\* New rows that are sound beside those they extend.
LEMMA SoundRows ==
  ASSUME NEW d \in Database, NEW e \in Database, Extends(d, e), Sound(d),
         UniqueEvents(e), UniqueCommands(e),
         e.commands = d.commands \/ Attributed(e),
         e.commands = d.commands => /\ e.authorizations = d.authorizations
                                    /\ e.eligibility = d.eligibility,
         \A c \in e.commands \ d.commands : Evidence(e, c),
         \A v \in e.deliveries \ d.deliveries :
           /\ \E c \in d.commands : Backing(e, v, c)
           /\ \A w \in e.deliveries : w.command = v.command => w = v
  PROVE  Sound(e)
  <1>1. d.commands \subseteq CommandRow
    BY TableTypes
  <1>2. Attributed(e)
    BY DEF Sound, Attributed
  <1>3. Evident(e)
    <2> SUFFICES ASSUME NEW c \in d.commands PROVE LegacyCommand(c) \/ Evidence(e, c)
      BY DEF Evident
    <2>1. QED
      BY <1>1, ExtendsKeeps DEF Sound, Evident
  <1>4. Backed(e)
    <2> SUFFICES ASSUME NEW v \in d.deliveries
                 PROVE  /\ \E c \in e.commands : Backing(e, v, c)
                        /\ \A w \in e.deliveries : w.command = v.command => w = v
      BY DEF Backed, Extends
    <2>1. \E c \in e.commands : Backing(e, v, c)
      BY <1>1, ExtendsKeeps DEF Sound, Backed, Extends
    <2>2. \A w \in e.deliveries : w.command = v.command => w = v
      BY DEF Sound, Backed, Extends
    <2>3. QED
      BY <2>1, <2>2
  <1>5. QED
    BY <1>2, <1>3, <1>4 DEF Sound

-----------------------------------------------------------------------------
(* Each operation.                                                         *)

\* The tables of rows with some of their tables replaced.
LEMMA Replaced ==
  ASSUME NEW d \in Database
  PROVE  /\ \A x : /\ WithEvents(d, x).events = x
                   /\ WithEvents(d, x).registry = d.registry
                   /\ WithEvents(d, x).commands = d.commands
                   /\ WithEvents(d, x).authorizations = d.authorizations
                   /\ WithEvents(d, x).eligibility = d.eligibility
                   /\ WithEvents(d, x).deliveries = d.deliveries
                   /\ WithEvents(d, x).attempts = d.attempts
         /\ \A x : /\ WithRegistry(d, x).events = d.events
                   /\ WithRegistry(d, x).registry = x
                   /\ WithRegistry(d, x).commands = d.commands
                   /\ WithRegistry(d, x).authorizations = d.authorizations
                   /\ WithRegistry(d, x).eligibility = d.eligibility
                   /\ WithRegistry(d, x).deliveries = d.deliveries
                   /\ WithRegistry(d, x).attempts = d.attempts
         /\ \A x : /\ WithDeliveries(d, x).events = d.events
                   /\ WithDeliveries(d, x).registry = d.registry
                   /\ WithDeliveries(d, x).commands = d.commands
                   /\ WithDeliveries(d, x).authorizations = d.authorizations
                   /\ WithDeliveries(d, x).eligibility = d.eligibility
                   /\ WithDeliveries(d, x).deliveries = x
                   /\ WithDeliveries(d, x).attempts = d.attempts
         /\ \A x : /\ WithAttempts(d, x).events = d.events
                   /\ WithAttempts(d, x).registry = d.registry
                   /\ WithAttempts(d, x).commands = d.commands
                   /\ WithAttempts(d, x).authorizations = d.authorizations
                   /\ WithAttempts(d, x).eligibility = d.eligibility
                   /\ WithAttempts(d, x).deliveries = d.deliveries
                   /\ WithAttempts(d, x).attempts = x
         /\ \A x, y, z : /\ WithEvidence(d, x, y, z).events = d.events
                         /\ WithEvidence(d, x, y, z).registry = d.registry
                         /\ WithEvidence(d, x, y, z).commands = x
                         /\ WithEvidence(d, x, y, z).authorizations = y
                         /\ WithEvidence(d, x, y, z).eligibility = z
                         /\ WithEvidence(d, x, y, z).deliveries = d.deliveries
                         /\ WithEvidence(d, x, y, z).attempts = d.attempts
  BY DEF Database, WithEvents, WithRegistry, WithDeliveries, WithAttempts, WithEvidence

\* Of positions of a batch there is a first one.
LEMMA FirstPosition ==
  ASSUME NEW T \in SUBSET Nat, T # {}
  PROVE  \E m \in T : \A k \in T : m <= k
  <1> DEFINE Less == {ss \in Nat \X Nat : ss[1] < ss[2]}
  <1>1. IsWellFoundedOn(Less, Nat)
    BY NatLessThanWellFounded, Zenon DEF OpToRel
  <1>2. \A k, m \in Nat : k < m => <<k, m>> \in Less
    OBVIOUS
  <1> HIDE DEF Less
  <1>3. PICK m \in T : \A k \in T : ~(<<k, m>> \in Less)
    BY <1>1, WFMin, Zenon
  <1>4. m \in Nat /\ \A k \in T : k \in Nat /\ ~(k < m)
    BY <1>2, <1>3
  <1>5. \A k \in T : m <= k
    BY <1>4
  <1>6. QED
    BY <1>5

\* After a batch is stored, each of its events is, under the first position
\* that brings it if no stored row does.
LEMMA BatchRecorded ==
  ASSUME NEW d \in Database, NEW cfg, NEW batch \in Seq(BatchEvent), NEW e, NEW a,
         Stores(d, batch, cfg, e, a), NEW i \in DOMAIN batch
  PROVE  EventRecorded(e, batch[i].conn, batch[i].event)
  <1> DEFINE new == Serial!NewEvents(d, batch)
  <1>1. PICK id : /\ NewIds(d, new, id)
                  /\ e = WithEvents(d, d.events \cup
                           {BatchRow(cfg, batch[j], id[j]) : j \in new})
    BY Zenon DEF Stores
  <1>2. e.events = d.events \cup {BatchRow(cfg, batch[j], id[j]) : j \in new}
    BY <1>1, Replaced, ZenonT(40)
  <1>3. CASE EventRecorded(d, batch[i].conn, batch[i].event)
    BY <1>2, <1>3 DEF EventRecorded
  <1>4. CASE ~EventRecorded(d, batch[i].conn, batch[i].event)
    <2> DEFINE T == {k \in DOMAIN batch : /\ batch[k].conn = batch[i].conn
                                          /\ batch[k].event = batch[i].event}
    <2>1. T \in SUBSET Nat /\ T # {}
      BY LenProperties
    <2>2. PICK m \in T : \A k \in T : m <= k
      BY <2>1, FirstPosition, Zenon
    <2>3. \A j \in 1..(m - 1) :
            batch[j].conn # batch[m].conn \/ batch[j].event # batch[m].event
      BY <2>2, LenProperties
    <2>4. m \in new
      BY <1>4, <2>3, SerialTables DEF Serial!NewEvents
    <2>5. BatchRow(cfg, batch[m], id[m]) \in e.events
      BY <1>2, <2>4
    <2>6. /\ BatchRow(cfg, batch[m], id[m]).conn = batch[i].conn
          /\ BatchRow(cfg, batch[m], id[m]).event = batch[i].event
      BY DEF BatchRow
    <2>7. QED
      BY <2>5, <2>6 DEF EventRecorded
  <1>5. QED
    BY <1>3, <1>4

\* A batch is stored soundly.
LEMMA BatchSound ==
  ASSUME NEW d \in Database, Sound(d), NEW cfg, NEW batch \in Seq(BatchEvent),
         NEW e \in Database, NEW a, Stores(d, batch, cfg, e, a)
  PROVE  Extends(d, e) /\ Sound(e)
  <1> DEFINE new == Serial!NewEvents(d, batch)
  <1>1. PICK id : /\ NewIds(d, new, id)
                  /\ e = WithEvents(d, d.events \cup
                           {BatchRow(cfg, batch[j], id[j]) : j \in new})
    BY Zenon DEF Stores
  <1> DEFINE row(j) == BatchRow(cfg, batch[j], id[j])
             rows == d.events \cup {row(j) : j \in new}
  <1> HIDE DEF rows
  <1>2. /\ e.events = rows /\ e.registry = d.registry /\ e.commands = d.commands
        /\ e.authorizations = d.authorizations /\ e.eligibility = d.eligibility
        /\ e.deliveries = d.deliveries
    <2>1. e = WithEvents(d, rows)
      BY <1>1 DEF rows
    <2>2. QED
      BY <2>1, Replaced
  <1>3. \A j \in new : /\ row(j).id = id[j] /\ row(j).conn = batch[j].conn
                       /\ row(j).event = batch[j].event
    BY DEF BatchRow
  <1>4. \A j \in new : /\ id[j] \in 1..MaxLedgerId
                       /\ \A r \in d.events : r.id < id[j]
                       /\ \A k \in new : j < k => id[j] < id[k]
    BY <1>1 DEF NewIds
  <1>5. \A j \in new : /\ j \in Nat
                       /\ \A r \in d.events : ~(r.conn = batch[j].conn
                                                /\ r.event = batch[j].event)
                       /\ \A k \in new : k < j =>
                            ~(batch[k].conn = batch[j].conn /\ batch[k].event = batch[j].event)
    <2>1. new \subseteq DOMAIN batch /\ DOMAIN batch \subseteq Nat
      BY LenProperties DEF Serial!NewEvents
    <2>2. \A j \in new : ~EventRecorded(d, batch[j].conn, batch[j].event)
      BY SerialTables DEF Serial!NewEvents
    <2>3. \A j \in new : \A k \in 1..(j - 1) :
            ~(batch[k].conn = batch[j].conn /\ batch[k].event = batch[j].event)
      BY DEF Serial!NewEvents
    <2>4. \A j, k \in new : k < j => k \in 1..(j - 1)
      BY <2>1, LenProperties
    <2>5. QED
      BY <2>1, <2>2, <2>3, <2>4 DEF EventRecorded
  <1> HIDE DEF new, row
  <1>6. /\ d.events \subseteq rows
         /\ \A r \in rows \ d.events : \E j \in new : r = row(j)
    BY DEF rows
  <1>7. \A r \in d.events : r.id \in 1..MaxLedgerId
    BY DEF Sound, UniqueEvents
  <1>8. \A r \in e.events : r.id \in 1..MaxLedgerId
    BY <1>2, <1>3, <1>4, <1>7, <1>6
  <1>9. ASSUME NEW r1 \in e.events, NEW r2 \in e.events,
               r1.id = r2.id \/ (r1.conn = r2.conn /\ r1.event = r2.event)
        PROVE  r1 = r2
    <2>1. CASE r1 \in d.events /\ r2 \in d.events
      BY <1>9, <2>1 DEF Sound, UniqueEvents
    <2>2. CASE r1 \in d.events /\ r2 \notin d.events
      <3>1. PICK j \in new : r2 = row(j)
        BY <1>2, <1>6, <2>2
      <3>2. r1.id < r2.id /\ r1.id \in Nat /\ r2.id \in Nat
        BY <1>3, <1>4, <1>7, <1>8, <2>2, <3>1
      <3>3. QED
        BY <1>3, <1>5, <1>9, <2>2, <3>1, <3>2
    <2>3. CASE r1 \notin d.events /\ r2 \in d.events
      <3>1. PICK j \in new : r1 = row(j)
        BY <1>2, <1>6, <2>3
      <3>2. r2.id < r1.id /\ r1.id \in Nat /\ r2.id \in Nat
        BY <1>3, <1>4, <1>7, <1>8, <2>3, <3>1
      <3>3. QED
        BY <1>3, <1>5, <1>9, <2>3, <3>1, <3>2
    <2>4. CASE r1 \notin d.events /\ r2 \notin d.events
      <3>1. PICK j \in new : r1 = row(j)
        BY <1>2, <1>6, <2>4
      <3>2. PICK k \in new : r2 = row(k)
        BY <1>2, <1>6, <2>4
      <3>3. j \in Nat /\ k \in Nat /\ id[j] \in Nat /\ id[k] \in Nat
        BY <1>4, <1>5
      <3>4. ~(j < k) /\ ~(k < j)
        BY <1>3, <1>4, <1>5, <1>9, <3>1, <3>2, <3>3
      <3>5. QED
        BY <3>1, <3>2, <3>3, <3>4
    <2>5. QED
      BY <2>1, <2>2, <2>3, <2>4
  <1>10. Extends(d, e)
    BY <1>2, <1>6 DEF Extends
  <1>11. UniqueEvents(e) /\ UniqueCommands(e)
    BY <1>2, <1>8, <1>9 DEF UniqueEvents, UniqueCommands, Sound
  <1>12. QED
    BY <1>2, <1>10, <1>11, SoundRows

\* A configuration is registered soundly: the account of a bound connection
\* stays.
LEMMA RegistrationSound ==
  ASSUME NEW d \in Database, Sound(d), NEW cfg \in Config, NEW e \in Database, NEW a,
         Registers(d, cfg, e, a)
  PROVE  Extends(d, e) /\ Sound(e)
  <1> DEFINE rows == [c \in Conn |->
       IF c \in Configured(cfg) THEN Registration(cfg.accounts[c]) ELSE d.registry[c]]
  <1>1. \A c \in Configured(cfg) : RegistrationAccepted(d, c, cfg.accounts[c])
    BY DEF Registers
  <1>2. /\ e.registry = rows /\ e.events = d.events /\ e.commands = d.commands
        /\ e.authorizations = d.authorizations /\ e.eligibility = d.eligibility
        /\ e.deliveries = d.deliveries
    <2>1. e = WithRegistry(d, rows)
      BY DEF Registers
    <2> HIDE DEF rows
    <2>2. QED
      BY <2>1, Replaced
  <1>3. ASSUME NEW c \in Conn, d.registry[c] # NoRow, d.registry[c].account \in Account
        PROVE  rows[c] = d.registry[c]
    <2>1. CASE c \in Configured(cfg)
      <3>1. d.registry[c] \in RegistryRow
        BY <1>3, TableTypes
      <3>2. /\ d.registry[c].channel = ChannelOf[cfg.accounts[c]]
            /\ d.registry[c].account = cfg.accounts[c]
        BY <1>1, <1>3, <2>1, TablesAssumption DEF RegistrationAccepted
      <3>3. Registration(cfg.accounts[c]) = d.registry[c]
        BY <3>1, <3>2 DEF Registration, RegistryRow
      <3>4. QED
        BY <2>1, <3>3
    <2>2. CASE c \notin Configured(cfg)
      BY <2>2
    <2>3. QED
      BY <2>1, <2>2
  <1> HIDE DEF rows
  <1>4. Extends(d, e)
    BY <1>2, <1>3 DEF Extends
  <1>5. UniqueEvents(e) /\ UniqueCommands(e)
    BY <1>2 DEF UniqueEvents, UniqueCommands, Sound
  <1>6. QED
    BY <1>2, <1>4, <1>5, SoundRows

\* A command that carries its evidence passes the check of a replay.
LEMMA EvidenceMatches ==
  ASSUME NEW d \in Database, Sound(d), NEW c \in d.commands, Evidence(d, c)
  PROVE  MatchingEligibility(d, c)
  <1>1. CASE c.channel = "telegram_bot"
    BY <1>1 DEF Evidence, BotEligibility, BoundBot, MatchingEligibility
  <1>2. CASE c.channel # "telegram_bot"
    <2>1. \A g \in d.eligibility : g.command # c.id
      BY <1>2 DEF Sound, Attributed, UniqueCommands
    <2>2. QED
      BY <1>2, <2>1 DEF MatchingEligibility
  <1>3. QED
    BY <1>1, <1>2

\* A reply command that is found is answered truly.
LEMMA FoundTruly ==
  ASSUME NEW d \in Database, Sound(d), NEW q, NEW scope, q.kind = "create",
         NEW c \in FindCommands(d, q, scope)
  PROVE  Truth(d, q, scope, ClassifyCommand(d, c, q, scope))
  <1> DEFINE a == ClassifyCommand(d, c, q, scope)
  <1>1. c \in d.commands /\ c \in CommandsFor(d, q) /\ c.conn = q.conn /\ c.op = q.op
    BY DEF FindCommands, CommandsFor
  <1>2. CASE IsReplay(d, c, q, scope)
    <2>1. a.kind = "idempotent_replay" /\ a.command = c.id
      BY <1>2 DEF ClassifyCommand, Answer
    <2>2. QED
      BY <1>1, <1>2, <2>1 DEF Truth, StoredTruly, CreatedTruly, RefusedTruly, Told, IsReplay
  <1>3. CASE ~IsReplay(d, c, q, scope)
    <2>1. a.kind = "idempotency_conflict"
      BY <1>3 DEF ClassifyCommand, Answer
    <2>2. \/ LegacyCommand(c)
          \/ c.event # q.event \/ c.text # q.text
          \/ ~SameAuthorization(d, c, q, scope)
      BY <1>1, <1>3, EvidenceMatches DEF Sound, Evident, IsReplay
    <2>3. QED
      BY <1>1, <2>1, <2>2 DEF Truth, StoredTruly, CreatedTruly, RefusedTruly, Told
  <1>4. QED
    BY <1>2, <1>3

\* A reply command is created soundly, with its evidence, and answered truly.
LEMMA CommandSound ==
  ASSUME NEW d \in Database, Sound(d), NEW q, NEW scope, q.kind = "create",
         NEW e \in Database, NEW a, Creates(d, q, scope, e, a)
  PROVE  Extends(d, e) /\ Sound(e) /\ Truth(e, q, scope, a)
  <1>1. CASE \E c \in FindCommands(d, q, scope) :
               e = d /\ a = ClassifyCommand(d, c, q, scope)
    BY <1>1, FoundTruly DEF Extends
  <1>2. CASE e = d /\ a = Answer("source_unavailable", 0)
    BY <1>2 DEF Extends, Truth, StoredTruly, CreatedTruly, RefusedTruly, Told, Answer
  <1>3. ASSUME FindCommands(d, q, scope) = {},
               NEW source \in EligibleSource(d, q, scope), NEW id \in 1..MaxCommandId,
               \A c \in d.commands : c.id < id,
               e = WithEvidence(d, d.commands \cup {CommandFrom(source, q, id)},
                     d.authorizations \cup {AuthorizationFrom(q, id, scope)},
                     d.eligibility \cup Eligibility(d, source, id)),
               a = Answer("created", id)
        PROVE  Extends(d, e) /\ Sound(e) /\ Truth(e, q, scope, a)
    <2> DEFINE k == CommandFrom(source, q, id)
               z == AuthorizationFrom(q, id, scope)
    <2>1. /\ e.events = d.events /\ e.registry = d.registry
          /\ e.commands = d.commands \cup {k} /\ e.authorizations = d.authorizations \cup {z}
          /\ e.eligibility = d.eligibility \cup Eligibility(d, source, id)
          /\ e.deliveries = d.deliveries
      BY <1>3, Replaced
    <2>2. /\ source \in d.events /\ source.conn = q.conn /\ source.event = q.event
          /\ source.conn \in scope
          /\ source.channel = "telegram_bot" =>
               source.chat = "private" /\ BoundBot(d, source.conn)
      BY DEF EligibleSource
    <2>3. /\ k.id = id /\ k.conn = source.conn /\ k.event = source.event /\ k.op = q.op
          /\ k.text = q.text /\ k.channel = source.channel
          /\ z.command = id /\ z.scope = scope
          /\ z = [command |-> k.id, inbox |-> q.inbox, authority |-> q.authority,
                  scope |-> scope]
      BY DEF CommandFrom, AuthorizationFrom
    <2>4. /\ \A g \in Eligibility(d, source, id) :
               g.command = id /\ source.channel = "telegram_bot"
          /\ source.channel = "telegram_bot" =>
               [command |-> id, account |-> d.registry[source.conn].account]
                 \in Eligibility(d, source, id)
      BY <2>2 DEF Eligibility, BoundBot
    <2> HIDE DEF k, z
    <2>5. \A c \in d.commands : ~(c.conn = k.conn /\ c.op = k.op) /\ c.id # id
      <3>1. \A c \in d.commands : ~(c.conn = k.conn /\ c.op = k.op)
        BY <1>3, <2>2, <2>3 DEF FindCommands, CommandsFor
      <3>2. \A c \in d.commands : c.id \in Nat
        BY TableTypes DEF CommandRow
      <3>3. QED
        BY <1>3, <3>1, <3>2
    <2>6. Extends(d, e)
      BY <2>1, <2>3, <2>5 DEF Extends
    <2>7. UniqueEvents(e)
      BY <2>1 DEF UniqueEvents, Sound
    <2>8. UniqueCommands(e)
      BY <2>1, <2>3, <2>5 DEF UniqueCommands, Sound
    <2>9. Attributed(e)
      BY <2>1, <2>3, <2>4 DEF Attributed, Sound
    <2>10. Evidence(e, k)
      BY <2>1, <2>2, <2>3, <2>4 DEF Evidence, SourcePrivate, BotEligibility, BoundBot
    <2>11. Sound(e)
      <3>1. e.commands # d.commands
        BY <2>1, <2>3, <2>5
      <3>2. \A c \in e.commands \ d.commands : Evidence(e, c)
        BY <2>1, <2>10
      <3>3. \A v \in e.deliveries \ d.deliveries : FALSE
        BY <2>1
      <3>4. QED
        BY <2>6, <2>7, <2>8, <2>9, <3>1, <3>2, <3>3, SoundRows
    <2>12. Truth(e, q, scope, a)
      <3>1. SameAuthorization(e, k, q, scope)
        BY <2>1, <2>3 DEF SameAuthorization
      <3>2. QED
        BY <1>3, <2>1, <2>2, <2>3, <3>1
        DEF Truth, StoredTruly, CreatedTruly, RefusedTruly, Told, Answer
    <2>13. QED
      BY <2>6, <2>11, <2>12
  <1>4. QED
    BY <1>1, <1>2, <1>3 DEF Creates

\* A delivery authorization is recorded soundly and answered truly, whatever
\* attempts the decision missed.
LEMMA DeliverySound ==
  ASSUME NEW d \in Database, Sound(d), NEW q, NEW scope, q.kind = "authorize",
         NEW e \in Database, NEW a, Authorizes(d, q, scope, e, a)
  PROVE  Extends(d, e) /\ Sound(e) /\ Truth(e, q, scope, a)
  <1>1. PICK seen \in SUBSET d.attempts :
          \/ \E v \in FindDeliveries(WithAttempts(d, seen), q, scope) :
               e = d /\ a = ClassifyDelivery(WithAttempts(d, seen), v, q, scope)
          \/ /\ FindDeliveries(WithAttempts(d, seen), q, scope) = {}
             /\ \/ /\ EligibleCommand(WithAttempts(d, seen), q, scope) = {}
                   /\ e = d /\ a = Answer("command_unavailable", 0)
                \/ \E c \in EligibleCommand(WithAttempts(d, seen), q, scope) :
                     /\ e = WithDeliveries(d, d.deliveries \cup {DeliveryFor(d, c, q, scope)})
                     /\ a = Answer("created", q.command)
    BY DEF Authorizes
  <1> DEFINE f == WithAttempts(d, seen)
  <1>2. /\ f.events = d.events /\ f.registry = d.registry /\ f.commands = d.commands
        /\ f.authorizations = d.authorizations /\ f.eligibility = d.eligibility
        /\ f.deliveries = d.deliveries
    BY Replaced
  <1> HIDE DEF f
  <1>3. Extends(d, d)
    BY DEF Extends
  <1>4. ASSUME NEW v \in FindDeliveries(f, q, scope), e = d,
               a = ClassifyDelivery(f, v, q, scope)
        PROVE  Truth(e, q, scope, a)
    <2>1. v \in d.deliveries /\ v.command = q.command
      BY <1>2 DEF FindDeliveries
    <2>2. \/ a.kind = "command_unavailable"
          \/ /\ a.kind = "idempotent_replay"
             /\ v.inbox = q.inbox /\ v.principal = q.principal /\ v.scope = scope
          \/ /\ a.kind = "authorization_conflict"
             /\ v.inbox # q.inbox \/ v.principal # q.principal \/ v.scope # scope
      BY <1>4 DEF ClassifyDelivery, Answer
    <2>3. QED
      BY <1>4, <2>1, <2>2 DEF Truth, StoredTruly, CreatedTruly, RefusedTruly, Told
  <1>5. ASSUME e = d, a = Answer("command_unavailable", 0) PROVE Truth(e, q, scope, a)
    BY <1>5 DEF Truth, StoredTruly, CreatedTruly, RefusedTruly, Told, Answer
  <1>6. ASSUME FindDeliveries(f, q, scope) = {}, NEW c \in EligibleCommand(f, q, scope),
               e = WithDeliveries(d, d.deliveries \cup {DeliveryFor(d, c, q, scope)}),
               a = Answer("created", q.command)
        PROVE  Extends(d, e) /\ Sound(e) /\ Truth(e, q, scope, a)
    <2> DEFINE v == DeliveryFor(d, c, q, scope)
    <2>1. /\ e.events = d.events /\ e.registry = d.registry /\ e.commands = d.commands
          /\ e.authorizations = d.authorizations /\ e.eligibility = d.eligibility
          /\ e.deliveries = d.deliveries \cup {v}
      BY <1>6, Replaced
    <2>2. /\ v.command = c.id /\ v.inbox = q.inbox /\ v.principal = q.principal
          /\ v.scope = scope /\ v.account = d.registry[c.conn].account
      BY DEF DeliveryFor
    <2> HIDE DEF v
    <2>3. /\ c \in d.commands /\ c.id = q.command /\ c.conn \in scope
          /\ c.channel = "telegram_bot" /\ c \in CommandInScope(f, q, scope)
      BY <1>2 DEF EligibleCommand, CommandInScope
    <2>4. /\ CommandAuthorizedFor(e, c.id, q.inbox, scope)
          /\ SourcePrivate(e, c) /\ BotEligibility(e, c)
      BY <1>2, <2>1 DEF EligibleCommand, CommandAuthorizedFor, SourcePrivate,
           BotEligibility, BoundBot
    <2>5. Backing(e, v, c)
      BY <2>1, <2>2, <2>3, <2>4 DEF Backing
    <2>6. \A w \in d.deliveries : w.command # v.command
      BY <1>2, <1>6, <2>2, <2>3 DEF FindDeliveries
    <2>7. Extends(d, e)
      BY <2>1 DEF Extends
    <2>8. UniqueEvents(e) /\ UniqueCommands(e)
      BY <2>1 DEF UniqueEvents, UniqueCommands, Sound
    <2>9. \A x \in e.deliveries \ d.deliveries :
            /\ \E y \in d.commands : Backing(e, x, y)
            /\ \A w \in e.deliveries : w.command = x.command => w = x
      BY <2>1, <2>3, <2>5, <2>6
    <2>10. Sound(e)
      BY <2>1, <2>7, <2>8, <2>9, SoundRows
    <2>11. Truth(e, q, scope, a)
      BY <1>6, <2>1, <2>2, <2>3
      DEF Truth, StoredTruly, CreatedTruly, RefusedTruly, Told, Answer
    <2>12. QED
      BY <2>7, <2>10, <2>11
  <1>7. QED
    BY <1>1, <1>3, <1>4, <1>5, <1>6 DEF f

\* Every operation, executed on sound rows, leaves sound rows that extend
\* them, and its answer is true.
LEMMA OperationSound ==
  ASSUME NEW d \in Database, Sound(d), NEW q \in Request, NEW cfg \in Config,
         NEW e \in Database, NEW a, Executed(d, q, cfg, e, a)
  PROVE  Extends(d, e) /\ Sound(e) /\ Truth(e, q, cfg.scope[q.inbox], a)
  <1> DEFINE scope == cfg.scope[q.inbox]
  <1>1. CASE q.kind = "append" /\ Stores(d, q.batch, cfg, e, a)
    <2>1. q.batch \in Seq(BatchEvent)
      BY <1>1, RequestTypes
    <2>2. \A i \in DOMAIN q.batch : EventRecorded(e, q.batch[i].conn, q.batch[i].event)
      BY <1>1, <2>1, BatchRecorded
    <2>3. a.kind = "stored"
      BY <1>1 DEF Stores, Answer
    <2>4. Truth(e, q, scope, a)
      BY <2>2, <2>3 DEF Truth, StoredTruly, CreatedTruly, RefusedTruly, Told
    <2>5. QED
      BY <1>1, <2>1, <2>4, BatchSound
  <1>2. CASE q.kind = "register" /\ Registers(d, cfg, e, a)
    <2>1. a.kind = "registered"
      BY <1>2 DEF Registers, Answer
    <2>2. Truth(e, q, scope, a)
      BY <2>1 DEF Truth, StoredTruly, CreatedTruly, RefusedTruly, Told
    <2>3. QED
      BY <1>2, <2>2, RegistrationSound
  <1>3. CASE q.kind = "create" /\ Creates(d, q, scope, e, a)
    BY <1>3, CommandSound
  <1>4. CASE q.kind = "authorize" /\ Authorizes(d, q, scope, e, a)
    BY <1>4, DeliverySound
  <1>5. QED
    BY <1>1, <1>2, <1>3, <1>4 DEF Executed

-----------------------------------------------------------------------------
(* The inductive invariant.                                                *)

EvidenceInv ==
  /\ SerialInv
  /\ Sound(db)
  /\ \A s \in Server : Truth(db, request[s], ScopeOf(s), answer[s])

\* The rows of older versions are sound: they hold no evidence yet.
LEMMA EvidenceInit == Init => EvidenceInv
  <1> SUFFICES ASSUME Init PROVE EvidenceInv
    OBVIOUS
  <1>1. db \in LegacyDatabases
    BY DEF Init
  <1>2. UniqueEvents(db) /\ UniqueCommands(db)
    BY <1>1, LedgerAssumption DEF LegacyAssumption, UniqueEvents, UniqueCommands
  <1>3. Attributed(db) /\ Backed(db)
    BY <1>1, LedgerAssumption DEF LegacyAssumption, Attributed, Backed
  <1>4. Evident(db)
    BY <1>1 DEF Evident, LegacyCommand
  <1>5. ASSUME NEW s \in Server PROVE Truth(db, request[s], ScopeOf(s), answer[s])
    <2>1. answer[s] = NoAnswer
      BY DEF Init
    <2>2. QED
      BY <2>1 DEF Truth, StoredTruly, CreatedTruly, RefusedTruly, Told
  <1>6. QED
    BY <1>2, <1>3, <1>4, <1>5, SerialInit DEF EvidenceInv, Sound

\* A request that is pending and executed extends sound rows soundly.
LEMMA PendingSound ==
  ASSUME EvidenceInv, TypeInv', NEW s \in Server, Serial!Pending(s), NEW a,
         Serial!Executes(db, request[s], config[s], db', a)
  PROVE  Extends(db, db') /\ Sound(db') /\ Truth(db', request[s], ScopeOf(s), a)
  <1>1. db \in Database /\ db' \in Database /\ config[s] \in Config
    BY DEF EvidenceInv, SerialInv, SafetyInv, TypeInv, TypeOK
  <1>2. request[s] \in Request
    BY DEF Serial!Pending, EvidenceInv, SerialInv, SafetyInv, TypeInv, TypeOK
  <1>3. Executed(db, request[s], config[s], db', a)
    BY SerialOperations
  <1>4. Sound(db)
    BY DEF EvidenceInv
  <1>5. QED
    BY <1>1, <1>2, <1>3, <1>4, OperationSound DEF ScopeOf

\* A step extends the rows soundly, and leaves true answers: a server keeps
\* its answer and what it answers, or its answer says nothing of the rows, or
\* it is the answer of an operation that is executed now.
LEMMA StepExtends ==
  ASSUME EvidenceInv, TypeInv', [Serial!Next]_(Serial!vars)
  PROVE  /\ Extends(db, db') /\ Sound(db')
         /\ \A s \in Server :
              \/ /\ request'[s] = request[s] /\ config'[s] = config[s]
                 /\ answer'[s] = answer[s]
              \/ ~Told(answer'[s], AnswerKind \ {"error"})
              \/ /\ request'[s] = request[s] /\ config'[s] = config[s]
                 /\ Truth(db', request[s], ScopeOf(s), answer'[s])
  <1> DEFINE Kept(s) == /\ request'[s] = request[s] /\ config'[s] = config[s]
                        /\ answer'[s] = answer[s]
             Silent(s) == ~Told(answer'[s], AnswerKind \ {"error"})
             Fresh(s) == /\ request'[s] = request[s] /\ config'[s] = config[s]
                         /\ Truth(db', request[s], ScopeOf(s), answer'[s])
             Rows == Extends(db, db') /\ Sound(db')
             Answers == \A s \in Server : Kept(s) \/ Silent(s) \/ Fresh(s)
  <1>0. /\ db \in Database /\ db' \in Database
        /\ config \in [Server -> Config] /\ answer \in [Server -> AnswerRecord \cup {NoAnswer}]
        /\ request \in [Server -> Request \cup {NoRequest}]
    BY DEF EvidenceInv, SerialInv, SafetyInv, TypeInv, TypeOK
  <1>1. db' = db => Rows
    BY DEF Extends, EvidenceInv
  <1>2. ASSUME NEW s \in Server, Serial!Start(s) \/ Serial!Receive(s) PROVE Rows /\ Answers
    <2>1. /\ db' = db /\ answer' = [answer EXCEPT ![s] = NoAnswer]
          /\ \A t \in Server \ {s} : request'[t] = request[t] /\ config'[t] = config[t]
      BY <1>0, <1>2 DEF Serial!Start, Serial!Receive
    <2>2. QED
      BY <1>0, <1>1, <2>1 DEF Told
  <1>3. ASSUME NEW s \in Server, Serial!InDoubt(s) PROVE Rows
    BY <1>1, <1>3, PendingSound DEF Serial!InDoubt
  <1>4. ASSUME NEW s \in Server, Serial!Fail(s) PROVE Rows /\ Answers
    <2>1. /\ answer' = [answer EXCEPT ![s] = Serial!Answer("error", 0)]
          /\ \A t \in Server \ {s} : request'[t] = request[t] /\ config'[t] = config[t]
          /\ Serial!InDoubt(s)
      BY <1>0, <1>4 DEF Serial!Fail
    <2>2. answer'[s].kind = "error" /\ \A t \in Server \ {s} : answer'[t] = answer[t]
      BY <1>0, <2>1 DEF Serial!Answer
    <2>3. Rows
      BY <1>3, <2>1
    <2>4. QED
      BY <2>1, <2>2, <2>3 DEF Told
  <1>5. ASSUME NEW s \in Server, Serial!Crash(s) PROVE Rows /\ Answers
    <2>1. /\ answer' = [answer EXCEPT ![s] = NoAnswer]
          /\ \A t \in Server \ {s} : request'[t] = request[t] /\ config'[t] = config[t]
          /\ Serial!InDoubt(s)
      BY <1>0, <1>5 DEF Serial!Crash
    <2>2. Rows
      BY <1>3, <2>1
    <2>3. QED
      BY <1>0, <2>1, <2>2 DEF Told
  <1>6. ASSUME NEW s \in Server, Serial!Succeed(s) PROVE Rows /\ Answers
    <2>1. PICK a \in Serial!Successes \cap {answer'[s]} :
            /\ answer' = [answer EXCEPT ![s] = a]
            /\ Serial!Executes(db, request[s], config[s], db', a)
      BY <1>6, Zenon DEF Serial!Succeed
    <2>2. /\ UNCHANGED <<config, request>> /\ Serial!Pending(s)
          /\ answer'[s] = a /\ \A t \in Server \ {s} : answer'[t] = answer[t]
      BY <1>0, <1>6, <2>1 DEF Serial!Succeed
    <2>3. Rows /\ Truth(db', request[s], ScopeOf(s), a)
      BY <2>1, <2>2, PendingSound
    <2>4. QED
      BY <2>2, <2>3
  <1>7. ASSUME Serial!RecordAttempt PROVE Rows /\ Answers
    <2>1. PICK c \in db.commands : db' = [db EXCEPT !.attempts = @ \cup {c.id}]
      BY <1>7 DEF Serial!RecordAttempt
    <2>2. SameButAttempts(db, db')
      BY <1>0, <2>1 DEF SameButAttempts, Database
    <2>3. Extends(db, db')
      BY <2>2 DEF SameButAttempts, Extends
    <2>4. UniqueEvents(db') /\ UniqueCommands(db')
      BY <2>2 DEF SameButAttempts, EvidenceInv, Sound, UniqueEvents, UniqueCommands
    <2>5. Sound(db')
      <3>1. /\ db'.commands = db.commands /\ db'.deliveries = db.deliveries
            /\ db'.authorizations = db.authorizations /\ db'.eligibility = db.eligibility
        BY <2>2 DEF SameButAttempts
      <3>2. QED
        BY <1>0, <2>3, <2>4, <3>1, SoundRows DEF EvidenceInv
    <2>6. QED
      BY <1>7, <2>3, <2>5 DEF Serial!RecordAttempt
  <1>8. ASSUME UNCHANGED (Serial!vars) PROVE Rows /\ Answers
    BY <1>1, <1>8 DEF Serial!vars
  <1>9. Rows /\ Answers
    <2> HIDE DEF Rows, Answers
    <2>1. QED
      BY <1>2, <1>4, <1>5, <1>6, <1>7, <1>8 DEF Serial!Next
  <1>10. QED
    BY <1>9

LEMMA EvidenceStep == EvidenceInv /\ [Next]_vars => EvidenceInv'
  <1> SUFFICES ASSUME EvidenceInv, [Next]_vars PROVE EvidenceInv'
    OBVIOUS
  <1>1. SerialInv' /\ [Serial!Next]_(Serial!vars)
    BY SerialStep, SerialRefines DEF EvidenceInv
  <1>2. TypeInv /\ TypeInv'
    BY <1>1 DEF EvidenceInv, SerialInv, SafetyInv
  <1>3. Extends(db, db') /\ Sound(db')
    BY <1>1, <1>2, StepExtends
  <1>4. ASSUME NEW s \in Server PROVE Truth(db, request[s], ScopeOf(s), answer[s])'
    <2>1. CASE /\ request'[s] = request[s] /\ config'[s] = config[s]
               /\ answer'[s] = answer[s]
      <3>1. Truth(db', request[s], ScopeOf(s), answer[s])
        BY <1>2, <1>3, TruthKeeps DEF EvidenceInv, TypeInv, TypeOK
      <3>2. QED
        BY <2>1, <3>1 DEF ScopeOf
    <2>2. CASE ~Told(answer'[s], AnswerKind \ {"error"})
      BY <2>2 DEF Told, AnswerKind, Truth, StoredTruly, CreatedTruly, RefusedTruly
    <2>3. CASE /\ request'[s] = request[s] /\ config'[s] = config[s]
               /\ Truth(db', request[s], ScopeOf(s), answer'[s])
      BY <2>3 DEF ScopeOf
    <2>4. QED
      BY <1>1, <1>2, <2>1, <2>2, <2>3, StepExtends
  <1>5. QED
    BY <1>1, <1>3, <1>4 DEF EvidenceInv

-----------------------------------------------------------------------------
(* Theorems.                                                               *)

\* No command this code wrote is ever visible without its evidence: the
\* authority and a scope that holds its connection and, for Telegram, a
\* private source and eligibility for the Bot the connection is bound to.
THEOREM CommandsEvident == Spec => []CommandsCarryEvidence
  <1>1. EvidenceInv => CommandsCarryEvidence
    BY DEF EvidenceInv, Sound, Evident, Evidence, CommandsCarryEvidence
  <1>2. QED
    BY <1>1, EvidenceInit, EvidenceStep, PTL DEF Spec

\* A delivery authorization stands on a command whose evidence it matches, and
\* names the Bot bound now; a command has at most one.
THEOREM DeliveriesBacked == Spec => []DeliveriesAreBacked
  <1>1. EvidenceInv => DeliveriesAreBacked
    BY DEF EvidenceInv, Sound, Backed, Backing, DeliveriesAreBacked
  <1>2. QED
    BY <1>1, EvidenceInit, EvidenceStep, PTL DEF Spec

\* The statement that offers an authorization, the one that records it and the
\* one that recognises it agree on all rows the stores can hold.
THEOREM StatementsConsistent == Spec => []StatementsAgree
  <1>1. ASSUME EvidenceInv, NEW scope, NEW i, NEW c \in db.commands, c.conn \in scope,
               NEW q, q = [command |-> c.id, inbox |-> i]
        PROVE  /\ HistoryOffersAuthorization(db, c, i, scope)
                    <=> EligibleCommand(db, q, scope) # {} /\ FindDeliveries(db, q, scope) = {}
               /\ \A v \in FindDeliveries(db, q, scope) :
                    EligibleNow(db, v, q, scope) <=> EligibleCommand(db, q, scope) # {}
    <2>1. q.command = c.id /\ q.inbox = i
      BY <1>1
    <2>2. CommandInScope(db, q, scope) = {c}
      BY <1>1, <2>1 DEF CommandInScope, EvidenceInv, Sound, UniqueCommands
    <2>3. FindDeliveries(db, q, scope) = {v \in db.deliveries : v.command = c.id}
      BY <2>1, <2>2 DEF FindDeliveries
    <2> DEFINE Ready == /\ c.channel = "telegram_bot"
                        /\ CommandAuthorizedFor(db, c.id, i, scope)
                        /\ SourcePrivate(db, c) /\ BotEligibility(db, c)
                        /\ c.id \notin db.attempts
    <2>4. EligibleCommand(db, q, scope) # {} <=> Ready
      BY <2>1, <2>2 DEF EligibleCommand
    <2>5. HistoryOffersAuthorization(db, c, i, scope)
            <=> Ready /\ FindDeliveries(db, q, scope) = {}
      BY <2>3 DEF HistoryOffersAuthorization
    <2>6. ASSUME NEW v \in FindDeliveries(db, q, scope)
          PROVE  EligibleNow(db, v, q, scope) <=> Ready
      <3>1. v \in db.deliveries /\ v.command = c.id
        BY <2>3
      <3>2. v.account = db.registry[c.conn].account
        BY <1>1, <3>1 DEF EvidenceInv, Sound, Backed, Backing, UniqueCommands
      <3>3. QED
        BY <2>1, <2>2, <3>2 DEF EligibleNow
    <2>7. QED
      BY <2>4, <2>5, <2>6
  <1>2. EvidenceInv => StatementsAgree
    BY <1>1 DEF StatementsAgree
  <1>3. QED
    BY <1>2, EvidenceInit, EvidenceStep, PTL DEF Spec

\* What a caller is told is true of the database and stays true until he asks
\* again: acknowledged rows are stored as asked for, and a conflict is one.
THEOREM AnswersTrue == Spec => []AnswersAreTrue
  <1>1. ASSUME EvidenceInv, NEW s \in Server
        PROVE  Truth(db, request[s], ScopeOf(s), answer[s])
    BY <1>1 DEF EvidenceInv
  <1>2. EvidenceInv => AnswersAreDurable
    BY <1>1 DEF AnswersAreDurable, Answered, Truth, StoredTruly, CreatedTruly, Told
  <1>3. EvidenceInv => ConflictsAreGenuine
    BY <1>1 DEF ConflictsAreGenuine, Answered, Truth, RefusedTruly, Told
  <1>4. QED
    BY <1>2, <1>3, EvidenceInit, EvidenceStep, PTL DEF Spec, AnswersAreTrue

\* Rows with unique identities that extend others above them.
Grown(old, rows, max) ==
  /\ old \subseteq rows
  /\ \A r \in rows : r.id \in 1..max /\ r.conn \in Conn
  /\ \A r1, r2 \in rows : r1.id = r2.id => r1 = r2
  /\ \A n \in rows \ old : \A o \in old : o.id < n.id

\* Typed rows above those a reader sees.
News(old, rows) == Stream(rows) \ Stream(old)
Appended(old, rows, max) ==
  /\ News(old, rows) \in SUBSET [id : 1..max, conn : Conn]
  /\ \A r1, r2 \in News(old, rows) : r1.id = r2.id => r1 = r2
  /\ \A n \in News(old, rows) : \A o \in Stream(old) : o.id < n.id
  /\ Stream(rows) = Stream(old) \cup News(old, rows)

\* Such rows are, for a reader, appended.
LEMMA RowsAppended ==
  ASSUME NEW old, NEW rows, NEW max, Grown(old, rows, max)
  PROVE  Appended(old, rows, max)
  <1>1. \A x \in Stream(rows) : \E r \in rows : x = [id |-> r.id, conn |-> r.conn]
    BY DEF Stream
  <1>2. \A x \in News(old, rows) :
          \E r \in rows \ old : x = [id |-> r.id, conn |-> r.conn]
    BY <1>1 DEF Stream, News
  <1>3. \A x \in Stream(old) : \E r \in old : x = [id |-> r.id, conn |-> r.conn]
    BY DEF Stream
  <1>4. Stream(rows) = Stream(old) \cup News(old, rows)
    BY DEF Stream, Grown, News
  <1>5. News(old, rows) \in SUBSET [id : 1..max, conn : Conn]
    BY <1>2 DEF Grown
  <1>6. \A r1, r2 \in News(old, rows) : r1.id = r2.id => r1 = r2
    BY <1>2 DEF Grown
  <1>7. \A n \in News(old, rows) : \A o \in Stream(old) : o.id < n.id
    BY <1>2, <1>3 DEF Grown
  <1>8. QED
    BY <1>4, <1>5, <1>6, <1>7 DEF Appended

\* A step appends to what a reader sees of events and of commands.
LEMMA StepAppends ==
  ASSUME EvidenceInv, [Next]_vars
  PROVE  /\ Appended(db.events, db'.events, MaxLedgerId)
         /\ Appended(db.commands, db'.commands, MaxCommandId)
  <1>1. EvidenceInv' /\ [Serial!Next]_(Serial!vars)
    BY EvidenceStep, SerialRefines DEF EvidenceInv
  <1>2. TypeInv' /\ db' \in Database /\ Sound(db')
    BY <1>1 DEF EvidenceInv, SerialInv, SafetyInv, TypeInv, TypeOK
  <1>3. Extends(db, db')
    BY <1>1, <1>2, StepExtends
  <1>4. /\ \A r \in db'.events : r.conn \in Conn
        /\ \A r \in db'.commands : r.conn \in Conn
    BY <1>2, TableTypes DEF EventRow, CommandRow
  <1>5. /\ \A n \in db'.events \ db.events : \A o \in db.events : o.id < n.id
        /\ \A n \in db'.commands \ db.commands : \A o \in db.commands : o.id < n.id
    BY StepsInOrder DEF EvidenceInv, SerialInv
  <1>6. /\ Grown(db.events, db'.events, MaxLedgerId)
        /\ Grown(db.commands, db'.commands, MaxCommandId)
    BY <1>2, <1>3, <1>4, <1>5 DEF Extends, Sound, UniqueEvents, UniqueCommands, Grown
  <1>7. QED
    BY <1>6, RowsAppended

\* At first a reader sees typed rows with unique identities.
LEMMA FirstRows ==
  ASSUME Init
  PROVE  /\ Stream(db.events) \in SUBSET [id : 1..MaxLedgerId, conn : Conn]
         /\ \A r1, r2 \in Stream(db.events) : r1.id = r2.id => r1 = r2
         /\ Stream(db.commands) \in SUBSET [id : 1..MaxCommandId, conn : Conn]
         /\ \A r1, r2 \in Stream(db.commands) : r1.id = r2.id => r1 = r2
  <1>1. db \in Database /\ Sound(db)
    BY EvidenceInit DEF EvidenceInv, SerialInv, SafetyInv, TypeInv, TypeOK
  <1>2. /\ Grown({}, db.events, MaxLedgerId) /\ Grown({}, db.commands, MaxCommandId)
    BY <1>1, TableTypes DEF Grown, Sound, UniqueEvents, UniqueCommands, EventRow, CommandRow
  <1>3. Stream({}) = {}
    BY DEF Stream
  <1>4. QED
    BY <1>2, <1>3, RowsAppended DEF Appended, News

\* Readers may rely on the event table as VisibleRows describes it: rows
\* appear above every row that is visible, with unique ids, and never change.
THEOREM EventRowsVisible == Spec => EventRowsSpec
  <1> DEFINE seen == Stream(db.events)
  <1>1. Init => EventRows!Init
    BY FirstRows DEF EventRows!Init, EventRows!Row, EventRows!UniqueIds
  <1>2. EvidenceInv /\ [Next]_vars => [EventRows!Next]_seen
    <2> SUFFICES ASSUME EvidenceInv, [Next]_vars PROVE [EventRows!Next]_seen
      OBVIOUS
    <2> DEFINE new == News(db.events, db'.events)
    <2>1. /\ new \in SUBSET [id : 1..MaxLedgerId, conn : Conn]
          /\ \A r1, r2 \in new : r1.id = r2.id => r1 = r2
          /\ \A n \in new : \A o \in seen : o.id < n.id
          /\ seen' = seen \cup new
      BY StepAppends DEF Appended
    <2> HIDE DEF new, seen
    <2>2. CASE new = {}
      BY <2>1, <2>2
    <2>3. CASE new # {}
      <3>1. EventRows!Append(new)
        BY <2>1 DEF EventRows!Append, EventRows!UniqueIds, seen
      <3>2. QED
        BY <2>1, <2>3, <3>1 DEF EventRows!Next, EventRows!Row
    <2>4. QED
      BY <2>2, <2>3
  <1>3. QED
    BY <1>1, <1>2, EvidenceInit, EvidenceStep, PTL DEF Spec, EventRowsSpec, EventRows!Spec

\* The same of the table of commands.
THEOREM CommandRowsVisible == Spec => CommandRowsSpec
  <1> DEFINE seen == Stream(db.commands)
  <1>1. Init => CommandRows!Init
    BY FirstRows DEF CommandRows!Init, CommandRows!Row, CommandRows!UniqueIds
  <1>2. EvidenceInv /\ [Next]_vars => [CommandRows!Next]_seen
    <2> SUFFICES ASSUME EvidenceInv, [Next]_vars PROVE [CommandRows!Next]_seen
      OBVIOUS
    <2> DEFINE new == News(db.commands, db'.commands)
    <2>1. /\ new \in SUBSET [id : 1..MaxCommandId, conn : Conn]
          /\ \A r1, r2 \in new : r1.id = r2.id => r1 = r2
          /\ \A n \in new : \A o \in seen : o.id < n.id
          /\ seen' = seen \cup new
      BY StepAppends DEF Appended
    <2> HIDE DEF new, seen
    <2>2. CASE new = {}
      BY <2>1, <2>2
    <2>3. CASE new # {}
      <3>1. CommandRows!Append(new)
        BY <2>1 DEF CommandRows!Append, CommandRows!UniqueIds, seen
      <3>2. QED
        BY <2>1, <2>3, <3>1 DEF CommandRows!Next, CommandRows!Row
    <2>4. QED
      BY <2>2, <2>3
  <1>3. QED
    BY <1>1, <1>2, EvidenceInit, EvidenceStep, PTL
    DEF Spec, CommandRowsSpec, CommandRows!Spec
=============================================================================
