----------------------------- MODULE HubTables -----------------------------
(***************************************************************************)
(* The tables of the schema open_channel_hub and the predicates its SQL    *)
(* statements evaluate over them (packages/storage-postgres/src).  Every   *)
(* operator here is a state function of a database value d; nothing in     *)
(* this module knows about connections to PostgreSQL, locks or processes.  *)
(*                                                                         *)
(* Data is abstracted to what the statements compare.  A provider identity *)
(* fingerprint is the account it is computed from; a scope fingerprint is  *)
(* the set of connections it hashes; an authorization kind is Bearer, or   *)
(* the dashboard principal that acted.                                     *)
(*                                                                         *)
(* A definition marked "Fault" is a plausible mistake in the definition it *)
(* precedes; nothing here uses it.  PROJECT.json pairs it with the         *)
(* property that detects it.                                               *)
(***************************************************************************)
EXTENDS Integers, Sequences, FiniteSets

CONSTANTS
  Conn,        \* connection ids
  Event,       \* provider event ids
  Operation,   \* client operation ids
  Text,        \* reply texts
  Inbox,       \* inbox ids
  Principal,   \* dashboard principals
  Account,     \* provider accounts behind a connection
  ChannelOf,   \* the channel of each account
  NoAccount,   \* a NULL provider_identity_fingerprint
  NoRow,       \* no row for this key
  Bearer       \* authorization_kind = 'inbox_bearer'

ASSUME TablesAssumption ==
  /\ ChannelOf \in [Account -> {"telegram_bot", "other"}]
  /\ NoAccount \notin Account
  /\ Bearer \notin Principal
  /\ NoRow \notin [channel : {"telegram_bot", "other"},
                   account : Account \cup {NoAccount}]

(***************************************************************************)
(* Row types.  "other" stands for every channel but telegram_bot: no       *)
(* statement of the stores tells them apart.  A chat type is "none" for    *)
(* those channels and "unknown" in Telegram rows older than migration      *)
(* 0012; "group" stands for every Telegram chat that is not private.       *)
(***************************************************************************)
Channel == {"telegram_bot", "other"}
ChatType == {"private", "group", "none", "unknown"}
AccountOrNull == Account \cup {NoAccount}
Authority == Principal \cup {Bearer}
Scope == SUBSET Conn

\* account is not a column: it records whose traffic the row really is.
EventRow == [id : Nat, conn : Conn, event : Event, channel : Channel,
             chat : ChatType, account : AccountOrNull]
RegistryRow == [channel : Channel, account : AccountOrNull]
CommandRow == [id : Nat, conn : Conn, event : Event, op : Operation,
               text : Text, channel : Channel]
AuthorizationRow == [command : Nat, inbox : Inbox, authority : Authority,
                     scope : Scope]
EligibilityRow == [command : Nat, account : Account]
DeliveryRow == [command : Nat, inbox : Inbox, principal : Principal,
                scope : Scope, account : Account]

Database ==
  [events : SUBSET EventRow,
   registry : [Conn -> RegistryRow \cup {NoRow}],
   commands : SUBSET CommandRow,
   authorizations : SUBSET AuthorizationRow,
   eligibility : SUBSET EligibilityRow,
   deliveries : SUBSET DeliveryRow,
   attempts : SUBSET Nat]

EmptyDatabase ==
  [events |-> {}, registry |-> [c \in Conn |-> NoRow], commands |-> {},
   authorizations |-> {}, eligibility |-> {}, deliveries |-> {},
   attempts |-> {}]

\* What a statement sees: the committed rows and its own transaction's.
Merge(d, w) ==
  [events |-> d.events \cup w.events,
   registry |-> [c \in Conn |-> IF w.registry[c] # NoRow THEN w.registry[c]
                                ELSE d.registry[c]],
   commands |-> d.commands \cup w.commands,
   authorizations |-> d.authorizations \cup w.authorizations,
   eligibility |-> d.eligibility \cup w.eligibility,
   deliveries |-> d.deliveries \cup w.deliveries,
   attempts |-> d.attempts \cup w.attempts]

-----------------------------------------------------------------------------
(* Inbound events and the connection registry.                             *)

EventRecorded(d, c, e) == \E r \in d.events : r.conn = c /\ r.event = e

HasHistory(d, c) == \E r \in d.events : r.conn = c

Registration(a) == [channel |-> ChannelOf[a], account |-> a]

\* Faults: history ignored, channel not compared, account not compared.
AcceptedOverHistory(d, c, a) ==
  IF d.registry[c] = NoRow THEN TRUE
  ELSE /\ d.registry[c].channel = ChannelOf[a]
       /\ d.registry[c].account \in {a, NoAccount}
AcceptedForAnyChannel(d, c, a) ==
  IF d.registry[c] = NoRow THEN ~HasHistory(d, c)
  ELSE \/ d.registry[c].account = a
       \/ d.registry[c].account = NoAccount /\ ~HasHistory(d, c)

AcceptedForAnyAccount(d, c, a) ==
  IF d.registry[c] = NoRow THEN ~HasHistory(d, c)
  ELSE d.registry[c].channel = ChannelOf[a]

\* UPSERT_CONNECTION_REGISTRATION_SQL returns the row.
RegistrationAccepted(d, c, a) ==
  LET row == d.registry[c] IN
  IF row = NoRow
  THEN ~HasHistory(d, c)
  ELSE /\ row.channel = ChannelOf[a]
       /\ \/ row.account = a
          \/ row.account = NoAccount /\ ~HasHistory(d, c)

-----------------------------------------------------------------------------
(* Reply commands.  q is a request [inbox, authority, conn, event, op,     *)
(* text], scope the connections of its inbox.                              *)

\* The registry holds a Telegram Bot binding for connection c.
BoundBot(d, c) ==
  /\ d.registry[c] # NoRow
  /\ d.registry[c].channel = "telegram_bot"
  /\ d.registry[c].account \in Account

\* Fault: group chats are not excluded.
SourceOfAnyChat(d, q, scope) ==
  {r \in d.events :
     /\ r.conn = q.conn /\ r.event = q.event /\ r.conn \in scope
     /\ r.channel # "telegram_bot" \/ BoundBot(d, r.conn)}

\* The rows of CTE eligible_source.
EligibleSource(d, q, scope) ==
  {r \in d.events :
     /\ r.conn = q.conn /\ r.event = q.event /\ r.conn \in scope
     /\ \/ r.channel # "telegram_bot"
        \/ r.chat = "private" /\ BoundBot(d, r.conn)}

CommandsFor(d, q) == {c \in d.commands : c.conn = q.conn /\ c.op = q.op}

\* FIND_IDEMPOTENCY_COMMAND_SQL.
FindCommands(d, q, scope) == {c \in CommandsFor(d, q) : c.conn \in scope}

SameAuthorization(d, c, q, scope) ==
  [command |-> c.id, inbox |-> q.inbox, authority |-> q.authority,
   scope |-> scope] \in d.authorizations

SourcePrivate(d, c) ==
  \E r \in d.events : r.conn = c.conn /\ r.event = c.event
                      /\ r.channel = "telegram_bot" /\ r.chat = "private"

\* Fault: eligibility is demanded of every channel.
EligibilityForEveryChannel(d, c) ==
  \E g \in d.eligibility : g.command = c.id

\* hasMatchingTelegramEligibility
MatchingEligibility(d, c) ==
  IF c.channel # "telegram_bot"
  THEN \A g \in d.eligibility : g.command # c.id
  ELSE /\ SourcePrivate(d, c)
       /\ d.registry[c.conn] # NoRow
       /\ \E g \in d.eligibility :
            g.command = c.id /\ g.account = d.registry[c.conn].account

\* Fault: the text is not compared.
ReplayOfAnyText(d, c, q, scope) ==
  /\ c.event = q.event
  /\ SameAuthorization(d, c, q, scope)
  /\ MatchingEligibility(d, c)

\* classifyExisting: the stored command is the one this request would make.
IsReplay(d, c, q, scope) ==
  /\ c.event = q.event
  /\ c.text = q.text
  /\ SameAuthorization(d, c, q, scope)
  /\ MatchingEligibility(d, c)

Answer(kind, id) == [kind |-> kind, command |-> id]

ClassifyCommand(d, c, q, scope) ==
  IF IsReplay(d, c, q, scope) THEN Answer("idempotent_replay", c.id)
  ELSE Answer("idempotency_conflict", 0)

-----------------------------------------------------------------------------
(* Telegram delivery authorizations.  q is a request [command, inbox,      *)
(* principal].  The conditions are written three times in the code, in     *)
(* three statements; they are three operators here.                        *)

CommandInScope(d, q, scope) ==
  {c \in d.commands : c.id = q.command /\ c.conn \in scope}

CommandAuthorizedFor(d, id, inbox, scope) ==
  \E a \in d.authorizations :
    a.command = id /\ a.inbox = inbox /\ a.scope = scope

BotEligibility(d, c) ==
  /\ BoundBot(d, c.conn)
  /\ [command |-> c.id, account |-> d.registry[c.conn].account]
       \in d.eligibility

\* Fault: any inbox that reads the connection may authorize.
EligibleForAnyInbox(d, q, scope) ==
  {c \in CommandInScope(d, q, scope) :
     /\ c.channel = "telegram_bot" /\ SourcePrivate(d, c)
     /\ BotEligibility(d, c) /\ c.id \notin d.attempts}

\* CTE eligible_command of INSERT_AUTHORIZATION_SQL.
EligibleCommand(d, q, scope) ==
  {c \in CommandInScope(d, q, scope) :
     /\ c.channel = "telegram_bot"
     /\ CommandAuthorizedFor(d, c.id, q.inbox, scope)
     /\ SourcePrivate(d, c)
     /\ BotEligibility(d, c)
     /\ c.id \notin d.attempts}

\* FIND_EXISTING_AUTHORIZATION_SQL: the stored rows, and the column
\* authorization_eligible_now of one of them.
FindDeliveries(d, q, scope) ==
  {v \in d.deliveries : v.command = q.command
                        /\ CommandInScope(d, q, scope) # {}}

EligibleNow(d, v, q, scope) ==
  \E c \in CommandInScope(d, q, scope) :
    /\ c.channel = "telegram_bot"
    /\ CommandAuthorizedFor(d, c.id, q.inbox, scope)
    /\ SourcePrivate(d, c)
    /\ BotEligibility(d, c)
    /\ v.account = d.registry[c.conn].account
    /\ c.id \notin d.attempts

ClassifyDelivery(d, v, q, scope) ==
  IF ~EligibleNow(d, v, q, scope) THEN Answer("command_unavailable", 0)
  ELSE IF v.inbox = q.inbox /\ v.principal = q.principal /\ v.scope = scope
       THEN Answer("idempotent_replay", v.command)
       ELSE Answer("authorization_conflict", 0)

\* Fault: attempted commands are still offered.
HistoryOffersAttempted(d, c, inbox, scope) ==
  /\ CommandAuthorizedFor(d, c.id, inbox, scope)
  /\ c.channel = "telegram_bot" /\ SourcePrivate(d, c) /\ BotEligibility(d, c)
  /\ \A v \in d.deliveries : v.command # c.id

\* COMMAND_HISTORY_COLUMNS_SQL: telegram_delivery_authorization_eligible, the
\* flag with which the dashboard offers the authorization of command c.
HistoryOffersAuthorization(d, c, inbox, scope) ==
  /\ CommandAuthorizedFor(d, c.id, inbox, scope)
  /\ c.channel = "telegram_bot"
  /\ SourcePrivate(d, c)
  /\ BotEligibility(d, c)
  /\ c.id \notin d.attempts
  /\ \A v \in d.deliveries : v.command # c.id
=============================================================================
