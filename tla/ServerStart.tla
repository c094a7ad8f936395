----------------------------- MODULE ServerStart -----------------------------
(***************************************************************************)
(* The start of the API process: its environment, the database, the        *)
(* document of its connections (RuntimeConfiguration), their registration, *)
(* the dashboard and the catalogs of the routes, which check once more     *)
(* what the loader has let through.  The first step that throws ends the   *)
(* process; what it has registered stays in the database.                  *)
(***************************************************************************)
EXTENDS RuntimeConfiguration

CONSTANTS
  Settings,    \* bound: environment variables, of the form of environmentSchema
  Earlier(_),  \* bound: rows an earlier start may have left, for those to come
  LegacyRow    \* the registration of the one Bot of the environment

VARIABLES
  environment, \* what parseEnvironment has returned
  registry,    \* connection_registry: pairs of an id and an account
  failure      \* the step that has thrown

startVars == <<phase, document, seen, environment, registry, failure>>

NoEnvironment == [mode |-> None, postgres |-> FALSE, google |-> FALSE]

Throws(step) == phase' = "failed" /\ failure' = step
Goes(next) == phase' = next /\ UNCHANGED failure

-----------------------------------------------------------------------------
(* The environment.  A group of variables is "none", "set", or wrong.      *)

\* dashboardGoogleOAuthEnvironmentFor: two different absolute paths or none.
GoogleOffends(e) == e.google \notin {"none", "set"}

\* postgresEnvironmentFor: all five variables or none.
PostgresOffends(e) == e.postgres \notin {"none", "set"}

SourceOffends(e) == e.source = "wrong" \/ (e.production /\ e.source = "none")

\* hasLegacyTelegramConfiguration: any trace of the one Bot.
LegacyTelegram(e) == e.telegram \/ \E part \in DOMAIN e.bot : e.bot[part] # "none"

DocumentOffends(e) == e.files # {"absolute"} \/ e.postgres = "none" \/ LegacyTelegram(e)

\* The webhook URL is optional; the operator bearer is not the webhook secret.
LegacyOffends(e) ==
  \/ \E part \in {"token", "operator", "secret"} : e.bot[part] # "set"
  \/ e.bot["url"] = "wrong" \/ e.shared
  \/ e.postgres = "none"

Mode(e) == IF e.files # {} THEN "document" ELSE IF e.telegram THEN "legacy" ELSE None

EnvironmentOffends(e) ==
  \/ GoogleOffends(e) \/ PostgresOffends(e) \/ SourceOffends(e)
  \/ e.production /\ e.postgres = "none"
  \/ Mode(e) = "document" /\ DocumentOffends(e)
  \/ Mode(e) = "legacy" /\ LegacyOffends(e)

ParseEnvironment ==
  /\ phase = "environment"
  /\ \E e \in Settings :
       IF EnvironmentOffends(e)
       THEN Throws("environment") /\ UNCHANGED environment
       ELSE /\ Goes("database")
            /\ environment' = [mode |-> Mode(e), postgres |-> e.postgres = "set",
                               google |-> e.google = "set"]
  /\ UNCHANGED <<document, seen, registry>>

-----------------------------------------------------------------------------
(* Registration.                                                           *)

\* The id of a connection and the provider identity its fingerprint stands for, as
\* the feature of its type makes them.
TelegramBotFeature(c) == <<c.id, <<"telegram_bot", c.account>>>>
ZaloOaFeature(c) == <<c.id, <<"zalo_oa", c.app, c.account>>>>
ZaloUserFeature(c) == <<c.id, <<"zalo_user", c.account>>>>
FacebookPageFeature(c) == <<c.id, <<"facebook_page", c.app, c.account>>>>
WhatsAppBusinessFeature(c) == <<c.id, <<"whatsapp_business", c.app, c.waba, c.account>>>>

Registration(c) ==
  CASE c.type = "telegram_bot"      -> TelegramBotFeature(c)
    [] c.type = "zalo_oa"           -> ZaloOaFeature(c)
    [] c.type = "zalo_user"         -> ZaloUserFeature(c)
    [] c.type = "facebook_page"     -> FacebookPageFeature(c)
    [] c.type = "whatsapp_business" -> WhatsAppBusinessFeature(c)

Registrations ==
  CASE environment.mode = "document" -> {Registration(c) : c \in Members(document.connections)}
    [] environment.mode = "legacy"   -> {LegacyRow}
    [] OTHER                         -> {}

\* An id that is registered stands for its account for ever.
Moves(rows, earlier) == \E r \in rows, e \in earlier : r[1] = e[1] /\ r[2] # e[2]

-----------------------------------------------------------------------------
(* The catalogs of the routes.  Each takes the features of its type in the *)
(* order of the document.                                                  *)

\* The positions of a type in the document, and its entries before one of them.
OfType(type) == {i \in DOMAIN document.connections : document.connections[i].type = type}
Before(i) ==
  {document.connections[j] : j \in {k \in OfType(document.connections[i].type) : k < i}}

\* The credentials a Meta catalog has noted before entry i.
Held(i) == UNION {{d.operator, d.key, d.hook} : d \in Before(i)}

\* Fault: the verify token is not compared with the secret of its own App.
MetaEntryRefusedLate(i) ==
  LET c == document.connections[i] IN
  \/ ~Identifier(c.id) \/ {c.operator, c.key, c.hook} \cap ShortSecret # {}
  \/ \E d \in Before(i) : d.id = c.id \/ d.account = c.account
  \/ c.operator \in Held(i)
  \/ \E d \in Before(i) : d.key = c.key /\ d.app = c.app /\ d.hook = c.hook

\* One entry of the loop of a Meta catalog: the App secret is noted before the
\* verify token is looked up.
MetaEntryRefused(i) ==
  LET c == document.connections[i] IN
  \/ ~Identifier(c.id) \/ {c.operator, c.key, c.hook} \cap ShortSecret # {}
  \/ \E d \in Before(i) : d.id = c.id \/ d.account = c.account
  \/ c.operator \in Held(i)
  \/ \E d \in Before(i) : d.app = c.app /\ <<d.key, d.hook>> # <<c.key, c.hook>>
  \/ /\ \A d \in Before(i) : d.app # c.app
     /\ c.key \in Held(i) \/ c.hook \in Held(i) \cup {c.key}

FacebookPagesRefused == \E i \in OfType("facebook_page") : MetaEntryRefused(i)

WhatsAppBusinessesRefused ==
  \E i \in OfType("whatsapp_business") :
    \/ MetaEntryRefused(i)
    \/ \E d \in Before(i) :
         d.waba = document.connections[i].waba /\ d.app # document.connections[i].app

TelegramBotsRefused ==
  \E i \in OfType("telegram_bot") :
    LET c == document.connections[i]
        credentials == UNION {{d.operator, d.hook} : d \in Before(i)} IN
    \/ ~Identifier(c.id) \/ c.operator \in ShortSecret \/ c.hook \notin WebhookSecret
    \/ \E d \in Before(i) : d.id = c.id
    \/ c.operator \in credentials \/ c.hook \in credentials

ZaloOasRefused ==
  \E i \in OfType("zalo_oa") :
    LET c == document.connections[i] IN
    \/ ~Identifier(c.id) \/ c.operator \in ShortSecret
    \/ \E d \in Before(i) :
         \/ d.id = c.id \/ d.operator = c.operator
         \/ d.app = c.app /\ d.account = c.account

ZaloUsersRefused ==
  \E i \in OfType("zalo_user") :
    LET c == document.connections[i] IN
    \/ ~Identifier(c.id) \/ {c.operator, c.key} \cap ShortSecret # {}
    \/ \E d \in Before(i) :
         \/ d.id = c.id \/ d.account = c.account
         \/ {d.operator, d.key} \cap {c.operator, c.key} # {}

InboxesRefused ==
  LET list == document.inboxes IN
  \/ Len(list) > MaxInboxes
  \/ \E i \in 1..Len(list) :
       LET b == list[i] IN
       \/ ~Identifier(b.id) \/ b.token \in ShortSecret
       \/ Len(b.connections) \notin 1..MaxConnections \/ ~Distinct(b.connections)
       \/ \E j \in 1..(i - 1) : list[j].id = b.id \/ list[j].token = b.token

CatalogsRefuse ==
  \/ FacebookPagesRefused \/ WhatsAppBusinessesRefused \/ TelegramBotsRefused
  \/ ZaloOasRefused \/ ZaloUsersRefused \/ InboxesRefused

-----------------------------------------------------------------------------
(* The dashboard: what each operator can reach.                            *)

InboxIds == {b.id : b \in Members(document.inboxes)}
Principals == Members(document.dashboard.principals)

ReplyInboxes(p) == Members(p.replies)
DeliveryInboxes(p) == Members(p.deliveries)

PrincipalRefused(p) ==
  \/ ~(Members(p.inboxes) \cup ReplyInboxes(p) \cup DeliveryInboxes(p) \subseteq InboxIds)
  \/ ~(Members(p.replies) \cup Members(p.deliveries) \subseteq Members(p.inboxes))

DashboardRefused ==
  \/ ~Distinct(PrincipalIds(document.dashboard))
  \/ \E p \in Principals : PrincipalRefused(p)
  \/ document.dashboard.bootstrap \notin Members(PrincipalIds(document.dashboard)) \cup {None}

-----------------------------------------------------------------------------
StartInit ==
  /\ phase = "environment" /\ failure = None
  /\ document = [connections |-> <<>>, inboxes |-> <<>>, dashboard |-> NoDashboard]
  /\ seen = NothingSeen
  /\ environment = NoEnvironment /\ registry = {}

\* createPostgresDatabase and checkReadiness, then the file of the document.
CheckDatabase ==
  /\ phase = "database"
  /\ \/ environment.postgres /\ Throws("database")
     \/ environment.mode = "document" /\ Throws("file")
     \/ Goes(IF environment.mode = "document" THEN "connections" ELSE "unread")
  /\ UNCHANGED <<document, seen, environment, registry>>

Load ==
  /\ LoaderNext
  /\ UNCHANGED <<environment, registry, failure>>

\* ensureRegistered: one transaction for all connections; the acknowledgement of
\* its COMMIT may be lost.
Register ==
  /\ phase \in {"accepted", "unread"}
  /\ \E earlier \in Earlier(Registrations) :
       IF Moves(Registrations, earlier)
       THEN registry' = earlier /\ Throws("registry")
       ELSE registry' = earlier \cup Registrations /\ (Goes("registered") \/ Throws("registry"))
  /\ UNCHANGED <<document, seen, environment>>

\* The dashboard signs in with Google only, and Google is of no other use.
Compose ==
  /\ phase = "registered"
  /\ IF environment.google # (document.dashboard # NoDashboard) THEN Throws("google")
     ELSE \/ environment.google /\ Throws("file")
          \/ IF document.dashboard # NoDashboard /\ DashboardRefused
             THEN Throws("catalog") ELSE Goes("composed")
  /\ UNCHANGED <<document, seen, environment, registry>>

\* buildApp
BuildApp ==
  /\ phase = "composed"
  /\ IF CatalogsRefuse THEN Throws("catalog") ELSE Goes("built")
  /\ UNCHANGED <<document, seen, environment, registry>>

\* app.listen: the port may be taken.
Listen ==
  /\ phase = "built"
  /\ Goes("listening") \/ Throws("port")
  /\ UNCHANGED <<document, seen, environment, registry>>

StartNext ==
  \/ ParseEnvironment \/ CheckDatabase \/ Load \/ Register \/ Compose \/ BuildApp \/ Listen

StartSpec == StartInit /\ [][StartNext]_startVars

-----------------------------------------------------------------------------
\* The five catalogs, the inbox catalog and the dashboard check on their own, and
\* by other comparisons, what the loader has checked: they never turn down a
\* document the loader accepts, but for an App whose secret is its verify token,
\* which each catalog of a Meta product refuses and the loader does not.
CatalogsAgree ==
  /\ failure = "catalog" =>
       \E c \in Members(document.connections) : c.type \in Meta /\ c.key = c.hook
  /\ phase = "listening" =>
       \A c \in Members(document.connections) : c.type \in Meta => c.key # c.hook

\* A process that serves has every connection of its document registered with its
\* account, and no other account under that id, whatever an earlier start, even
\* one that failed after it had registered, has left in the table.
ServedAreRegistered ==
  phase = "listening" =>
    \A row \in Registrations :
      row \in registry /\ \A other \in registry : other[1] = row[1] => other = row

\* docs/operations/facebook-page-3b.md: the App secret, the verify token and the
\* operator bearer must be distinct.  The loader does not see that the first two
\* are equal; the start fails only after the connection has been registered.
RegisteredAreDistinct ==
  \A c \in Members(document.connections) :
    c.type \in Meta /\ Registration(c) \in registry
      => Cardinality({c.key, c.hook, c.operator}) = 3
=============================================================================
