------------------------- MODULE RuntimeConfiguration -------------------------
(***************************************************************************)
(* The loader of the runtime document.  It reads the connections one by    *)
(* one, compares each with registries of what it has read so far, then the *)
(* inboxes and the dashboard, and refuses the whole document at the first  *)
(* offence.                                                                *)
(*                                                                         *)
(* Secrets, identifiers and host names are values of which only what the   *)
(* loader asks of them is known.  The sorting of lists of ids is left out: *)
(* all that is asked of them is what they contain.  A document is revealed *)
(* entry by entry: documents with the same beginning share their states.   *)
(***************************************************************************)
EXTENDS Integers, Sequences, FiniteSets

CONSTANTS
  ShortSecret,         \* printable values of fewer than 32 characters
  BotToken,            \* values that begin with a Bot number and a colon
  WebhookSecret,       \* values of [A-Za-z0-9_-]{32,256}
  PublicName,          \* host names with a dot and no private suffix
  HomeName,            \* those of them only the dashboard calls private
  PublicIpv6,          \* literals that pass isPublicIpv6Address
  MaxConnections,      \* MAXIMUM_CONNECTIONS
  MaxInboxes,          \* MAXIMUM_INBOXES
  MaxPrincipals,       \* MAXIMUM_DASHBOARD_PRINCIPALS
  NextConnections(_),  \* bound: entries that may follow a list of connections
  NextInboxes(_),      \* bound: entries that may follow in a document
  NextDashboards(_)    \* bound: dashboards a document may have

ASSUME LoaderAssumption ==
  /\ BotToken \cap WebhookSecret = {} /\ ShortSecret \cap WebhookSecret = {}
  /\ HomeName \subseteq PublicName
  /\ MaxConnections \in Nat \ {0} /\ MaxInboxes \in Nat \ {0}
  /\ MaxPrincipals \in Nat \ {0}

VARIABLES
  phase,     \* the section being read, or the verdict
  document,  \* what has been read, with the entry that was refused
  seen       \* the registries of parseRuntimeConnectionConfiguration

loaderVars == <<phase, document, seen>>

Meta == {"facebook_page", "whatsapp_business"}
None == "none"
NoUrl == [path |-> None, host |-> [name |-> None, octets |-> <<>>]]
NoDashboard == [keys |-> <<>>]

Members(list) == {list[i] : i \in 1..Len(list)}
Distinct(list) == \A i, j \in 1..Len(list) : list[i] = list[j] => i = j

-----------------------------------------------------------------------------
(* Shape of single values.                                                 *)

\* isConnectionId, isInboxId and isDashboardPrincipalId.
Identifier(id) == id \notin {"", ".", ".."}

\* Fault: of the carrier block 100.64.0.0/10 only the first /16 is refused.
PublicIpv4NarrowCarrier(o) ==
  /\ o[1] \notin {0, 10, 127} /\ o[1] < 224
  /\ o[1] = 100 => o[2] # 64
  /\ o[1] = 169 => o[2] # 254
  /\ o[1] = 172 => o[2] \notin 16..31
  /\ o[1] = 192 => o[2] # 168 /\ ~(o[2] = 0 /\ o[3] \in {0, 2})
  /\ o[1] = 198 => o[2] \notin {18, 19, 51}
  /\ o[1] = 203 => ~(o[2] = 0 /\ o[3] = 113)

\* isPublicIpv4Address
PublicIpv4(o) ==
  /\ o[1] \notin {0, 10, 127} /\ o[1] < 224
  /\ o[1] = 100 => o[2] \notin 64..127
  /\ o[1] = 169 => o[2] # 254
  /\ o[1] = 172 => o[2] \notin 16..31
  /\ o[1] = 192 => o[2] # 168 /\ ~(o[2] = 0 /\ o[3] \in {0, 2})
  /\ o[1] = 198 => o[2] \notin {18, 19, 51}
  /\ o[1] = 203 => ~(o[2] = 0 /\ o[3] = 113)

\* A host is a name or an IPv6 literal, or the first octets of an IPv4 literal.
PublicHostname(host) ==
  IF host.octets = <<>> THEN host.name \in PublicName \cup PublicIpv6
  ELSE PublicIpv4(host.octets)

\* isAllowedDashboardOrigin: the loopback origin is the one exception.
AllowedOrigin(o) ==
  \/ o.scheme = "https" /\ o.host.name \in PublicName \ HomeName
  \/ o.scheme \in {"http", "https"} /\ o.host.name = "localhost" /\ o.port # "0"

\* The paths a webhook of a connection may be registered under.
Paths(c) ==
  CASE c.type = "telegram_bot"      -> {"telegram-bot/" \o c.id}
    [] c.type = "zalo_oa"           -> {"zalo-oa"}
    [] c.type = "zalo_user"         -> {}
    [] c.type = "facebook_page"     -> {"facebook-page", "meta"}
    [] c.type = "whatsapp_business" -> {"whatsapp-business", "meta"}

ValidUrl(c) ==
  c.url # NoUrl => c.url.path \in Paths(c) /\ PublicHostname(c.url.host)

\* The parsers of the types.  operator: the operator bearer.  key: Bot token, OA
\* secret, bridge token or App secret.  hook: webhook secret or verify token.  The
\* secret of an OA may have any length.
TelegramBot(c) == c.type = "telegram_bot" /\ c.key \in BotToken /\ c.hook \in WebhookSecret
ZaloOa(c) == c.type = "zalo_oa"
ZaloUser(c) == c.type = "zalo_user" /\ c.key \notin ShortSecret
FacebookPage(c) == c.type = "facebook_page" /\ {c.key, c.hook} \cap ShortSecret = {}
WhatsAppBusiness(c) == c.type = "whatsapp_business" /\ {c.key, c.hook} \cap ShortSecret = {}

\* parseConnection
WellFormed(c) ==
  /\ Identifier(c.id)
  /\ c.operator \notin ShortSecret
  /\ TelegramBot(c) \/ ZaloOa(c) \/ ZaloUser(c) \/ FacebookPage(c) \/ WhatsAppBusiness(c)
  /\ ValidUrl(c)

-----------------------------------------------------------------------------
(* The registries.                                                         *)

NothingSeen ==
  [ids |-> {}, exclusive |-> {}, oa |-> {}, meta |-> {}, accounts |-> {},
   apps |-> {}, wabas |-> {}, channels |-> {}, urls |-> {},
   inboxes |-> {}, tokens |-> {}]

Taken(s) == s.exclusive \cup s.oa \cup s.meta

\* What must be configured once: the pair of an OA, the account of a bridge, a
\* Page, a business phone.
Account(c) ==
  IF c.type = "zalo_oa" THEN <<c.type, c.app, c.account>> ELSE <<c.type, "", c.account>>

\* The App of a Meta entry is known, with its secret and its verify token.
KnownApp(c, s) == \E a \in s.apps : a.app = c.app
SameApp(c, s) == [app |-> c.app, key |-> c.key, hook |-> c.hook] \in s.apps

\* Fault: the secret of an OA is not compared with those of Meta Apps.
CollidesOaApart(c, s) ==
  \/ c.operator \in Taken(s)
  \/ LET taken == Taken(s) \cup {c.operator} IN
     CASE c.type = "telegram_bot" -> c.key \in taken \/ c.hook \in taken \cup {c.key}
       [] c.type = "zalo_oa" -> c.key \in s.exclusive \cup {c.operator}
       [] c.type = "zalo_user" -> c.key \in taken
       [] OTHER -> IF KnownApp(c, s) THEN ~SameApp(c, s)
                   ELSE c.key \in taken \/ c.hook \in taken

\* A secret of an entry is in use already, in the order of the code: first the
\* operator bearer, then the others, which may not equal it either.  OAs may
\* share their secret.  The secrets of an App must be those of its first entry,
\* and are compared with other secrets there, but not with each other.
Collides(c, s) ==
  \/ c.operator \in Taken(s)
  \/ LET taken == Taken(s) \cup {c.operator} IN
     CASE c.type = "telegram_bot" -> c.key \in taken \/ c.hook \in taken \cup {c.key}
       [] c.type = "zalo_oa" -> c.key \in s.exclusive \cup {c.operator} \cup s.meta
       [] c.type = "zalo_user" -> c.key \in taken
       [] OTHER -> IF KnownApp(c, s) THEN ~SameApp(c, s)
                   ELSE c.key \in taken \/ c.hook \in taken

\* One WABA belongs to one App.
WabaMoves(c, s) ==
  c.type = "whatsapp_business" /\ \E w \in s.wabas : w[1] = c.waba /\ w[2] # c.app

RefusesConnection(c, s) ==
  \/ ~WellFormed(c)
  \/ c.id \in s.ids
  \/ Collides(c, s)
  \/ c.type # "telegram_bot" /\ Account(c) \in s.accounts
  \/ WabaMoves(c, s)

\* The registries after an entry that was not refused.
Recorded(c, s) ==
  [s EXCEPT
    !.ids = @ \cup {c.id},
    !.exclusive = @ \cup {c.operator} \cup
      (CASE c.type = "telegram_bot" -> {c.key, c.hook}
         [] c.type = "zalo_user" -> {c.key}
         [] OTHER -> {}),
    !.oa = IF c.type = "zalo_oa" THEN @ \cup {c.key} ELSE @,
    !.meta = IF c.type \in Meta THEN @ \cup {c.key, c.hook} ELSE @,
    !.apps = IF c.type \in Meta
             THEN @ \cup {[app |-> c.app, key |-> c.key, hook |-> c.hook]} ELSE @,
    !.accounts = IF c.type = "telegram_bot" THEN @ ELSE @ \cup {Account(c)},
    !.wabas = IF c.type = "whatsapp_business" THEN @ \cup {<<c.waba, c.app>>} ELSE @,
    !.channels = IF c.type \in Meta THEN @ \cup {<<c.app, c.type>>} ELSE @,
    !.urls = IF c.type \in Meta /\ c.url # NoUrl THEN @ \cup {<<c.app, c.url>>} ELSE @]

\* Fault: each App is looked at for a foreign path only.
SplitsApisAnyHost(s) ==
  \E app \in {a.app : a \in s.apps} :
    /\ \A type \in Meta : <<app, type>> \in s.channels
    /\ \E u \in s.urls : u[1] = app /\ u[2].path # "meta"

\* After the last entry: an App that serves both products has one webhook URL
\* at most, with the shared path.
SplitsApis(s) ==
  \E app \in {a.app : a \in s.apps} :
    /\ \A type \in Meta : <<app, type>> \in s.channels
    /\ \E u, v \in s.urls : u[1] = app /\ v[1] = app /\ (u # v \/ u[2].path # "meta")

-----------------------------------------------------------------------------
(* Inboxes and the dashboard.                                              *)

RefusesInbox(b, s) ==
  \/ ~Identifier(b.id) \/ b.token \in ShortSecret
  \/ b.connections = <<>> \/ Len(b.connections) > MaxConnections
  \/ ~Distinct(b.connections) \/ ~(Members(b.connections) \subseteq s.ids)
  \/ b.id \in s.inboxes \/ b.token \in s.tokens \/ b.token \in Taken(s)

\* A grant is a part of the readable inboxes.
RefusesGrant(list, p, s) ==
  \/ ~Distinct(list) \/ Len(list) > MaxInboxes
  \/ ~(Members(list) \subseteq s.inboxes \cap Members(p.inboxes))

RefusesReplies(p, s) == RefusesGrant(p.replies, p, s)
RefusesDeliveries(p, s) == RefusesGrant(p.deliveries, p, s)

\* parseDashboardPrincipal
RefusesPrincipal(p, s) ==
  \/ ~Identifier(p.id)
  \/ p.inboxes = <<>> \/ Len(p.inboxes) > MaxInboxes
  \/ ~Distinct(p.inboxes) \/ ~(Members(p.inboxes) \subseteq s.inboxes)
  \/ RefusesReplies(p, s) \/ RefusesDeliveries(p, s)

\* parseDashboardSecrets
DashboardSecretsTaken(d, s) ==
  \/ d.pepper \in ShortSecret \/ Members(d.keys) \cap ShortSecret # {}
  \/ ~Distinct(d.keys) \/ d.pepper \in Members(d.keys)
  \/ (Members(d.keys) \cup {d.pepper}) \cap (Taken(s) \cup s.tokens) # {}

PrincipalIds(d) == [i \in 1..Len(d.principals) |-> d.principals[i].id]

RefusesPrincipals(d, s) ==
  \/ d.principals = <<>> \/ Len(d.principals) > MaxPrincipals
  \/ ~Distinct(PrincipalIds(d))
  \/ \E p \in Members(d.principals) : RefusesPrincipal(p, s)

\* The one operator who may bind his Google account by himself is one of them.
RefusesBootstrap(d) == d.bootstrap # None /\ d.bootstrap \notin Members(PrincipalIds(d))

RefusesDashboard(d, s) ==
  \/ s.inboxes = {}
  \/ Len(d.keys) \notin 1..2
  \/ ~AllowedOrigin(d.origin)
  \/ DashboardSecretsTaken(d, s)
  \/ RefusesPrincipals(d, s) \/ RefusesBootstrap(d)

-----------------------------------------------------------------------------
LoaderInit ==
  /\ phase = "connections"
  /\ document = [connections |-> <<>>, inboxes |-> <<>>, dashboard |-> NoDashboard]
  /\ seen = NothingSeen

\* One entry of the loop over the connections.
ReadConnection ==
  /\ phase = "connections"
  /\ \E c \in NextConnections(document.connections) :
       /\ document' = [document EXCEPT !.connections = Append(@, c)]
       /\ IF Len(document.connections) = MaxConnections \/ RefusesConnection(c, seen)
          THEN phase' = "refused" /\ UNCHANGED seen
          ELSE phase' = phase /\ seen' = Recorded(c, seen)

\* The loop over the Apps; a document without connections is refused.
EndConnections ==
  /\ phase = "connections"
  /\ phase' = IF document.connections = <<>> \/ SplitsApis(seen)
              THEN "refused" ELSE "inboxes"
  /\ UNCHANGED <<document, seen>>

ReadInbox ==
  /\ phase = "inboxes"
  /\ \E b \in NextInboxes(document) :
       /\ document' = [document EXCEPT !.inboxes = Append(@, b)]
       /\ IF Len(document.inboxes) = MaxInboxes \/ RefusesInbox(b, seen)
          THEN phase' = "refused" /\ UNCHANGED seen
          ELSE /\ phase' = phase
               /\ seen' = [seen EXCEPT !.inboxes = @ \cup {b.id},
                                       !.tokens = @ \cup {b.token}]

EndInboxes ==
  /\ phase = "inboxes" /\ phase' = "dashboard"
  /\ UNCHANGED <<document, seen>>

ReadDashboard ==
  /\ phase = "dashboard"
  /\ \E d \in NextDashboards(document) :
       /\ document' = [document EXCEPT !.dashboard = d]
       /\ phase' = IF RefusesDashboard(d, seen) THEN "refused" ELSE "accepted"
  /\ UNCHANGED seen

NoDashboardGiven ==
  /\ phase = "dashboard" /\ phase' = "accepted"
  /\ UNCHANGED <<document, seen>>

LoaderNext ==
  \/ ReadConnection \/ EndConnections \/ ReadInbox \/ EndInboxes
  \/ ReadDashboard \/ NoDashboardGiven

LoaderSpec == LoaderInit /\ [][LoaderNext]_loaderVars

-----------------------------------------------------------------------------
(* What a document means, without registries and without order.            *)

\* Each use of a secret: the value and the role it plays.  A bearer selects
\* the entry it stands in; all OAs share one role, and an App is one role with
\* its secret and its verify token.
ConnectionUses(i, c) ==
  {<<c.operator, <<"operator", i>>>>} \cup
  (CASE c.type = "telegram_bot" -> {<<c.key, <<"bot", i>>>>, <<c.hook, <<"hook", i>>>>}
     [] c.type = "zalo_oa"      -> {<<c.key, <<"oa", 0>>>>}
     [] c.type = "zalo_user"    -> {<<c.key, <<"bridge", i>>>>}
     [] OTHER                   -> {<<c.key, <<"app", c.app>>>>, <<c.hook, <<"app", c.app>>>>})

DashboardUses(d) ==
  IF d = NoDashboard THEN {}
  ELSE {<<d.keys[i], <<"key", i>>>> : i \in 1..Len(d.keys)}
       \cup {<<d.pepper, <<"pepper", 0>>>>}

Uses(doc) ==
  (UNION {ConnectionUses(i, doc.connections[i]) : i \in 1..Len(doc.connections)})
  \cup {<<doc.inboxes[i].token, <<"inbox", i>>>> : i \in 1..Len(doc.inboxes)}
  \cup DashboardUses(doc.dashboard)

Separated(uses) == \A u, v \in uses : u[1] = v[1] => u[2] = v[2]

\* Whatever a caller presents, it is the secret of one role: no bearer of one
\* connection, inbox or bridge selects another, verifies a webhook or signs a
\* session, although the loader compares each secret only with those before it,
\* kept in three registries of which each type of connection consults its own
\* selection.
CredentialsSeparated == phase # "refused" => Separated(Uses(document))

\* Two connections that cannot be configured together.
Clash(c, d) ==
  \/ c.id = d.id
  \/ c.type # "telegram_bot" /\ Account(c) = Account(d)
  \/ c.type \in Meta /\ d.type \in Meta /\ c.app = d.app /\ <<c.key, c.hook>> # <<d.key, d.hook>>
  \/ c.type = "whatsapp_business" /\ d.type = c.type /\ c.waba = d.waba /\ c.app # d.app

\* An App that serves both products and has a URL not shared by all its entries.
SplitApp(list) ==
  \E c, d, e \in Members(list) :
    /\ c.type = "facebook_page" /\ d.type = "whatsapp_business" /\ c.app = d.app
    /\ e.type \in Meta /\ e.app = c.app /\ e.url # NoUrl
    /\ \/ e.url.path # "meta"
       \/ \E f \in Members(list) : f.type \in Meta /\ f.app = c.app /\ f.url \notin {NoUrl, e.url}

ConnectionsOffend(list) ==
  \/ Len(list) \notin 1..MaxConnections
  \/ \E c \in Members(list) : ~WellFormed(c)
  \/ \E i, j \in 1..Len(list) : i # j /\ Clash(list[i], list[j])
  \/ SplitApp(list)

InboxesOffend(list, known) ==
  \/ Len(list) > MaxInboxes
  \/ ~Distinct([i \in 1..Len(list) |-> list[i].id])
  \/ \E b \in Members(list) :
       \/ ~Identifier(b.id) \/ b.token \in ShortSecret
       \/ Len(b.connections) # Cardinality(Members(b.connections) \cap known)
       \/ Len(b.connections) \notin 1..MaxConnections

\* What an operator may do, he may do in an inbox he reads.
DashboardOffends(d, known) ==
  \/ known = {} \/ ~AllowedOrigin(d.origin)
  \/ Len(d.keys) \notin 1..2
  \/ (Members(d.keys) \cup {d.pepper}) \cap ShortSecret # {}
  \/ Len(d.principals) \notin 1..MaxPrincipals \/ ~Distinct(PrincipalIds(d))
  \/ d.bootstrap # None /\ d.bootstrap \notin Members(PrincipalIds(d))
  \/ \E p \in Members(d.principals) :
       \/ ~Identifier(p.id) \/ p.inboxes = <<>>
       \/ \E list \in {p.inboxes, p.replies, p.deliveries} :
            Len(list) # Cardinality(Members(list) \cap Members(p.inboxes) \cap known)

Offends(doc) ==
  \/ ConnectionsOffend(doc.connections)
  \/ InboxesOffend(doc.inboxes, {c.id : c \in Members(doc.connections)})
  \/ doc.dashboard # NoDashboard
     /\ DashboardOffends(doc.dashboard, {b.id : b \in Members(doc.inboxes)})
  \/ ~Separated(Uses(doc))

\* The verdict does not depend on the order of the entries: what was accepted has
\* no offence, neither of one entry nor of any two or three of them, and what was
\* refused has one, so no usable document is turned down.
VerdictIsPairwise ==
  /\ phase = "accepted" => ~Offends(document)
  /\ phase = "refused" => Offends(document)

\* The blocks no webhook can be reached at, by their first three octets as a
\* number: this network, private use, carrier, loopback, link local, protocol
\* assignments, documentation, benchmarks, multicast and the rest of the space.
Prefix(o) == (o[1] * 256 + o[2]) * 256 + o[3]
Reserved ==
  {<<<<0, 0, 0>>, <<0, 255, 255>>>>, <<<<10, 0, 0>>, <<10, 255, 255>>>>,
   <<<<100, 64, 0>>, <<100, 127, 255>>>>, <<<<127, 0, 0>>, <<127, 255, 255>>>>,
   <<<<169, 254, 0>>, <<169, 254, 255>>>>, <<<<172, 16, 0>>, <<172, 31, 255>>>>,
   <<<<192, 0, 0>>, <<192, 0, 0>>>>, <<<<192, 0, 2>>, <<192, 0, 2>>>>,
   <<<<192, 168, 0>>, <<192, 168, 255>>>>, <<<<198, 18, 0>>, <<198, 19, 255>>>>,
   <<<<198, 51, 100>>, <<198, 51, 100>>>>, <<<<203, 0, 113>>, <<203, 0, 113>>>>,
   <<<<224, 0, 0>>, <<255, 255, 255>>>>}

\* The webhook of an accepted connection, if its host is an address, is outside
\* every reserved block: the octet tests of isPublicIpv4Address cover the blocks.
AcceptedUrlsArePublic ==
  phase # "refused" =>
    \A c \in Members(document.connections) :
      c.url.host.octets # <<>> =>
        \A block \in Reserved :
          Prefix(c.url.host.octets) \notin Prefix(block[1])..Prefix(block[2])
=============================================================================
