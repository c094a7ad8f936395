------------------------------ MODULE HubTraffic ------------------------------
(***************************************************************************)
(* What a process that has started (ServerStart) does with requests of     *)
(* providers and of operators of Bots.  A webhook names an account in its  *)
(* body or its path; the catalogs find the connections whose secret can    *)
(* verify it; each of these picks the events of its own account and        *)
(* appends them in a transaction of its own; the answer follows the last.  *)
(*                                                                         *)
(* The providers are outside: they deliver a webhook again until it is     *)
(* acknowledged, Telegram accepts or refuses a message.                    *)
(***************************************************************************)
EXTENDS ServerStart

CONSTANTS
  Traffic(_),   \* bound: webhooks that may be sent under a document
  MaxEnvelopes, \* bound: webhooks of one behaviour
  Workers,      \* requests that are served at a time
  MaxFailures   \* bound: transactions that fail for a while, and crashes

ASSUME TrafficAssumption == MaxEnvelopes \in Nat /\ MaxFailures \in Nat

VARIABLES
  sent,      \* webhooks the providers have to deliver, one after the other
  acked,     \* those acknowledged with 200 or 204, as the process sees it
  settled,   \* those whose acknowledgement reached the provider
  serving,   \* per worker: the webhook, and the connections to append for
  stored,    \* inbound_events: pairs of a connection and an event
  failures,  \* failures so far
  message    \* the message an operator of a Bot sends

trafficVars == <<sent, acked, settled, serving, stored, failures, message>>
vars == <<startVars, trafficVars>>

Idle == [envelope |-> [route |-> None], todo |-> {}]
NoMessage == [from |-> None, step |-> "idle", accepted |-> 0, answer |-> 0]

\* An envelope: its route, the connection its path names, the kind of object, the
\* key it is signed with or the bearer, and entries.  An entry: the account it is
\* for, with App and WABA, its kind and its event.
ServedConnections(type) == {document.connections[i] : i \in OfType(type)}

-----------------------------------------------------------------------------
(* Candidates: whose secret is to verify a webhook.                        *)

\* toFacebookPageWebhookPageIds: an entry without a usable id spoils the batch.
PageIds(e) ==
  IF e.object # "page" \/ \E x \in Members(e.entries) : x.kind = "broken" THEN {}
  ELSE {x.account : x \in Members(e.entries)}

WabaIds(e) ==
  IF e.object # "whatsapp_business_account" \/ \E x \in Members(e.entries) : x.kind = "broken" THEN {}
  ELSE {x.waba : x \in Members(e.entries)}

\* findAppByPageIds: every Page is configured, and all in one App.
AppByPageIds(ids) ==
  LET found == {c \in ServedConnections("facebook_page") : c.account \in ids}
      apps == {c.app : c \in found}
  IN  IF {c.account : c \in found} = ids /\ Cardinality(apps) = 1 THEN apps ELSE {}

\* findAppByWabaIds
AppByWabaIds(ids) ==
  LET found == {c \in ServedConnections("whatsapp_business") : c.waba \in ids}
      apps == {c.app : c \in found}
  IN  IF {c.waba : c \in found} = ids /\ Cardinality(apps) = 1 THEN apps ELSE {}

PageApp(e) == {<<"facebook_page", a>> : a \in AppByPageIds(PageIds(e))}
WabaApp(e) == {<<"whatsapp_business", a>> : a \in AppByWabaIds(WabaIds(e))}

\* Fault: the shared route looks at Pages only.
SharedAppPagesOnly(e) == PageApp(e)

\* selectMetaApp: one product or nothing.
SharedApp(e) ==
  IF PageApp(e) = {} \/ WabaApp(e) = {} THEN PageApp(e) \cup WabaApp(e) ELSE {}

\* The connection of the signed identity of an OA.
ZaloOaMatches(e, c) ==
  c.type = "zalo_oa" /\ c.app = e.entries[1].app /\ c.account = e.entries[1].account

\* The routes: each selects, and the signature or the bearer decides.
FacebookPageRoute(e, c) == <<c.type, c.app>> \in PageApp(e) /\ c.key = e.key
WhatsAppBusinessRoute(e, c) == <<c.type, c.app>> \in WabaApp(e) /\ c.key = e.key
MetaRoute(e, c) == <<c.type, c.app>> \in SharedApp(e) /\ c.key = e.key
ZaloOaRoute(e, c) == ZaloOaMatches(e, c) /\ c.key = e.key
TelegramBotRoute(e, c) == c.type = e.route /\ c.id = e.to /\ c.hook = e.key
ZaloUserRoute(e, c) == c.type = e.route /\ c.id = e.to /\ c.key = e.key

Selects(e, c) ==
  CASE e.route = "facebook_page"     -> FacebookPageRoute(e, c)
    [] e.route = "whatsapp_business" -> WhatsAppBusinessRoute(e, c)
    [] e.route = "meta"              -> MetaRoute(e, c)
    [] e.route = "zalo_oa"           -> ZaloOaRoute(e, c)
    [] e.route = "telegram_bot"      -> TelegramBotRoute(e, c)
    [] e.route = "zalo_user"         -> ZaloUserRoute(e, c)

\* Their positions in the document.
Features(e) == {i \in DOMAIN document.connections : Selects(e, document.connections[i])}

-----------------------------------------------------------------------------
(* Events: normalize of each connector.  Echoes, receipts, attachments and *)
(* what is malformed are kinds other than "text" and "unstorable".         *)

IsText(x) == x.kind \in {"text", "unstorable"}

\* Fault: the events of a whole batch go to every connection of the App.
FacebookPageEventAnyPage(x, c) == IsText(x) /\ c.type = "facebook_page"

FacebookPageEvent(x, c) == IsText(x) /\ x.account = c.account
WhatsAppBusinessEvent(x, c) == IsText(x) /\ x.waba = c.waba /\ x.account = c.account
ZaloOaEvent(x, c) == IsText(x) /\ x.app = c.app /\ x.account = c.account
ZaloUserEvent(x, c) == IsText(x) /\ x.account = c.account
TelegramBotEvent(x, c) == IsText(x) /\ c.type = "telegram_bot"

Event(x, c) ==
  CASE c.type = "facebook_page"     -> FacebookPageEvent(x, c)
    [] c.type = "whatsapp_business" -> WhatsAppBusinessEvent(x, c)
    [] c.type = "zalo_oa"           -> ZaloOaEvent(x, c)
    [] c.type = "zalo_user"         -> ZaloUserEvent(x, c)
    [] c.type = "telegram_bot"      -> TelegramBotEvent(x, c)

Events(e, c) == {x \in Members(e.entries) : Event(x, c)}

\* The features with events; the others append nothing.
Appends(e) == {i \in Features(e) : Events(e, document.connections[i]) # {}}

\* A bridge is told when its one event is not for its account.
Refuses(e) == Features(e) = {} \/ (e.route = "zalo_user" /\ Appends(e) = {})

-----------------------------------------------------------------------------
TrafficInit ==
  /\ StartInit
  /\ sent = <<>> /\ acked = {} /\ settled = {} /\ stored = {}
  /\ serving = [w \in Workers |-> Idle]
  /\ failures = 0 /\ message = NoMessage

Start == StartNext /\ UNCHANGED trafficVars

\* A provider sends a webhook.
Send ==
  /\ phase = "listening" /\ Len(sent) < MaxEnvelopes /\ message = NoMessage
  /\ \E e \in Traffic(document) \ Members(sent) : sent' = Append(sent, e)
  /\ UNCHANGED <<startVars, acked, settled, serving, stored, failures, message>>

\* The handler up to its first append; a webhook that is refused is tried again.
Deliver(w, e) ==
  /\ serving[w] = Idle /\ e \notin settled /\ ~Refuses(e)
  /\ serving' = [serving EXCEPT ![w] = [envelope |-> e, todo |-> Appends(e)]]
  /\ UNCHANGED <<startVars, sent, acked, settled, stored, failures, message>>

\* Features are served in the order of the document.
Turn(w) == CHOOSE i \in serving[w].todo : \A j \in serving[w].todo : i <= j

\* What the next append of a worker stores.
Batch(w) ==
  LET c == document.connections[Turn(w)] IN {<<c.id, x>> : x \in Events(serving[w].envelope, c)}

\* An unstorable text, such as one with a NUL, fails the transaction it is in.
Storable(w) == \A row \in Batch(w) : row[2].kind = "text"

\* Fault: an append that fails is logged, and the next one follows.
StopSkipping(w) == [serving EXCEPT ![w].todo = @ \ {Turn(w)}]

\* A failed append is the 500 of its request.
Stop(w) == [serving EXCEPT ![w] = Idle]

\* receiveEvents: the append of one feature commits, whatever follows.
AppendNext(w) ==
  /\ serving[w].todo # {}
  /\ IF Storable(w)
     THEN /\ stored' = stored \cup Batch(w)
          /\ serving' = [serving EXCEPT ![w].todo = @ \ {Turn(w)}]
     ELSE serving' = Stop(w) /\ UNCHANGED stored
  /\ UNCHANGED <<startVars, sent, acked, settled, failures, message>>

\* The database is away; the COMMIT may have reached it.
AppendFails(w) ==
  /\ serving[w].todo # {} /\ failures < MaxFailures
  /\ failures' = failures + 1
  /\ \/ UNCHANGED stored
     \/ Storable(w) /\ stored' = stored \cup Batch(w)
  /\ serving' = Stop(w)
  /\ UNCHANGED <<startVars, sent, acked, settled, message>>

\* The answer; a provider that does not get it delivers the webhook again.
Acknowledge(w) ==
  /\ serving[w] # Idle /\ serving[w].todo = {}
  /\ acked' = acked \cup {serving[w].envelope}
  /\ serving' = [serving EXCEPT ![w] = Idle]
  /\ \/ settled' = settled \cup {serving[w].envelope} /\ UNCHANGED failures
     \/ failures < MaxFailures /\ failures' = failures + 1 /\ UNCHANGED settled
  /\ UNCHANGED <<startVars, sent, stored, message>>

\* The process dies and is started again from the same document.
Crash ==
  /\ phase = "listening" /\ failures < MaxFailures
  /\ \E w \in Workers : serving[w] # Idle
  /\ failures' = failures + 1
  /\ serving' = [w \in Workers |-> Idle]
  /\ UNCHANGED <<startVars, sent, acked, settled, stored, message>>

-----------------------------------------------------------------------------
(* POST /v1/telegram-bot/messages.                                         *)

BesideMessage == <<startVars, sent, acked, settled, serving, stored, failures>>

\* The bearer selects the Bot; SendMessage refuses a text of blanks.
PostMessage ==
  /\ phase = "listening" /\ message = NoMessage /\ sent = <<>> /\ Traffic(document) # {}
  /\ \E c \in ServedConnections("telegram_bot"), blank \in BOOLEAN :
       message' = [NoMessage EXCEPT !.from = c.id,
                                    !.step = IF blank THEN "answered" ELSE "posted",
                                    !.answer = IF blank THEN 400 ELSE 0]
  /\ UNCHANGED BesideMessage

\* Telegram takes the message, in time or after the request was given up.
TelegramAccepts ==
  /\ message.step = "posted" \/ (message.answer = 502 /\ message.accepted = 0)
  /\ message' = [message EXCEPT !.accepted = @ + 1,
                                !.step = IF @ = "posted" THEN "accepted" ELSE @]
  /\ UNCHANGED BesideMessage

\* sendMessage: an answer with the number of a message is the receipt.
Receipt ==
  /\ message.step = "accepted"
  /\ message' = [message EXCEPT !.step = "answered", !.answer = 200]
  /\ UNCHANGED BesideMessage

\* Fault: what fails is posted once more.
AfterFailureAgain(m) == [m EXCEPT !.step = "posted"]

\* A ConnectorProviderError becomes 502.
AfterFailure(m) == [m EXCEPT !.step = "answered", !.answer = 502]

\* post: the time runs out, the connection breaks, the answer is an error or not
\* understood, whether Telegram has taken the message or not.
PostFails ==
  /\ message.step \in {"posted", "accepted"} /\ message.accepted < 2
  /\ message' = AfterFailure(message)
  /\ UNCHANGED BesideMessage

-----------------------------------------------------------------------------
Receive(i) == i <= Len(sent) /\ \E w \in Workers : Deliver(w, sent[i])

TrafficNext ==
  \/ Start \/ Send \/ Crash
  \/ \E i \in 1..MaxEnvelopes : Receive(i)
  \/ \E w \in Workers : AppendNext(w) \/ AppendFails(w) \/ Acknowledge(w)
  \/ PostMessage \/ TelegramAccepts \/ Receipt \/ PostFails

\* A provider delivers what is not acknowledged again and again, whatever else it
\* delivers; a request that is served goes on.
TrafficFairness ==
  /\ \A i \in 1..MaxEnvelopes : SF_vars(Receive(i))
  /\ \A w \in Workers : WF_vars(AppendNext(w) \/ Acknowledge(w))

TrafficSpec == TrafficInit /\ [][TrafficNext]_vars /\ TrafficFairness

-----------------------------------------------------------------------------
(* Properties.  Whom an event is for follows from the account alone: the   *)
(* loader lets no two connections have one account.                        *)

Product(e) ==
  CASE e.object = "page" -> "facebook_page"
    [] e.object = "whatsapp_business_account" -> "whatsapp_business"
    [] OTHER -> e.object

Owners(e, x) ==
  {c \in ServedConnections(Product(e)) :
     IF c.type = "telegram_bot" THEN c.id = e.to
     ELSE c.account = x.account /\ (c.type = "zalo_oa" => c.app = x.app)}

Secret(c) == IF c.type = "telegram_bot" THEN c.hook ELSE c.key

\* Once a webhook is acknowledged, each of its texts for a configured account is
\* stored: nothing is acknowledged between two appends, not when one of them fails,
\* not after a crash, and not because the other worker has served the same webhook.
AcknowledgedIsStored ==
  \A e \in acked, x \in UNION {Members(d.entries) : d \in acked} :
    x \in Members(e.entries) /\ IsText(x) =>
      \A c \in Owners(e, x) : <<c.id, x>> \in stored

\* An event is stored under the connection of the account it was sent to, and only
\* if whoever sent it had the secret of that connection: batches that mix Pages,
\* numbers or products of one App do not carry events from one account to another.
StoredIsAddressed ==
  \A row \in stored :
    \E e \in Members(sent) : row[2] \in Members(e.entries)
      /\ \E c \in Owners(e, row[2]) : c.id = row[1] /\ Secret(c) = e.key

\* A webhook the hub can take: it comes with the secret, on a route of its product,
\* PostgreSQL can store all its texts, and all its accounts are configured.  A Page
\* that is not holds up its whole batch, a number of a configured WABA does not.
Deliverable(e) ==
  /\ e.route = Product(e) \/ (e.route = "meta" /\ Product(e) \in Meta)
  /\ \A x \in Members(e.entries) :
       /\ x.kind \notin {"unstorable", "broken"}
       /\ \A c \in Owners(e, x) : Secret(c) = e.key
       /\ \/ Owners(e, x) # {}
          \/ \E c \in ServedConnections("whatsapp_business") : c.waba = x.waba /\ c.key = e.key

\* Every webhook the hub can take is stored in the end, although appends fail, the
\* process dies, acknowledgements are lost, and webhooks that can never be taken
\* come again and again.
EventuallyStored ==
  []<>(\A e \in Members(sent) : Deliverable(e) =>
         \A x \in Members(e.entries) : IsText(x) =>
           \A c \in Owners(e, x) : <<c.id, x>> \in stored)

\* One request of an operator is one message of the Bot at most, whatever fails or
\* comes late, and a receipt is given for a message Telegram has taken.
ReceiptsAreTrue ==
  /\ message.accepted <= 1
  /\ message.answer = 200 => message.accepted = 1
  /\ message.answer = 400 => message.accepted = 0
=============================================================================
