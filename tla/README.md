# Open Channel Hub: models, checks and proofs

Open Channel Hub receives messages of several providers, keeps them in one append-only
PostgreSQL ledger, lets API clients and operators page through it, and records what an
operator wants to reply and which of those replies may be delivered. A second process, the
Zalo user bridge, forwards the group messages of a personal account to the hub.

This directory models the parts of the hub that keep state, model-checks them with TLC on
small instances, and proves the properties that matter most for every instance with TLAPS.
`PROJECT.json` is the index: components, runs, mutants (a plausible bug for every
property, which the run must find), the source lines of every definition, the hazards of the
code and the theorems.

Paths below are relative to the repository; `storage-postgres` is
`packages/storage-postgres/src`, `api` is `apps/api/src`, `bridge` is
`apps/zalo-user-bridge/src`.

## 1. Inventory

| Component | State it keeps | Operations | Hard behaviour | What makes it correct |
|---|---|---|---|---|
| Event store (`storage-postgres/postgres-inbound-event-store.ts`) | `inbound_events`, with an identity column | append a batch | identity values are drawn before the commit; a batch fails half-way | all of a batch or nothing; rows visible in identity order; a retry stores nothing twice |
| Connection registry (`postgres-connection-registry.ts`) | `connection_registry` | register the configuration at start | processes with other configurations start at once, over rows of older schemas | one provider account for each connection, for ever |
| Reply commands (`postgres-outbound-reply-command-store.ts`) | `outbound_commands`, authorizations, Telegram eligibility | create, with an operation id as idempotency key | lost acknowledgements, retries with other inputs, a Bot or a scope that changed | complete evidence, durable answers, genuine conflicts |
| Delivery authorizations (`postgres-outbound-telegram-delivery-authorization-store.ts`) | `outbound_telegram_delivery_authorizations` | authorize | races with appends, commands and delivery attempts; one rule in three SQL statements | an authorization stands on a private Telegram source of the bound Bot |
| Advisory locks (`postgres-lock-keys.ts`) | four transaction locks | taken by all four stores | several per operation: lock order | no two operations wait for each other |
| Paged readers and cursors (`postgres-inbound-event-feed-reader.ts`, `…-event-reader.ts`, `…-command-history-reader.ts`, `api/inbox/*cursor.ts` and the routes) | none: the cursor carries it | first page, continuation | two statements; the table grows; restart with another scope | a walk is a snapshot: no row lost, none twice |
| Dashboard sessions and writes (`api/dashboard/dashboard-routes.ts`, `dashboard-session-manager.ts`, `postgres-dashboard-session-store.ts`, `dashboard-reply-intent-throttle.ts`) | `dashboard_sessions`, the cookie in the browser, a window of writes for each operator | login, page, write, logout | concurrent tabs; statements later than their timestamps; answers out of order; a quota shared by all sessions of an operator | expiry follows activity; a logout is final; at most 20 writes in a window |
| Zalo user bridge (`bridge/zalo-user-bridge.ts`, `zalo-user-hub-delivery.ts`, `main.ts`) | status, reconnect timer, known groups, two limiters | start, stop, listener callbacks, deliver, send | callbacks between awaits, late answers, restarts | status is true; giving up is final; nothing is lost silently; sends only where allowed, within a rate |
| Bridge control server and operator page (`zalo-user-bridge-control-server.ts`, `…-operator-ui-server.ts`) | limiter; login throttle, page sessions with the references of their forms | send commands; login, QR code, page, send forms, logout | two limiters in front of one provider; a session read before a body, a password check or a list of groups is awaited | the rate above; bounded guesses; no request served after its session has ended |
| Google sign-in (`dashboard-google-oauth.ts`, `postgres-dashboard-google-identity-store.ts`) | one-shot transactions in memory, identity bindings | begin, callback, bind | restart between leaving and returning; two bindings at once | a transaction is used once; a binding never changes hands |
| Runtime configuration (`api/connections/runtime-connection-configuration.ts`) | registries of what was read, while a document is read | read connections, inboxes, dashboard; refuse | each entry is compared with a selection of those before it, so the order matters | a secret has one role; the verdict does not depend on the order; no webhook at a private address |
| Start of the API process (`api/server.ts`, `config/environment.ts`, `app.ts`, the feature catalogs) | the step it has reached, rows of the registry it leaves | environment, database, document, registration, dashboard, catalogs, listen | a later step fails after the registration has committed; the catalogs check again by other rules | what serves is registered; catalogs agree with the loader |
| Webhook ingress, connectors (`api/http/meta-webhook-route.ts`, the webhook routes, `packages/connector-*`) | none: the batch being appended | select connections, verify, pick events, append, answer | one batch for several connections is several transactions; redelivery; workers with the same webhook | acknowledged is stored; stored is addressed; stored in the end |
| Outbound port (`telegram-bot-message-route.ts`, `send-message.ts`, `telegram-http-bot-gateway.ts`) | none | post one message of a Bot | the time runs out after the provider has acted | one request, one message; true receipts |
| Migrations (`postgres-migrations.ts`, `api/db/migrate.ts`) | schema versions | migrate | a second migrator; code over an older schema | versions applied once, in order |
| Database pool, HTTP shell, dashboard pages | none that decides anything | connections, headers, rendering | – | – |

How they interact. `server.ts` reads the environment and the runtime document, registers its
connections in the registry, builds the dashboard and the catalogs of the routes, and only then
listens. A webhook is verified with the secret of the connections its accounts name, and each of
these appends its own events. Inbox routes and
dashboard pages read the ledger through the paged readers and create reply commands; the
dashboard also authorizes deliveries. All stores share one database and the four advisory
locks, and several API processes may share the database. Nothing in the repository executes a
command: `outbound_delivery_attempts` is written by something else. The bridge posts events to
a route of the API process over HTTP and is commanded by an operator page and by a local
control server.

The hazards these interactions cause are listed, with their lines and the properties that
would catch them, under `hazards` in `PROJECT.json`. Those no property covers, because the code
promises nothing or accepts the outcome, are in section 7.

## 2. Modules

```
HubTables ── HubLedger ── HubSafety_proofs ── HubSerial_proofs
    │            │  refines
    └──── SerialLedger (atomic operations)        abstract
                 │  refines (each of two tables)
             VisibleRows (an append-only table)   abstract
                 │  assumed by
             PagedReader ── PagedReader_proofs
Limiter ── Limiter_proofs                         used by DashboardWrites and ZaloBridge
                                                  (the proofs also by PagedReader)
DashboardSessions
    └── DashboardWrites ── DashboardWrites_proofs        refines DashboardSessions
GoogleSignIn ── GoogleSignIn_proofs
ZaloBridge
    └── OperatorConsole ── OperatorConsole_proofs        refines ZaloBridge
RuntimeConfiguration
    └── ServerStart
            └── HubTraffic ── HubTraffic_proofs          of all three
MCHubBinding, MCHubReplies, MCPagedReader, MCDashboardSessions, MCGoogleSignIn,
MCZaloBridge, MCConsole, MCRuntimeConfiguration, MCServer: instances
```

**HubTables** is the database: the rows of every table, and for every SQL statement the rows it
selects or the condition under which it inserts. `Registration`, `RegistrationAccepted`,
`EligibleSource`, `EligibleCommand`, `HistoryOffersAuthorization` and so on stand for one
statement each. Fingerprints are the values they are computed from; ids, texts and principals
are model values.

**HubLedger** runs the statements. A `Server` is one pool client of one API process: its phase
(`down`, `starting`, `serving`), configuration, the request it serves and its transaction
(`pc`, locks still to take, uncommitted rows in `draft`). Each advisory lock and each SQL
statement is a step. `View(s)` is what READ COMMITTED shows a statement: committed rows and
those of its own transaction. `Commit` merges the draft and releases the locks;
`CommitUnacknowledged` is a COMMIT whose acknowledgement is lost and which took effect or
not; `StatementFails` rolls back; `Crash` leaves an orphaned transaction with its locks until
`BackendEnds`. `Init` ranges over what older schemas can have left behind. An identity column
advances with every insert that is tried, including those that ON CONFLICT discards or that
roll back.

**SerialLedger** is what the stores promise: each operation is one atomic step on committed
rows with one answer, or an error after which it took effect entirely or not at all.
`HubLedger!SerialSpec` says the detailed module implements it, with the committed
database, configurations, requests and answers mapped to themselves.

**VisibleRows** is what a reader may assume of a table: rows never change and become visible
in the order of their ids. `HubLedger` implements it for events and for commands
(`EventRowsSpec`, `CommandRowsSpec`, refinement mapping: the ids and connections of the
committed rows).

**PagedReader** is composed with two instances of `VisibleRows` as its writers. A view is a
route with its owner; a request runs `ReadSnapshot` and `ReadPage` as separate steps; a
cursor carries its schema, version, owner, scope hash and two positions. The client follows
its cursors, repeats requests, gives up, or presents a cursor elsewhere (`Stray`); the
process restarts with another configuration at any time. A page is a list described by what it is:
`Begins`, a strictly descending list that leaves out only rows below it.

**Limiter** is the filter all throttles share: the times after a moment, in their order.

**DashboardSessions** has the rows of `dashboard_sessions`, a set of requests in flight and
one browser. A handler takes its time when it starts (`Arrive`) and awaits a statement; the
statement is a later step, its answer a still later one (`Deliver`). A statement may fail
before or after it took effect. CSRF tokens stand for the session they belong to.

**DashboardWrites** puts what happens between the two statements of a write on top: the form is
compared with the session, the grant is looked at, and the throttle of the process, which all
sessions of an operator share, admits the recording or answers 429. `AdmitWrite` replaces
`ReadForWrite` of DashboardSessions; everything else is `SessionNext`. `attempts` is the history
the limit is stated about.

**GoogleSignIn** has the transactions of the process, both cookies of several browsers, the
callback addresses Google has answered with, and `dashboard_google_identities`. A callback is
a request (`at` names what it awaits: `touch`, `exchange`, `find`, `bind`, `classify`,
`insert`) and each of these is a step, so that others come between `INSERT … ON CONFLICT DO
NOTHING` and the statement that classifies what it met. Whether a session is still
active is left open here; `DashboardSessions` says when it is. `Restart` brings another
configuration. `began` and `completed` are history.

**ZaloBridge** has the process (`login`, `running`, `stopping`), the fields of
`ZaloUserBridge`, the socket of the listener, the delivery of each message with requests that
outlive their sender (`late`), what the hub has stored, both limiters and the calls the
provider saw from every process (`calls`: a restart empties the limiters and leaves the history). `OnClosed`, `OnConnected`, `Cancelled`, `Scheduled` and `Fired` are the state
changes of the class, used by the actions that trigger them. Assumptions of the model about the
provider library: the QR login succeeds or not as a whole, and a listener reports at most one
close for each start.

**OperatorConsole** is the operator page over that bridge. `Arrive` reads the session when a
request comes, the request then waits (`verify`, `list`, `send`, `logout`) and goes on with what
it has read, as the handlers do; a page replaces the references of every older form of its
session. `Login` and `Verified` are the two halves of the login throttle. `Sent` calls `SendGroup` of
ZaloBridge, whose `PageSends` is thereby no longer free but driven. `outlived` records whether the
session of a request should have been over when it arrived, by the history in `born`, `used` and
`loggedOut`.

**RuntimeConfiguration** reads a document entry by entry. `seen` holds the registries of
`parseRuntimeConnectionConfiguration`: ids, three sets of secrets, the Apps, accounts, WABAs, URLs.
An operator `Refuses…` stands for the parser of each part and `Recorded` for what an accepted
entry adds. What a value must look like (a token's alphabet, a host name) is a set of values
given as a constant; IPv4 addresses are octets, because the test on them is arithmetic.
`Offends` says what an acceptable document is without registries and without order.

**ServerStart** is the composition root: `ParseEnvironment` with the two ways of configuring
(document, or the older variables of one Bot), `CheckDatabase`, the loader, `Register`, `Compose`,
`BuildApp`, `Listen`. Any of them can throw, and `failure` names which did. The catalogs check
features by rules of their own (`TelegramBotsRefused` … `InboxesRefused`), so that they can be
compared with those of the loader: each entry is compared with what the entries of its type
before it hold (`Before`, `Held`).

**HubTraffic** is the process that listens. Providers (`Send`, `Receive`) deliver a webhook until
it is acknowledged. `Selects` is the choice of the connections by account and secret in each
route, `Event` the normalizer of each connector, `AppendNext` one transaction of one connection. What a worker has still to append (`todo`) is a set of
positions of connections; `Turn` is the first of them and `Batch` its rows.
`AppendFails`, `Acknowledge` with a lost answer, and `Crash` are the faults. One message of an
operator of a Bot runs from `PostMessage` to its receipt or its failure.

## 3. Runs

| Run | Instance | Shows |
|---|---|---|
| `MCHubBinding` | 2 servers, 1 connection id, 3 accounts (two Bots, one Page), 2 events, 5 legacy databases | `OneAccountPerConnection`, `BindingNeverMoves` |
| `MCHubReplies` | 2 servers, 2 connections, 2 inboxes, 3 configurations (one narrows a scope, one gives a connection to another Bot), 5 variations of one reply, 1 authorization request, 1 delivery attempt, a command older than authorizations | `CommandsCarryEvidence`, `AnswersAreTrue`, `DeliveriesAreBacked`, `StatementsAgree`, `SerialSpec` (refinement) |
| `MCHubLive` | 2 events and 2 commands of two connections, 1 authorization, fair | `EventRowsSpec`, `CommandRowsSpec` (refinements), `EveryOperationEnds` |
| `MCPages` | 2 connections, 2 inboxes that share one, page sizes 1 and 2, ids up to 3 in two tables, 2 restarts, fair | `WalkIsSnapshot`, `WalkEnds` |
| `MCSessions` | 2 sessions of one operator, 2 requests in flight, idle period 2, length 3, clock up to 3, 1 write in a window of 1 | `ExpiryFollowsActivity`, `LogoutIsFinal`, `SessionsOnlyAdvance`, `WritesAreMetered` |
| `MCSessionsLogout` | the same | violates `LogoutRevokes`: see the finding |
| `MCGoogleSignIn` | 2 browsers, 2 accounts, 2 operators, 2 transactions, 2 requests in flight, 3 configurations, 1 restart | `OneCompletion`, `CompletedAreBound`, `ConflictsAreGenuine`, `BindingsAreForever` |
| `MCGoogleFailure` | the same | violates `FailureWritesNoLink`: see the finding |
| `MCBridgeSession` | 2 groups, 2 messages, 3 reconnects, 2 process starts, a window that passes once, fair | `StatusIsSocket`, `GivingUpIsFinal`, `NothingLostSilently`, `SendsAreEligible`, `ReconnectEnds`, `DeliveryEnds` |
| `MCConsole` | 1 group, 1 session, 2 requests, idle period 1, length 2, window 2, clock up to 3, 4 calls, 2 restarts, 1 failure and 2 verifications, 2 pages | `WithinRate`, `GuessesAreBounded`, `PageSessionsEnd` |
| `MCServer` | documents of up to 3 connections of 5 types, 2 inboxes, a dashboard of up to 3 operators (2 are allowed), every environment (69,984); then 2 webhooks of 6, 2 workers, 2 failures | `CredentialsSeparated`, `VerdictIsPairwise`, `AcceptedUrlsArePublic`, `CatalogsAgree`, `AcknowledgedIsStored`, `StoredIsAddressed`, `ReceiptsAreTrue`, `EventuallyStored` |
| `MCDistinctCredentials` | the same | violates `RegisteredAreDistinct`: see the finding |

Why the bounds are enough to be interesting.

* *Ledger.* Two clients are what it takes for every race between two operations, and each can
  crash and leave an orphan while the other goes on. Two events in one batch make a
  partially executed batch; `MaxLedgerId` leaves room for values lost to replays and
  rollbacks and is small enough that the column runs out, which is then a failed
  statement. In `MCHubReplies` all four operations and a writer of attempts run together: one operation id
  is enough for every conflict, and a second command is the older row or another retry's. A process
  configured with another Bot for the first connection may be the first to start, or be turned away. The theorems cover any number of clients, rows and connections for
  the binding and visibility properties.
* *Reader.* With three ids and pages of one and two rows there are walks of one, two and three
  pages, pages that are exactly full, and rows appended before, between and after the two
  statements and between pages. Two configurations swap and empty the scope of an inbox, and
  with two restarts a scope comes back, so that a cursor which did not belong to it for a while is accepted again.
* *Sessions.* Two requests suffice for one statement or answer to overtake another; a clock
  of 3 with an idle period of 2 and a length of 3 has renewals, one that is cut off, and
  both kinds of expiry. Both sessions belong to one operator, so the throttle is shared, and with
  one write in a window of 1 the clock passes several windows. The theorems cover any number of
  requests, sessions and times.
* *Google.* Two transactions are what a browser needs to come back with an older cookie, and two
  browsers to open one callback in both; two accounts and two operators make both kinds of
  conflict of the table. Sessions from versions without Google are what a link that is
  not a replay needs.
* *Bridge.* Three reconnects are the code's number of delays (two do not distinguish "last" from
  "next"); two starts let requests of an earlier process arrive late. One call is enough for
  `SendsAreEligible`, which is about each call by itself.
* *Console.* The run starts where the page becomes interesting: connected, with one admitted group
  (`AdmittedInit`), and takes the steps of one connection (`PageNext`) until the process is restarted.
  A restart ends the sessions of the page; from then on the run has the bridge alone, from its login to
  the sends of the control server, because the calls of a window that spans processes are what is left
  to ask. Two restarts and four calls let a window hold the calls of three processes and one more.
  Everything else the two do together is `ConsoleNext`, which the proofs cover. Two requests let one come between the two halves of the
  other; two verifications and one failure let a guess be admitted before the one before it is
  counted; two pages replace each other's forms; the window is shorter than the clock.
* *Server.* Secrets are numbers used in order, so two entries can share any of theirs and a new value
  is always there. First entries have any secrets or one wrong part, second ones collide in
  secrets or in what they name; hosts include both sides of every boundary of the reserved
  blocks. A third entry only exceeds the maximum of 2, of connections, inboxes or operators alike. Traffic is sent to pairs of connections of every
  type whose secrets are clean. Two failures are a lost acknowledgement after a failed append or a
  crash; two workers serve one webhook at once.

Every property has a mutant: a fault defined beside the definition it replaces (`AcceptedOverHistory`,
`TouchableStale`, `HandleKept`…) under which the same run finds the property violated.

Deadlock is checked except in the session, Google, bridge, console and server runs. There the bounds of
the model stop the system: the clock ends, sessions and transactions are used up, the last process
that stopped is not started again, and a start that has failed is over.

## 4. Fairness

* `HubLedger!Fairness`: weak fairness of a client's next statement (PostgreSQL answers, and
  the event loop runs the continuation) and of the end of an orphaned backend; strong
  fairness of taking a lock, because PostgreSQL queues the waiters of an advisory lock in
  order of arrival. Nobody is obliged to call, to fail or to start a process.
* `PagedReader!Fairness`: weak fairness of the two statements and of a client that goes on
  with its walk. Writers may write for ever or never.
* `ZaloBridge!Fairness`: a listener that is opening eventually reports how that ended, a timer
  that is due fires, an answer that has arrived is processed, and the delivery timeout
  (`AbortSignal.timeout`) fires. The hub is not assumed to answer, and the connection is not
  assumed ever to succeed.
* `HubTraffic!TrafficFairness`: strong fairness of each `Receive`, because a provider delivers what
  is not acknowledged again and again, also while workers are now and then busy with other
  webhooks; weak fairness of a worker that goes on. Failures are bounded, which is the
  assumption that the database comes back.
* The other specifications state safety only and assume no fairness.

## 5. Findings

`LogoutRevokes` (`api/dashboard/dashboard-routes.ts:421`). The operating guide says of the logout
form: "It revokes the server-side session and clears the cookie"
(`docs/operations/operator-dashboard-4b.md:202`). The handler reads the session with the time at
which it started, and the statement wants `last_seen_at` not to be later. If another tab asks
for a page a moment later and its touch reaches the row first, the read finds nothing: the
cookie is cleared, and the session stays active on the server until it expires.
`MCSessionsLogout` shows the trace. What the code does guarantee is `LogoutIsFinal`: once
the revocation itself was answered, nothing that arrives later is served.

`FailureWritesNoLink` (`api/dashboard/dashboard-routes.ts:392` and `363`). The guide says of the
callback: "A generic failure means no identity link was written"
(`docs/operations/dashboard-google-sign-in.md:91`). The binding is a statement of its own, and
committed. When its acknowledgement is lost, or when the session that a first sign-in
needs cannot be inserted afterwards, the operator sees the generic failure page, and the
immutable link is there. `MCGoogleFailure` shows the trace. A second try then signs in, because the
binding is a replay.

`RegisteredAreDistinct` (`api/connections/runtime-connection-configuration.ts:1100`). The guide says:
"`appSecret`, `webhookVerifyToken`, and `operatorApiToken` must be distinct printable values"
(`docs/operations/facebook-page-3b.md:62`). `registerMetaAppCredentials` compares both secrets of a new
App with those read before and adds them only afterwards, so that it does not notice when they are
equal. The connection is registered, for ever, and then the catalog of its product refuses to start.
`MCDistinctCredentials` shows the trace; `CatalogsAgree` says it is the only document the catalogs
turn down.

## 6. Proofs

TLAPS proves the following for every value of the constants that satisfies the named assumptions
(`TablesAssumption`, `LedgerAssumption`, `ReaderAssumption`, `CursorAssumption`, `SessionAssumption`, `WritesAssumption`, `SignInAssumption`,
`BridgeAssumption`, `ConsoleAssumption`, `LoaderAssumption`; TLC evaluates each of them in the runs above).
Some theorems about documents and webhooks have hypotheses of their own about what the environment
offers, because that is an operator constant; the last paragraph of this section lists them.

* `HubSafety_proofs`: `TypeCorrect`, `Spec => []TypeOK`. The invariant `TypeInv` adds what
  `pc` says about the request, which is what makes the fields an action reads exist. From it
  `OneAccount`, `ServingBound`, `BindingFixed`, `VisibleOrder`. None of
  these is inductive. What a transaction decided about committed rows must still hold when it
  commits, and that rests on the lock `APPEND`, which every operation takes. `SafetyInv`
  therefore says: a transaction that executes statements holds that lock (`HoldsAppend`);
  the events it drafted come from its configuration and lie above every committed one, the
  registrations it drafted were accepted against the committed rows, and its commands lie
  above every committed one (`Drafts`); a starting process commits when all its connections
  are drafted (`AllRegistered`); and committed ids are below the sequences
  (`BelowSequences`). Lemma `Alone` is the heart of it: while one transaction executes,
  no other has drafts that could commit.
* `HubSerial_proofs`: `Serializable`, the refinement `Spec => SerialSpec`, that every operation of
  the stores is one atomic step on the committed rows. `SerialInv` adds to `SafetyInv` what each
  statement read and wrote (`Working`): since the transaction holds `APPEND`, nothing but a delivery
  attempt, which takes no lock, changes the committed rows until it commits, so the atomic
  operation that `Commit` is mapped to would read the same and write the same. An operation whose answer is
  lost maps to one that took effect or to none. On the level of atomic operations `EvidenceInv` is
  inductive: commands carry their evidence, authorizations are backed by commands and by the bound Bot
  (`Sound`), and each answer is true of the database (`Truth`). Hence
  `CommandsEvident`, `DeliveriesBacked`, `StatementsConsistent` and `AnswersTrue`. `EventRowsVisible` and
  `CommandRowsVisible` are the refinements of `VisibleRows`, which is all the readers assume of the ledger.
* `PagedReader_proofs`: `WalkSnapshot`, on `ReaderInv`. The hub keeps nothing of a walk, so the
  invariant says what the cursor in hand determines (`Carried`): what the walk took are the rows of the
  cursor's scope up to its snapshot, and that stays so because rows that come lie above one that is
  there (`WriteKeeps`); what is left of them are those below its position. A request that is let in
  has the scope of its cursor (`FollowKeeps`), whatever configuration the process was restarted with,
  and a cursor that strays is turned away (`StrayKeeps`). So a page selects exactly what is left
  (`PageIsLeft`), and a beginning of what is left, put behind a beginning, is a beginning (`PageExtends`).
  `PagesAnswer` says that what `Query` describes is there in every state, and that the row parsers never throw on it:
  ids are unique, so the longest beginning within the limit has either all rows or as many as the limit asks for
  (`GoesOn`, `ListExists`).
* `Limiter_proofs`: why a list that forgets is enough. Times are noted in their order (`Ordered`), so
  what `After` drops is a beginning of the list (`OldFirst`), and the rest counts everything that has
  passed in the window (`Covers`, `AfterCovers`). `After` is a recursive function; its value is found by
  induction on prefixes through the least number of a set (`LeastNumber`).
* `DashboardWrites_proofs`: first the sessions alone, `SessionsTyped`, `ExpiryFollows`, `FinalLogout`,
  `SessionsAdvance`. `SessionsInv` adds that the time of a request has been the clock once,
  that cookies, forms and answers name issued sessions, that a session being issued is known
  to nobody else, and that a late request belongs to a session whose logout was answered.
  Each statement is one lemma about the table (`InsertedRow`, `TouchedRow`, `RevokedRow`),
  shared by the action in which it succeeds and the one in which its answer is lost;
  `RequestStep` is the frame: the other requests keep what holds of them. Then
  `WritesImplementSessions`, that the throttle between the two statements
  of a write only decides between outcomes `ReadForWrite` allows, so that every theorem about
  sessions holds of the metered system (`MeteredLogout` states one); and `MeteredWrites` from
  `MeterInv`: the throttle of an operator covers all attempts he ever made, up to those
  older than the window.
* `GoogleSignIn_proofs`: `SignInTyped`; `CompletedBound`, `GenuineConflicts` and `BindingsLast` from
  `BindingInv`: the table is one to one, and what a callback has learnt of it (a row that is
  there, a key that is taken) stays true while others write, because rows never go;
  `CompletedOnce` from `CustodyInv`: a transaction is pending, held by one callback, or
  completed, never two of these, and its cookie is nowhere but in the browser that began it.
  Lemmas `BindingMove` and `CustodyMove` are the frames that every step of a request uses.
* `OperatorConsole_proofs`: first the bridge alone. `StatusTrue`, `FinalGiveUp`, `BoundedRetries` from
  `SessionInv` (a handle
  is set exactly while its callback is scheduled; each phase of the process allows only some
  states of socket and timer; the counter is ahead of the history by the pending retry),
  `NoSilentLoss`, `EligibleSends` from `EligibilityInv` (a group is known only if one
  of this process's messages is stored; a delivery that was answered with success is stored), and
  `RateKept` from `RateInv`: the inner limiter covers all calls of this process, so the outer one need
  not be relied on, and the calls of earlier processes lie before them in the history.
  A call that finds room keeps the rate (`RateAppend`): if this process has used up its allowance since some
  earlier call, its own call MaxSends ago is old and that one older; if it has not, its first call follows one
  for which the rate already held. Then `ConsoleImplementsBridge`, that whatever
  requests of the page do at the same
  time the bridge under it takes a step of ZaloBridge or none, and hence `ConsoleIsSafe`;
  `PageSessionsAreOver` from `PageInv`: an open session carries the end of its whole period and an
  idle end no later than its use allows, and no open session has an answered logout. The hard
  case is a logout that waits for its form while other requests renew the session
  (`OpenedStay`). `BoundedGuesses` from `GuessInv`: the counter of verifications under way is their number
  (`CountInv`), and even if all of these were noted now, only the allowed number of guesses would be younger
  than the window (`AdmittedInv`).
* `HubTraffic_proofs`, the loader: `SeparatedCredentials` for documents of any length. `Registered` says what
  the registries know: every secret used so far is in one of the three, one that is only among those of
  the OAs is the secret of OAs, and the secrets of a known App are those of an entry that was read.
  Lemma `EntryApart` shows that the selection each type consults is enough. `PairwiseVerdict`: the loader
  refuses exactly the documents in which an entry is malformed or two clash. Here the registries
  must be exact in both directions (`Named`, `InUse`, `InboxNames`): nothing is missing from them, so no clash is
  let through, and nothing is in them that no entry brought, so nothing is refused without a clash. `PublicUrls`:
  by `PublicAddresses`, the octet tests leave no address of a reserved block through, for all 2^24 prefixes.
* `HubTraffic_proofs`, start and traffic: `TrafficStarts`, that serving adds only steps that leave the start alone, and
  `StartedSeparated`, which carries the verdict of the loader through the start (`StartInv`).
  `ServedRegistered` from `RegistryInv`; no run checks its property, `ServedAreRegistered`, because for
  one process it follows step by step (what several do to each other is `OneAccountPerConnection`). `CatalogsAlike` from `CatalogInv`: for a document the loader has accepted,
  the catalogs refuse if and only if the two secrets of an App are equal. `ReceiptsTrue` from `MessageInv`.
  `StoredAddressed` and `AcknowledgedStored` from `FlowInv`: a busy worker serves a webhook that was sent and
  verified, and the rows of every selected connection that is not among those still to append are stored;
  all rows of an acknowledged webhook are stored; and every stored row is one of a webhook that was sent. What remains is about one
  webhook: that the connections `Selects` chooses are those of its accounts.

The hypotheses. `FormAssumed`: parsing leaves lists of connections, and a dashboard where one is given.
`OctetsAreBytes`: an IPv4 address has octets from 0 to 255. `RowsArePairs`: the rows other versions left in the registry
have two columns. `WellSent`: a webhook comes to a route that exists, and other than those of Meta it is one event of the
product of its route. `NumbersKept`: Meta reports a number under the WABA it is configured with; the
code drops an entry whose WABA is another one and acknowledges it, so `AcknowledgedStored` says nothing of such
entries. The instances of the runs satisfy all of them.

Only model-checked: liveness (`EveryOperationEnds`, `WalkEnds`, `ReconnectEnds`, `DeliveryEnds`,
`EventuallyStored`), because it rests on ENABLED, which the prover does not handle.
Only model-checked too are the three violations of section 5, which are counterexamples. No
module uses RECURSIVE operators.

## 7. Not modelled

* JSON, the form of keys of objects, trimming, signatures over raw bodies, rendering. The models take
  their result as an element of a set; which values a field accepts is part of RuntimeConfiguration
  where a refusal depends on it.
* Cryptography: fingerprints, HMACs, cookie signatures, tokens and password hashes are the values they
  stand for.
* Pool exhaustion, statement timeouts and TLS of the database client. They appear only as failed
  statements.
* The run of the migrations. What older versions leave behind is an input of the ledger.
* The verification request of Meta, the webhook route of the Bot configured by the older variables
  (it is the route of the document under another path), health routes, and connect and disconnect of
  connectors, which nothing calls.
* Parsing in the route that creates reply commands: a request HubLedger takes is one it has parsed.
* Notices and images of the operator page, and the provider's answer to a send, which decides nothing
  else in the page.
* The retries inside the bridge library and inside the HTTP client.

Hazards of the code about which it promises nothing, so that there is no property to state:

* Deliveries of consecutive messages of the bridge are not awaited and reach the hub in any order
  (`zalo-user-bridge.ts:261`).
* Both limiters forget the last minute with the process (`zalo-user-bridge.ts:622`), so that each restart allows as
  many calls again. `WithinRate` says that it allows no more than these.
* A Meta batch that names one account which is not configured is refused whole, however often it comes
  (`facebook-page-feature-catalog.ts:59`): the texts in it for accounts that are configured are never
  stored. `EventuallyStored` is about the other batches; of these it says nothing, and
  `AcknowledgedIsStored` that the provider is not told it could forget them.
* A page load whose touch comes after that of a later request finds no row and is sent to the
  login (`dashboard-routes.ts:790`), and a late refusal clears the cookie of a newer session
  (`:865`). Both are refusals of a valid session, not of a policy.
* A replay of a stored event takes an identity value (`postgres-inbound-event-store.ts:37`); the column
  has 2^63 of them.
* A writer of delivery attempts takes no lock, so an attempt may appear after an authorization saw none
  (`postgres-outbound-telegram-delivery-authorization-store.ts:56`); the repository has no such writer.
* Eviction in the write throttle (`dashboard-reply-intent-throttle.ts:56`) begins at 1,024 operators,
  and a document may name 100 at most: it is unreachable. The password throttle in
  `dashboard-auth.ts` is no longer called by any route.

## 8. Plan

Done, in the order in which it was planned, the most important behaviour first: ledger (tables,
detailed, atomic), its theorems, readers over the ledger's stream, sessions, Google sign-in and
bridge, each with theorems; then the write throttle over the sessions and the operator page over the
bridge, each proved to implement what it stands on; the configuration, start and traffic of
the API process; then the refinements of the ledger, the evidence of commands, the three
throttles, the verdict of the loader, the start and traffic, and the walks of the readers as theorems. Still to come:

1. Theorem: that no two operations of the ledger hold what the other waits for, for any number of clients (the run of
   `EveryOperationEnds` shows it for two); `AcceptedUrlsArePublic` for a process that serves, like
   `StartedSeparated`.
2. `SchemaMigrations`: two migrators and the lock, versions applied once and in order, code that
   starts over an older schema. This would replace `LegacyDatabases` as an input by what the
   migrations are shown to leave behind.
