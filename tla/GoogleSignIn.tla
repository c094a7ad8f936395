---------------------------- MODULE GoogleSignIn ----------------------------
(***************************************************************************)
(* Sign-in of operators with Google: one-shot transactions that live in    *)
(* the process, the cookie that ties each to a browser, the code Google    *)
(* sends back, and the table that binds a Google account to one operator.  *)
(*                                                                         *)
(* Between leaving for Google and the last statement of the callback the   *)
(* operator may use other tabs, come back with another account, reload the *)
(* callback or open it in another browser; the process may be restarted    *)
(* with another configuration.  A state parameter stands for the           *)
(* transaction it was drawn with, and so do verifier and nonce.            *)
(***************************************************************************)
EXTENDS Integers

CONSTANTS
  Principal,        \* operators
  Account,          \* Google accounts
  Browser,
  Transaction,      \* transactions that may be created
  Handler,          \* requests in flight at a time
  Config,           \* configurations: [principals, bootstrap]
  EarlierSessions,  \* whom a browser belongs to from versions without Google
  MaxRestarts,      \* bound on restarts of the process
  Nobody,           \* no session, no bootstrap, no browser
  NoAccount,
  NoTransaction

Owner == Principal \cup {Nobody}

ASSUME SignInAssumption ==
  /\ Nobody \notin Principal \cup Browser /\ NoAccount \notin Account
  /\ NoTransaction \notin Transaction
  /\ Config \subseteq [principals : SUBSET Principal, bootstrap : [Account -> Owner]]
  /\ \A cfg \in Config, a \in Account :
       cfg.bootstrap[a] \in cfg.principals \cup {Nobody}
  /\ EarlierSessions \subseteq [Browser -> Owner]
  /\ MaxRestarts \in Nat

VARIABLES
  config,        \* of the running process
  restarts,      \* how often it was restarted
  transactions,  \* the pending transactions of the process
  began,         \* browser and process of every transaction created
  jar,           \* the two cookies of each browser
  away,          \* transactions with a tab at Google
  urls,          \* callback addresses Google has answered with
  identities,    \* dashboard_google_identities
  handlers,      \* the requests in flight
  completed      \* sign-ins and links that went through

vars == <<config, restarts, transactions, began, jar, away, urls, identities,
          handlers, completed>>

Mode == {"login", "link"}
Pending == [id : Transaction, mode : Mode, principal : Owner]
Url == [id : Transaction, account : Account]
Identity == [account : Account, principal : Principal]
Start == [browser : Browser \cup {Nobody}, process : 0..MaxRestarts]
Completion == [id : Transaction, browser : Browser, process : 0..MaxRestarts,
               account : Account, principal : Principal]

NotBegun == [browser |-> Nobody, process |-> 0]

(***************************************************************************)
(* A request in flight: the statement or call it awaits, the cookies it    *)
(* came with, its transaction, what it has written, and what its answer    *)
(* says and does to the jar.                                               *)
(***************************************************************************)
HandlerState ==
  [at : {"idle", "read", "touch", "exchange", "find", "bind", "classify",
         "insert", "answer"},
   browser : Browser \cup {Nobody}, session : Owner,
   id : Transaction \cup {NoTransaction}, mode : Mode, principal : Owner,
   account : Account \cup {NoAccount}, linked : BOOLEAN,
   outcome : {"sent", "done", "failed", "conflict"},
   transactionCookie : {"keep", "clear", "set"},
   sessionCookie : {"keep", "clear", "set"}]

Free == [at |-> "idle", browser |-> Nobody, session |-> Nobody,
         id |-> NoTransaction, mode |-> "login", principal |-> Nobody,
         account |-> NoAccount, linked |-> FALSE, outcome |-> "sent",
         transactionCookie |-> "keep", sessionCookie |-> "keep"]

Init ==
  /\ restarts = 0 /\ config \in Config
  /\ transactions = {}
  /\ began = [id \in Transaction |-> NotBegun]
  /\ \E earlier \in EarlierSessions :
       jar = [b \in Browser |-> [id |-> NoTransaction, session |-> earlier[b]]]
  /\ away = {} /\ urls = {}
  /\ identities = {}
  /\ handlers = [h \in Handler |-> Free]
  /\ completed = {}

-----------------------------------------------------------------------------
(* Transactions of the process.                                            *)

\* Ten minutes have passed: purgeExpired of the next call removes it.
Expires(t) ==
  /\ transactions' = transactions \ {t}
  /\ UNCHANGED <<config, restarts, began, jar, away, urls, identities, handlers, completed>>

\* create, and the answer that sends the browser to Google.
StartAuthorization(h, q, mode, principal) ==
  \E id \in {t \in Transaction : began[t] = NotBegun} :
    /\ transactions' = transactions \cup
         {[id |-> id, mode |-> mode, principal |-> principal]}
    /\ began' = [began EXCEPT ![id] = [browser |-> q.browser, process |-> restarts]]
    /\ handlers' = [handlers EXCEPT ![h] =
         [Free EXCEPT !.at = "answer", !.browser = q.browser, !.id = id,
                      !.transactionCookie = "set"]]

\* Fault: the cookie is not compared.
FoundByState(id, u) == {t \in transactions : t.id = u.id}

\* consume finds the transaction of the cookie, if the state is its own.
Found(id, u) == {t \in transactions : t.id = id /\ t.id = u.id}

\* Fault: it stays.
Kept(t) == transactions

\* and takes it.
Consumed(t) == transactions \ {t}

-----------------------------------------------------------------------------
(* Requests.                                                               *)

Request(b) == [Free EXCEPT !.browser = b, !.session = jar[b].session, !.id = jar[b].id]

\* GET of the login route, or of the link route of older pages.
BeginLogin(h, b) ==
  /\ handlers[h].at = "idle"
  /\ StartAuthorization(h, Request(b), "login", Nobody)
  /\ UNCHANGED <<config, restarts, jar, away, urls, identities, completed>>

\* POST of the link route from a page of the session in the jar.
SubmitLink(h, b) ==
  /\ handlers[h].at = "idle" /\ jar[b].session # Nobody
  /\ handlers' = [handlers EXCEPT ![h] = [Request(b) EXCEPT !.at = "read", !.mode = "link"]]
  /\ UNCHANGED <<config, restarts, transactions, began, jar, away, urls,
                 identities, completed>>

\* The answer of a request; that of a callback clears the transaction cookie.
Reply(q, outcome, sessionCookie) ==
  [q EXCEPT !.at = "answer", !.outcome = outcome,
            !.transactionCookie = IF q.at = "read" THEN "keep" ELSE "clear",
            !.sessionCookie = sessionCookie]

Answers(h, outcome, sessionCookie) ==
  handlers' = [handlers EXCEPT ![h] = Reply(@, outcome, sessionCookie)]

Awaits(h, statement) == handlers' = [handlers EXCEPT ![h].at = statement]

\* readDashboardSession, whose result depends on what DashboardSessions says.
BeginLink(h) ==
  LET q == handlers[h] IN
  /\ q.at = "read"
  /\ \/ StartAuthorization(h, q, "link", q.session)
     \/ Answers(h, "failed", "clear") /\ UNCHANGED <<transactions, began>>
  /\ UNCHANGED <<config, restarts, jar, away, urls, identities, completed>>

\* Somebody picks an account; Google answers with the callback and a code.
ChooseAccount(id, a) ==
  /\ urls' = urls \cup {[id |-> id, account |-> a]}
  /\ UNCHANGED <<config, restarts, transactions, began, jar, away,
                 identities, handlers, completed>>

\* A browser comes back without a code, because consent was refused.
RefusedCallback(h, b) ==
  /\ handlers[h].at = "idle" /\ away # {}
  /\ handlers' = [handlers EXCEPT ![h] = Reply(Request(b), "failed", "keep")]
  /\ UNCHANGED <<config, restarts, transactions, began, jar, away, urls,
                 identities, completed>>

\* A browser opens a callback: its own, once or again, or one of another.
Callback(h, b, u) ==
  LET q == Request(b) IN
  /\ handlers[h].at = "idle"
  /\ \/ /\ Found(q.id, u) = {}
        /\ handlers' = [handlers EXCEPT ![h] = Reply(q, "failed", "keep")]
        /\ UNCHANGED transactions
     \/ \E t \in Found(q.id, u) :
          /\ transactions' = Consumed(t)
          /\ handlers' = [handlers EXCEPT ![h] =
               [q EXCEPT !.at = IF t.mode = "link" THEN "touch" ELSE "exchange",
                         !.id = t.id, !.mode = t.mode, !.principal = t.principal,
                         !.account = u.account]]
  /\ UNCHANGED <<config, restarts, began, jar, away, urls, identities, completed>>

-----------------------------------------------------------------------------
(* What the callback awaits.                                               *)

\* The session that came back must be one of the operator who left.
TouchForLink(h) ==
  LET q == handlers[h] IN
  /\ q.at = "touch"
  /\ \/ q.session # Nobody /\ q.session = q.principal /\ Awaits(h, "exchange")
     \/ Answers(h, "failed", "clear")
  /\ UNCHANGED <<config, restarts, transactions, began, jar, away, urls,
                 identities, completed>>

\* exchangeAuthorizationCode: Google redeems the code, which was issued for the
\* verifier and nonce of this transaction, or it does not.
Exchange(h) ==
  LET q == handlers[h] IN
  /\ q.at = "exchange"
  /\ \/ Awaits(h, IF q.mode = "link" THEN "bind" ELSE "find")
     \/ Answers(h, "failed", "keep")
  /\ UNCHANGED <<config, restarts, transactions, began, jar, away, urls,
                 identities, completed>>

\* findGoogleBootstrapPrincipal knows the address of the account.
Bootstraps(a) == config.bootstrap[a] # Nobody

\* findPrincipalId, and the bootstrap of an account that has none.
FindPrincipal(h) ==
  LET q == handlers[h]
      linked == {r.principal : r \in {i \in identities : i.account = q.account}}
      ProceedAs(p, statement) ==
        handlers' = [handlers EXCEPT ![h] = [q EXCEPT !.at = statement, !.principal = p]]
  IN
  /\ q.at = "find"
  /\ \/ \E p \in linked \cap config.principals : ProceedAs(p, "insert")
     \/ /\ linked = {} /\ Bootstraps(q.account)
        /\ ProceedAs(config.bootstrap[q.account], "bind")
     \/ /\ linked \cap config.principals = {}
        /\ linked # {} \/ ~Bootstraps(q.account)
        /\ Answers(h, "failed", "keep")
  /\ UNCHANGED <<config, restarts, transactions, began, jar, away, urls,
                 identities, completed>>

Completed(q) ==
  [id |-> q.id, browser |-> q.browser, process |-> restarts,
   account |-> q.account, principal |-> q.principal]

\* bind has returned created, or idempotent_replay.
Bound(h, created) ==
  LET q == [handlers[h] EXCEPT !.linked = created] IN
  \/ /\ q.mode = "link"
     /\ handlers' = [handlers EXCEPT ![h] = Reply(q, "done", "keep")]
     /\ completed' = completed \cup {Completed(q)}
  \/ /\ q.mode = "login"
     /\ handlers' = [handlers EXCEPT ![h] = [q EXCEPT !.at = "insert"]]
     /\ UNCHANGED completed

\* Fault: only the account must be new.
FreeForAccount(a, p) == \A r \in identities : r.account # a

\* INSERT_IDENTITY_SQL does nothing on a conflict with either key.
FreeToBind(a, p) == \A r \in identities : r.account # a /\ r.principal # p

Insert(q) == identities' = identities \cup {[account |-> q.account, principal |-> q.principal]}

Bind(h) ==
  LET q == handlers[h] IN
  /\ q.at = "bind"
  /\ \/ FreeToBind(q.account, q.principal) /\ Insert(q) /\ Bound(h, TRUE)
     \/ /\ ~FreeToBind(q.account, q.principal)
        /\ Awaits(h, "classify")
        /\ UNCHANGED <<identities, completed>>
  /\ UNCHANGED <<config, restarts, transactions, began, jar, away, urls>>

\* Fault: any row of the account or the operator passes for a replay.
ReplayOfAnyRow(a, p) == \E r \in identities : r.account = a \/ r.principal = p

\* Fault: whoever did not insert has lost.
NeverReplay(a, p) == FALSE

\* FIND_IDENTITY_OR_PRINCIPAL_SQL: the row is there, whoever wrote it.
IsReplay(a, p) == [account |-> a, principal |-> p] \in identities

ClassifyBinding(h) ==
  LET q == handlers[h] IN
  /\ q.at = "classify"
  /\ \/ IsReplay(q.account, q.principal) /\ Bound(h, FALSE)
     \/ /\ ~IsReplay(q.account, q.principal)
        /\ Answers(h, "conflict", "keep")
        /\ UNCHANGED completed
  /\ UNCHANGED <<config, restarts, transactions, began, jar, away, urls, identities>>

\* createSession of the sign-in.
CreateSession(h) ==
  /\ handlers[h].at = "insert"
  /\ Answers(h, "done", "set")
  /\ completed' = completed \cup {Completed(handlers[h])}
  /\ UNCHANGED <<config, restarts, transactions, began, jar, away, urls, identities>>

\* A statement fails, before or after it took effect: 500.
StatementFails(h) ==
  LET q == handlers[h]
      Fail(linked) == handlers' = [handlers EXCEPT ![h] =
                        Reply([q EXCEPT !.linked = linked], "failed", "keep")]
  IN
  /\ q.at \in {"read", "touch", "find", "bind", "classify", "insert"}
  /\ \/ Fail(q.linked) /\ UNCHANGED identities
     \/ q.at = "bind" /\ FreeToBind(q.account, q.principal) /\ Insert(q) /\ Fail(TRUE)
  /\ UNCHANGED <<config, restarts, transactions, began, jar, away, urls, completed>>

\* The answer reaches the browser.
Deliver(h) ==
  LET q == handlers[h] IN
  /\ q.at = "answer"
  /\ jar' = [jar EXCEPT ![q.browser] =
       [id |-> CASE q.transactionCookie = "keep"  -> @.id
                 [] q.transactionCookie = "set"   -> q.id
                 [] q.transactionCookie = "clear" -> NoTransaction,
        session |-> CASE q.sessionCookie = "keep"  -> @.session
                      [] q.sessionCookie = "set"   -> q.principal
                      [] q.sessionCookie = "clear" -> Nobody]]
  /\ away' = IF q.transactionCookie = "set" THEN away \cup {q.id} ELSE away
  /\ handlers' = [handlers EXCEPT ![h] = Free]
  /\ UNCHANGED <<config, restarts, transactions, began, urls, identities, completed>>

\* Fault: transactions outlive the process.
Surviving == transactions

\* The transactions of a new process.
NoTransactions == {}

Restart(cfg) ==
  /\ restarts < MaxRestarts
  /\ restarts' = restarts + 1
  /\ config' = cfg
  /\ transactions' = NoTransactions
  /\ handlers' = [h \in Handler |-> Free]
  /\ UNCHANGED <<began, jar, away, urls, identities, completed>>

Next ==
  \/ \E t \in transactions : Expires(t)
  \/ \E h \in Handler, b \in Browser :
       \/ BeginLogin(h, b) \/ SubmitLink(h, b) \/ RefusedCallback(h, b)
       \/ \E u \in urls : Callback(h, b, u)
  \/ \E id \in away, a \in Account : ChooseAccount(id, a)
  \/ \E h \in Handler :
       \/ BeginLink(h) \/ TouchForLink(h) \/ Exchange(h) \/ FindPrincipal(h)
       \/ Bind(h) \/ ClassifyBinding(h) \/ CreateSession(h)
       \/ StatementFails(h) \/ Deliver(h)
  \/ \E cfg \in Config : Restart(cfg)

Spec == Init /\ [][Next]_vars

-----------------------------------------------------------------------------
\* Every variable has its type.
TypeOK ==
  /\ restarts \in 0..MaxRestarts /\ config \in Config
  /\ transactions \subseteq Pending
  /\ began \in [Transaction -> Start]
  /\ jar \in [Browser -> [id : Transaction \cup {NoTransaction}, session : Owner]]
  /\ away \subseteq Transaction /\ urls \subseteq Url
  /\ identities \subseteq Identity
  /\ handlers \in [Handler -> HandlerState]
  /\ completed \subseteq Completion

\* A transaction completes at most one sign-in or link: in the browser that
\* began it, in the process that began it, whichever account comes back first
\* and however often its callback is reloaded or opened elsewhere.
OneCompletion ==
  \A s \in completed :
    /\ \A t \in completed : s.id = t.id => s = t
    /\ began[s.id] = [browser |-> s.browser, process |-> s.process]

\* Whoever was signed in or told that an account is linked stands in the
\* table with that very account, although looking up, inserting and
\* classifying are three statements that others come between.
CompletedAreBound ==
  \A s \in completed : [account |-> s.account, principal |-> s.principal] \in identities

\* A link or a bootstrap is refused as a conflict only when the account or
\* the operator belongs to somebody else, for good.
ConflictsAreGenuine ==
  \A h \in Handler : handlers[h].outcome = "conflict" =>
    \E r \in identities :
      \/ r.account = handlers[h].account /\ r.principal # handlers[h].principal
      \/ r.account # handlers[h].account /\ r.principal = handlers[h].principal

\* An account belongs to one operator and an operator has one account, and
\* neither ever changes.
BindingsAreForever ==
  [][/\ identities \subseteq identities'
     /\ \A r1, r2 \in identities' :
          r1.account = r2.account \/ r1.principal = r2.principal => r1 = r2]_vars

\* "A generic failure means no identity link was written", says the guide of
\* the callback (docs/operations/dashboard-google-sign-in.md:91).
FailureWritesNoLink ==
  \A h \in Handler : handlers[h].outcome \in {"failed", "conflict"} => ~handlers[h].linked

=============================================================================
