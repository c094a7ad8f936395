------------------------ MODULE GoogleSignIn_proofs ------------------------
(***************************************************************************)
(* Types, what the table of bindings guarantees, and the custody of a      *)
(* transaction from the browser that began it to the answer it completes.  *)
(***************************************************************************)
EXTENDS GoogleSignIn, TLAPS

\* A callback that has consumed its transaction and not yet answered.
Holding == {"touch", "exchange", "find", "bind", "classify", "insert"}

\* The fields that a statement uses exist by the time it runs.
Shape(q) ==
  /\ q.at # "idle" => q.browser \in Browser
  /\ q.at \in Holding => q.id \in Transaction /\ q.account \in Account
  /\ q.transactionCookie = "set" => q.id \in Transaction /\ q.browser \in Browser
  /\ \/ q.at \in {"bind", "classify", "insert"}
     \/ q.at = "exchange" /\ q.mode = "link"
     => q.principal \in Principal

TypeInv == TypeOK /\ \A h \in Handler : Shape(handlers[h])

OneToOne ==
  \A r1, r2 \in identities :
    r1.account = r2.account \/ r1.principal = r2.principal => r1 = r2

\* What a callback has learnt of the table stays true until it uses it.
Learnt(q) ==
  /\ q.at = "insert" => IsReplay(q.account, q.principal)
  /\ q.at = "classify" => ~FreeToBind(q.account, q.principal)
  /\ q.outcome = "conflict" => q.at = "answer"

Genuine(q) ==
  q.outcome = "conflict" =>
    \E r \in identities :
      \/ r.account = q.account /\ r.principal # q.principal
      \/ r.account # q.account /\ r.principal = q.principal

BindingInv ==
  /\ OneToOne
  /\ \A h \in Handler : Learnt(handlers[h]) /\ Genuine(handlers[h])
  /\ CompletedAreBound

(***************************************************************************)
(* A transaction is pending, held by one callback, or completed, and its   *)
(* cookie is nowhere but in the browser that began it.                     *)
(***************************************************************************)
CookieAtHome == \A b \in Browser : jar[b].id \in Transaction => began[jar[b].id].browser = b

CookieOnItsWay == \A h \in Handler :
  handlers[h].transactionCookie = "set" =>
    began[handlers[h].id].browser = handlers[h].browser

PendingOnce == \A t \in transactions :
  /\ began[t.id].browser \in Browser /\ began[t.id].process = restarts
  /\ \A u \in transactions : t.id = u.id => t = u
  /\ \A s \in completed : s.id # t.id

HeldOnce == \A h \in Handler :
  LET q == handlers[h] IN
  q.at \in Holding =>
    /\ began[q.id] = [browser |-> q.browser, process |-> restarts]
    /\ \A t \in transactions : t.id # q.id
    /\ \A s \in completed : s.id # q.id
    /\ \A g \in Handler : handlers[g].at \in Holding /\ handlers[g].id = q.id => g = h

CustodyInv == CookieAtHome /\ CookieOnItsWay /\ PendingOnce /\ HeldOnce /\ OneCompletion

-----------------------------------------------------------------------------
(* Types.                                                                  *)

\* The state of a request that has not begun.
LEMMA FreeTyped == Free \in HandlerState /\ Shape(Free)
  BY SignInAssumption DEF HandlerState, Free, Shape, Holding, Owner, Mode

\* A request carries the cookies of its browser.
LEMMA RequestTyped ==
  ASSUME TypeInv, NEW b \in Browser
  PROVE  /\ Request(b) \in HandlerState
         /\ Request(b).browser = b /\ Request(b).transactionCookie = "keep"
  BY SignInAssumption
  DEF TypeInv, TypeOK, HandlerState, Free, Request, Shape, Holding, Owner, Mode

\* An answer has its type and asks for nothing more.
LEMMA ReplyTyped ==
  ASSUME NEW q \in HandlerState, q.browser \in Browser,
         NEW outcome \in {"done", "failed", "conflict"}, NEW cookie \in {"keep", "clear", "set"}
  PROVE  Reply(q, outcome, cookie) \in HandlerState /\ Shape(Reply(q, outcome, cookie))
  <1>1. PICK kept \in {"keep", "clear"} :
          Reply(q, outcome, cookie) =
            [q EXCEPT !.at = "answer", !.outcome = outcome,
                      !.transactionCookie = kept, !.sessionCookie = cookie]
    BY DEF Reply
  <1> DEFINE a == [q EXCEPT !.at = "answer", !.outcome = outcome,
                            !.transactionCookie = kept, !.sessionCookie = cookie]
  <1>2. a \in HandlerState
    BY DEF HandlerState
  <1>3. a.at = "answer" /\ a.browser = q.browser /\ a.transactionCookie = kept
    BY DEF HandlerState
  <1> HIDE DEF a
  <1>4. Shape(a)
    BY <1>3 DEF Shape, Holding
  <1>5. QED
    BY <1>1, <1>2, <1>4 DEF a

\* Creating a transaction keeps the types.
LEMMA StartTyped ==
  ASSUME TypeInv, NEW h \in Handler, NEW q \in HandlerState, q.browser \in Browser,
         NEW mode \in Mode, NEW principal \in Owner,
         StartAuthorization(h, q, mode, principal)
  PROVE  /\ transactions' \subseteq Pending /\ began' \in [Transaction -> Start]
         /\ handlers' \in [Handler -> HandlerState]
         /\ \A g \in Handler : Shape(handlers'[g])
  <1>1. PICK id \in Transaction :
          /\ transactions' = transactions \cup
               {[id |-> id, mode |-> mode, principal |-> principal]}
          /\ began' = [began EXCEPT ![id] = [browser |-> q.browser, process |-> restarts]]
          /\ handlers' = [handlers EXCEPT ![h] =
               [Free EXCEPT !.at = "answer", !.browser = q.browser, !.id = id,
                            !.transactionCookie = "set"]]
    BY DEF StartAuthorization
  <1>2. transactions' \subseteq Pending
    BY <1>1 DEF TypeInv, TypeOK, Pending
  <1>3. began' \in [Transaction -> Start]
    BY <1>1 DEF TypeInv, TypeOK, Start
  <1> DEFINE answer == [Free EXCEPT !.at = "answer", !.browser = q.browser, !.id = id,
                                    !.transactionCookie = "set"]
  <1>4. answer \in HandlerState /\ Shape(answer)
    <2>1. answer \in HandlerState
      <3>1. Free \in HandlerState
        BY FreeTyped
      <3>2. QED
        BY <3>1, ZenonT(60) DEF HandlerState
    <2>2. /\ answer.at = "answer" /\ answer.browser = q.browser /\ answer.id = id
          /\ answer.transactionCookie = "set"
      BY DEF Free
    <2>3. Shape(answer)
      BY <2>2 DEF Shape, Holding
    <2>4. QED
      BY <2>1, <2>3
  <1>5. QED
    BY <1>1, <1>2, <1>3, <1>4 DEF TypeInv, TypeOK

\* One request moves on to a well-formed state.
LEMMA MoveTyped ==
  ASSUME TypeInv, NEW h \in Handler, NEW q \in HandlerState, Shape(q),
         handlers' = [handlers EXCEPT ![h] = q]
  PROVE  /\ handlers' \in [Handler -> HandlerState]
         /\ \A g \in Handler : Shape(handlers'[g])
  BY DEF TypeInv, TypeOK

\* A callback that is done with its binding goes on or answers.
LEMMA BoundTyped ==
  ASSUME TypeInv, NEW h \in Handler, NEW created \in BOOLEAN,
         handlers[h].at \in {"bind", "classify"}, Bound(h, created)
  PROVE  /\ handlers' \in [Handler -> HandlerState]
         /\ \A g \in Handler : Shape(handlers'[g])
         /\ completed' \subseteq Completion
  <1> DEFINE q == [handlers[h] EXCEPT !.linked = created]
  <1>1. handlers[h] \in HandlerState /\ Shape(handlers[h])
    BY DEF TypeInv, TypeOK
  <1>2. q \in HandlerState /\ Shape(q) /\ q.browser \in Browser /\ q.id \in Transaction
        /\ q.account \in Account /\ q.principal \in Principal /\ q.at = handlers[h].at
    BY <1>1 DEF HandlerState, Shape, Holding
  <1>3. CASE q.mode = "link"
    <2>1. handlers' = [handlers EXCEPT ![h] = Reply(q, "done", "keep")]
          /\ completed' = completed \cup {Completed(q)}
      BY <1>3 DEF Bound
    <2>2. Completed(q) \in Completion
      BY <1>2 DEF Completed, Completion, TypeInv, TypeOK
    <2>3. Reply(q, "done", "keep") \in HandlerState /\ Shape(Reply(q, "done", "keep"))
      BY <1>2, ReplyTyped
    <2>4. QED
      BY <2>1, <2>2, <2>3, MoveTyped DEF TypeInv, TypeOK
  <1>4. CASE q.mode # "link"
    <2>1. handlers' = [handlers EXCEPT ![h] = [q EXCEPT !.at = "insert"]]
          /\ completed' = completed
      BY <1>4 DEF Bound
    <2>2. [q EXCEPT !.at = "insert"] \in HandlerState /\ Shape([q EXCEPT !.at = "insert"])
      BY <1>2 DEF HandlerState, Shape, Holding
    <2>3. QED
      BY <2>1, <2>2, MoveTyped DEF TypeInv, TypeOK
  <1>5. QED
    BY <1>3, <1>4

\* Every step keeps the types and the shape of every request.
LEMMA TypeStep == TypeInv /\ [Next]_vars => TypeInv'
  <1> SUFFICES ASSUME TypeInv, [Next]_vars PROVE TypeInv'
    OBVIOUS
  <1>1. /\ restarts \in 0..MaxRestarts /\ config \in Config
        /\ transactions \subseteq Pending /\ began \in [Transaction -> Start]
        /\ jar \in [Browser -> [id : Transaction \cup {NoTransaction}, session : Owner]]
        /\ away \subseteq Transaction /\ urls \subseteq Url
        /\ identities \subseteq Identity
        /\ handlers \in [Handler -> HandlerState] /\ completed \subseteq Completion
        /\ \A h \in Handler : handlers[h] \in HandlerState /\ Shape(handlers[h])
    BY DEF TypeInv, TypeOK
  <1>2. ASSUME NEW t \in transactions, Expires(t)
        PROVE  TypeInv'
    BY <1>1, <1>2 DEF TypeInv, TypeOK, Expires
  <1>3. ASSUME NEW h \in Handler, NEW b \in Browser, BeginLogin(h, b)
        PROVE  TypeInv'
    <2>1. Request(b) \in HandlerState /\ Request(b).browser = b
      BY RequestTyped DEF Request, Free
    <2>2. /\ StartAuthorization(h, Request(b), "login", Nobody)
          /\ UNCHANGED <<config, restarts, jar, away, urls, identities, completed>>
      BY <1>3 DEF BeginLogin
    <2>3. "login" \in Mode /\ Nobody \in Owner
      BY DEF Mode, Owner
    <2>4. QED
      BY <1>1, <2>1, <2>2, <2>3, StartTyped DEF TypeInv, TypeOK
  <1>4. ASSUME NEW h \in Handler, NEW b \in Browser, SubmitLink(h, b)
        PROVE  TypeInv'
    <2> DEFINE q == [Request(b) EXCEPT !.at = "read", !.mode = "link"]
    <2>1. q \in HandlerState
      <3>1. Request(b) \in HandlerState
        BY RequestTyped
      <3>2. QED
        BY <3>1 DEF HandlerState, Mode
    <2>2. q.at = "read" /\ q.browser = b /\ q.transactionCookie = "keep"
      BY DEF Request, Free
    <2>3. Shape(q)
      BY <2>2 DEF Shape, Holding
    <2>4. QED
      BY <1>1, <1>4, <2>1, <2>3, MoveTyped DEF SubmitLink, TypeInv, TypeOK
  <1>5. ASSUME NEW h \in Handler, NEW b \in Browser, RefusedCallback(h, b)
        PROVE  TypeInv'
    <2>1. Request(b) \in HandlerState /\ Request(b).browser \in Browser
      BY RequestTyped DEF Request, Free
    <2>2. /\ Reply(Request(b), "failed", "keep") \in HandlerState
          /\ Shape(Reply(Request(b), "failed", "keep"))
      BY <2>1, ReplyTyped
    <2>3. QED
      BY <1>1, <1>5, <2>2, MoveTyped DEF RefusedCallback, TypeInv, TypeOK
  <1>6. ASSUME NEW h \in Handler, NEW b \in Browser, NEW u \in urls, Callback(h, b, u)
        PROVE  TypeInv'
    <2>1. Request(b) \in HandlerState /\ Request(b).browser = b
      BY RequestTyped DEF Request, Free
    <2>2. UNCHANGED <<config, restarts, began, jar, away, urls, identities, completed>>
      BY <1>6 DEF Callback
    <2>3. CASE /\ handlers' = [handlers EXCEPT ![h] = Reply(Request(b), "failed", "keep")]
               /\ UNCHANGED transactions
      <3>1. /\ Reply(Request(b), "failed", "keep") \in HandlerState
            /\ Shape(Reply(Request(b), "failed", "keep"))
        BY <2>1, ReplyTyped
      <3>2. QED
        BY <1>1, <2>2, <2>3, <3>1, MoveTyped DEF TypeInv, TypeOK
    <2>4. ASSUME NEW t \in Found(Request(b).id, u), transactions' = Consumed(t),
                 handlers' = [handlers EXCEPT ![h] =
                   [Request(b) EXCEPT !.at = IF t.mode = "link" THEN "touch" ELSE "exchange",
                         !.id = t.id, !.mode = t.mode, !.principal = t.principal,
                         !.account = u.account]]
          PROVE  TypeInv'
      <3> DEFINE q == [Request(b) EXCEPT !.at = IF t.mode = "link" THEN "touch" ELSE "exchange",
                         !.id = t.id, !.mode = t.mode, !.principal = t.principal,
                         !.account = u.account]
      <3>1. t \in Pending /\ u \in Url
        BY <1>1, <2>4 DEF Found
      <3>2. q \in HandlerState
        BY <2>1, <3>1, ZenonT(40) DEF HandlerState, Pending, Url
      <3>3. Shape(q)
        <4>1. q.browser = b /\ q.id = t.id /\ q.account = u.account /\ q.mode = t.mode
              /\ q.at = (IF t.mode = "link" THEN "touch" ELSE "exchange")
              /\ q.transactionCookie = "keep"
          BY DEF Request, Free
        <4>2. QED
          BY <3>1, <4>1 DEF Shape, Holding, Pending, Url
      <3>4. transactions' \subseteq Pending
        BY <1>1, <2>4 DEF Consumed
      <3> HIDE DEF q
      <3>5. handlers' = [handlers EXCEPT ![h] = q]
        BY <2>4 DEF q
      <3>6. QED
        BY <1>1, <2>2, <3>2, <3>3, <3>4, <3>5, MoveTyped DEF TypeInv, TypeOK
    <2>5. QED
      BY <1>6, <2>3, <2>4 DEF Callback
  <1>7. ASSUME NEW id \in away, NEW a \in Account, ChooseAccount(id, a)
        PROVE  TypeInv'
    BY <1>1, <1>7 DEF ChooseAccount, TypeInv, TypeOK, Url
  <1>8. ASSUME NEW h \in Handler, BeginLink(h)
        PROVE  TypeInv'
    <2>1. handlers[h].browser \in Browser /\ handlers[h].session \in Owner /\ "link" \in Mode
      BY <1>1, <1>8 DEF BeginLink, Shape, HandlerState, Mode
    <2>2. UNCHANGED <<config, restarts, jar, away, urls, identities, completed>>
      BY <1>8 DEF BeginLink
    <2>3. CASE StartAuthorization(h, handlers[h], "link", handlers[h].session)
      BY <1>1, <2>1, <2>2, <2>3, StartTyped DEF TypeInv, TypeOK
    <2>4. CASE Answers(h, "failed", "clear") /\ UNCHANGED <<transactions, began>>
      <3>1. /\ Reply(handlers[h], "failed", "clear") \in HandlerState
            /\ Shape(Reply(handlers[h], "failed", "clear"))
        BY <1>1, <2>1, ReplyTyped
      <3>2. QED
        BY <1>1, <2>2, <2>4, <3>1, MoveTyped DEF Answers, TypeInv, TypeOK
    <2>5. QED
      BY <1>8, <2>3, <2>4 DEF BeginLink
  <1>9. ASSUME NEW h \in Handler, TouchForLink(h)
        PROVE  TypeInv'
    <2>1. UNCHANGED <<config, restarts, transactions, began, jar, away, urls,
                      identities, completed>>
      BY <1>9 DEF TouchForLink
    <2>2. CASE /\ handlers[h].session # Nobody /\ handlers[h].session = handlers[h].principal
               /\ Awaits(h, "exchange")
      <3>1. /\ [handlers[h] EXCEPT !.at = "exchange"] \in HandlerState
            /\ Shape([handlers[h] EXCEPT !.at = "exchange"])
        BY <1>1, <1>9, <2>2 DEF TouchForLink, HandlerState, Shape, Holding, Owner
      <3>2. QED
        BY <1>1, <2>1, <2>2, <3>1, MoveTyped DEF Awaits, TypeInv, TypeOK
    <2>3. CASE Answers(h, "failed", "clear")
      <3>1. /\ Reply(handlers[h], "failed", "clear") \in HandlerState
            /\ Shape(Reply(handlers[h], "failed", "clear"))
        BY <1>1, <1>9, ReplyTyped DEF TouchForLink, Shape
      <3>2. QED
        BY <1>1, <2>1, <2>3, <3>1, MoveTyped DEF Answers, TypeInv, TypeOK
    <2>4. QED
      BY <1>9, <2>2, <2>3 DEF TouchForLink
  <1>10. ASSUME NEW h \in Handler, Exchange(h)
         PROVE  TypeInv'
    <2>1. UNCHANGED <<config, restarts, transactions, began, jar, away, urls,
                      identities, completed>>
      BY <1>10 DEF Exchange
    <2>2. CASE Awaits(h, IF handlers[h].mode = "link" THEN "bind" ELSE "find")
      <3> DEFINE q == [handlers[h] EXCEPT !.at =
                         IF handlers[h].mode = "link" THEN "bind" ELSE "find"]
      <3>1. q \in HandlerState /\ Shape(q)
        BY <1>1, <1>10 DEF Exchange, HandlerState, Shape, Holding
      <3>2. QED
        BY <1>1, <2>1, <2>2, <3>1, MoveTyped DEF Awaits, TypeInv, TypeOK
    <2>3. CASE Answers(h, "failed", "keep")
      <3>1. /\ Reply(handlers[h], "failed", "keep") \in HandlerState
            /\ Shape(Reply(handlers[h], "failed", "keep"))
        BY <1>1, <1>10, ReplyTyped DEF Exchange, Shape
      <3>2. QED
        BY <1>1, <2>1, <2>3, <3>1, MoveTyped DEF Answers, TypeInv, TypeOK
    <2>4. QED
      BY <1>10, <2>2, <2>3 DEF Exchange
  <1>11. ASSUME NEW h \in Handler, FindPrincipal(h)
         PROVE  TypeInv'
    <2>1. UNCHANGED <<config, restarts, transactions, began, jar, away, urls,
                      identities, completed>>
      BY <1>11 DEF FindPrincipal
    <2>2. ASSUME NEW p \in Principal, NEW statement \in {"insert", "bind"},
                 handlers' = [handlers EXCEPT ![h] =
                   [handlers[h] EXCEPT !.at = statement, !.principal = p]]
          PROVE  TypeInv'
      <3> DEFINE q == [handlers[h] EXCEPT !.at = statement, !.principal = p]
      <3>1. q \in HandlerState /\ Shape(q)
        BY <1>1, <1>11, <2>2, ZenonT(60) DEF FindPrincipal, HandlerState, Shape, Holding, Owner
      <3>2. QED
        BY <1>1, <2>1, <2>2, <3>1, MoveTyped DEF TypeInv, TypeOK
    <2>3. CASE Answers(h, "failed", "keep")
      <3>1. /\ Reply(handlers[h], "failed", "keep") \in HandlerState
            /\ Shape(Reply(handlers[h], "failed", "keep"))
        BY <1>1, <1>11, ReplyTyped DEF FindPrincipal, Shape
      <3>2. QED
        BY <1>1, <2>1, <2>3, <3>1, MoveTyped DEF Answers, TypeInv, TypeOK
    <2>4. handlers[h].account \in Account
      BY <1>1, <1>11 DEF FindPrincipal, Shape, Holding
    <2>5. Bootstraps(handlers[h].account) => config.bootstrap[handlers[h].account] \in Principal
      BY <1>1, <2>4, SignInAssumption DEF Bootstraps, Owner
    <2>6. config.principals \subseteq Principal
      BY <1>1, SignInAssumption
    <2>7. QED
      BY <1>11, <2>2, <2>3, <2>5, <2>6 DEF FindPrincipal
  <1>12. ASSUME NEW h \in Handler, Bind(h)
         PROVE  TypeInv'
    <2>1. UNCHANGED <<config, restarts, transactions, began, jar, away, urls>>
      BY <1>12 DEF Bind
    <2>2. CASE Insert(handlers[h]) /\ Bound(h, TRUE)
      <3>1. identities' \subseteq Identity
        BY <1>1, <1>12, <2>2 DEF Bind, Insert, Identity, Shape, Holding
      <3>2. QED
        BY <1>1, <1>12, <2>1, <2>2, <3>1, BoundTyped DEF Bind, TypeInv, TypeOK
    <2>3. CASE Awaits(h, "classify") /\ UNCHANGED <<identities, completed>>
      <3>1. /\ [handlers[h] EXCEPT !.at = "classify"] \in HandlerState
            /\ Shape([handlers[h] EXCEPT !.at = "classify"])
        BY <1>1, <1>12 DEF Bind, HandlerState, Shape, Holding
      <3>2. QED
        BY <1>1, <2>1, <2>3, <3>1, MoveTyped DEF Awaits, TypeInv, TypeOK
    <2>4. QED
      BY <1>12, <2>2, <2>3 DEF Bind
  <1>13. ASSUME NEW h \in Handler, ClassifyBinding(h)
         PROVE  TypeInv'
    <2>1. UNCHANGED <<config, restarts, transactions, began, jar, away, urls, identities>>
      BY <1>13 DEF ClassifyBinding
    <2>2. CASE Bound(h, FALSE)
      BY <1>1, <1>13, <2>1, <2>2, BoundTyped DEF ClassifyBinding, TypeInv, TypeOK
    <2>3. CASE Answers(h, "conflict", "keep") /\ UNCHANGED completed
      <3>1. /\ Reply(handlers[h], "conflict", "keep") \in HandlerState
            /\ Shape(Reply(handlers[h], "conflict", "keep"))
        BY <1>1, <1>13, ReplyTyped DEF ClassifyBinding, Shape
      <3>2. QED
        BY <1>1, <2>1, <2>3, <3>1, MoveTyped DEF Answers, TypeInv, TypeOK
    <2>4. QED
      BY <1>13, <2>2, <2>3 DEF ClassifyBinding
  <1>14. ASSUME NEW h \in Handler, CreateSession(h)
         PROVE  TypeInv'
    <2>1. Completed(handlers[h]) \in Completion
      BY <1>1, <1>14 DEF CreateSession, Completed, Completion, Shape, Holding
    <2>2. /\ Reply(handlers[h], "done", "set") \in HandlerState
          /\ Shape(Reply(handlers[h], "done", "set"))
      BY <1>1, <1>14, ReplyTyped DEF CreateSession, Shape
    <2>3. QED
      BY <1>1, <1>14, <2>1, <2>2, MoveTyped DEF CreateSession, Answers, TypeInv, TypeOK
  <1>15. ASSUME NEW h \in Handler, StatementFails(h)
         PROVE  TypeInv'
    <2>1. UNCHANGED <<config, restarts, transactions, began, jar, away, urls, completed>>
      BY <1>15 DEF StatementFails
    <2>2. PICK linked \in BOOLEAN : handlers' = [handlers EXCEPT ![h] =
                 Reply([handlers[h] EXCEPT !.linked = linked], "failed", "keep")]
      BY <1>1, <1>15 DEF StatementFails, HandlerState
    <2>3. identities' \subseteq Identity
      BY <1>1, <1>15 DEF StatementFails, Insert, Identity, Shape, Holding
    <2> DEFINE q == [handlers[h] EXCEPT !.linked = linked]
    <2>4. q \in HandlerState /\ q.browser \in Browser
      BY <1>1, <1>15 DEF StatementFails, HandlerState, Shape
    <2>5. Reply(q, "failed", "keep") \in HandlerState /\ Shape(Reply(q, "failed", "keep"))
      BY <2>4, ReplyTyped
    <2>6. QED
      BY <1>1, <2>1, <2>2, <2>3, <2>5, MoveTyped DEF TypeInv, TypeOK
  <1>16. ASSUME NEW h \in Handler, Deliver(h)
         PROVE  TypeInv'
    <2>1. away' \subseteq Transaction
      BY <1>1, <1>16 DEF Deliver, Shape
    <2>2. PICK cookies \in [id : Transaction \cup {NoTransaction}, session : Owner] :
            jar' = [jar EXCEPT ![handlers[h].browser] = cookies]
      <3>1. /\ handlers[h].browser \in Browser
            /\ handlers[h].sessionCookie \in {"keep", "clear", "set"}
            /\ handlers[h].transactionCookie \in {"keep", "clear", "set"}
            /\ handlers[h].transactionCookie = "set" => handlers[h].id \in Transaction
            /\ handlers[h].principal \in Owner /\ Nobody \in Owner
        BY <1>1, <1>16 DEF Deliver, Shape, HandlerState, Owner
      <3>2. QED
        BY <1>1, <1>16, <3>1 DEF Deliver
    <2>3. jar' \in [Browser -> [id : Transaction \cup {NoTransaction}, session : Owner]]
      BY <1>1, <2>2
    <2>4. QED
      BY <1>1, <1>16, <2>1, <2>3, FreeTyped, MoveTyped DEF Deliver, TypeInv, TypeOK
  <1>17. ASSUME NEW cfg \in Config, Restart(cfg)
         PROVE  TypeInv'
    <2>1. restarts' \in 0..MaxRestarts
      BY <1>1, <1>17, SignInAssumption DEF Restart
    <2>2. QED
      BY <1>1, <1>17, <2>1, FreeTyped DEF Restart, NoTransactions, TypeInv, TypeOK
  <1>18. CASE UNCHANGED vars
    BY <1>1, <1>18 DEF vars, TypeInv, TypeOK
  <1>19. QED
    BY <1>2, <1>3, <1>4, <1>5, <1>6, <1>7, <1>8, <1>9, <1>10, <1>11, <1>12, <1>13,
       <1>14, <1>15, <1>16, <1>17, <1>18 DEF Next

\* At the start no request is in flight.
LEMMA TypeStart == Init => TypeInv
  BY FreeTyped, SignInAssumption DEF Init, TypeInv, TypeOK, NotBegun, Start, Owner

\* Every variable has its type in every reachable state, for any number of
\* browsers, transactions, requests and configurations.
THEOREM SignInTyped == Spec => []TypeOK
  <1>1. TypeInv => TypeOK
    BY DEF TypeInv
  <1>2. QED
    BY <1>1, TypeStart, TypeStep, PTL DEF Spec

-----------------------------------------------------------------------------
(* Bindings.                                                               *)

\* What a request has learnt survives every binding made by others.
LEMMA BindingMove ==
  ASSUME TypeInv, BindingInv, NEW h \in Handler, NEW q,
         handlers' = [handlers EXCEPT ![h] = q],
         identities \subseteq identities', OneToOne', CompletedAreBound',
         Learnt(q)', Genuine(q)'
  PROVE  BindingInv'
  <1>1. ASSUME NEW g \in Handler
        PROVE  Learnt(handlers[g])' /\ Genuine(handlers[g])'
    <2>1. CASE g = h
      BY <2>1 DEF TypeInv, TypeOK
    <2>2. CASE g # h
      <3>1. handlers'[g] = handlers[g] /\ Learnt(handlers[g]) /\ Genuine(handlers[g])
        BY <2>2 DEF TypeInv, TypeOK, BindingInv
      <3>2. Learnt(handlers[g])'
        BY <3>1 DEF Learnt, IsReplay, FreeToBind
      <3>3. Genuine(handlers[g])'
        BY <3>1 DEF Genuine
      <3>4. QED
        BY <3>2, <3>3
    <2>3. QED
      BY <2>1, <2>2
  <1>2. QED
    BY <1>1 DEF BindingInv

\* A step that neither reads nor writes the table.
LEMMA BindingIdle ==
  ASSUME TypeInv, BindingInv, NEW h \in Handler, NEW q,
         handlers' = [handlers EXCEPT ![h] = q],
         q.at \notin {"insert", "classify"}, q.outcome # "conflict",
         UNCHANGED <<identities, completed>>
  PROVE  BindingInv'
  <1>1. Learnt(q)' /\ Genuine(q)'
    BY DEF Learnt, Genuine
  <1>2. OneToOne' /\ CompletedAreBound'
    BY DEF BindingInv, OneToOne, CompletedAreBound
  <1>3. QED
    BY <1>1, <1>2, BindingMove

\* A new binding concerns an account and an operator without one.
LEMMA InsertKeeps ==
  ASSUME BindingInv, NEW q, FreeToBind(q.account, q.principal), Insert(q)
  PROVE  /\ identities \subseteq identities' /\ OneToOne'
         /\ IsReplay(q.account, q.principal)'
         /\ \A s \in completed : [account |-> s.account, principal |-> s.principal] \in identities'
  BY DEF BindingInv, FreeToBind, Insert, OneToOne, IsReplay, CompletedAreBound

\* The answer that sends a browser to Google carries the cookie of a new
\* transaction.
LEMMA StartFields ==
  ASSUME NEW h \in Handler, NEW r, NEW mode, NEW principal,
         StartAuthorization(h, r, mode, principal)
  PROVE  \E id, q :
           /\ id \in Transaction /\ began[id] = NotBegun
           /\ transactions' = transactions \cup
                {[id |-> id, mode |-> mode, principal |-> principal]}
           /\ began' = [began EXCEPT ![id] = [browser |-> r.browser, process |-> restarts]]
           /\ handlers' = [handlers EXCEPT ![h] = q]
           /\ q.at = "answer" /\ q.outcome = "sent" /\ q.transactionCookie = "set"
           /\ q.id = id /\ q.browser = r.browser
  <1>1. PICK id \in {t \in Transaction : began[t] = NotBegun} :
          /\ transactions' = transactions \cup
               {[id |-> id, mode |-> mode, principal |-> principal]}
          /\ began' = [began EXCEPT ![id] = [browser |-> r.browser, process |-> restarts]]
          /\ handlers' = [handlers EXCEPT ![h] =
               [Free EXCEPT !.at = "answer", !.browser = r.browser, !.id = id,
                            !.transactionCookie = "set"]]
    BY DEF StartAuthorization
  <1>2. PICK q : q = [Free EXCEPT !.at = "answer", !.browser = r.browser, !.id = id,
                                  !.transactionCookie = "set"]
    OBVIOUS
  <1>3. /\ q.at = "answer" /\ q.outcome = "sent" /\ q.transactionCookie = "set"
        /\ q.id = id /\ q.browser = r.browser
    BY <1>2 DEF Free
  <1>4. handlers' = [handlers EXCEPT ![h] = q]
    BY <1>1, <1>2
  <1>5. QED
    BY <1>1, <1>3, <1>4

\* An answer of failure or success says nothing of a conflict.
LEMMA ReplyFields ==
  ASSUME NEW q \in HandlerState, NEW outcome, NEW cookie
  PROVE  LET a == Reply(q, outcome, cookie) IN
         /\ a.at = "answer" /\ a.outcome = outcome /\ a.transactionCookie # "set"
         /\ a.account = q.account /\ a.principal = q.principal
         /\ a.browser = q.browser /\ a.id = q.id
  BY DEF Reply, HandlerState

\* A callback whose account is bound as it asked goes on or completes.
LEMMA BoundBinding ==
  ASSUME TypeInv, BindingInv, NEW h \in Handler, NEW created \in BOOLEAN,
         handlers[h].at \in {"bind", "classify"}, Bound(h, created),
         identities \subseteq identities', OneToOne',
         [account |-> handlers[h].account, principal |-> handlers[h].principal] \in identities'
  PROVE  BindingInv'
  <1>1. PICK q : q = [handlers[h] EXCEPT !.linked = created]
    OBVIOUS
  <1>2. /\ q \in HandlerState /\ q.account = handlers[h].account
        /\ q.principal = handlers[h].principal /\ q.outcome # "conflict"
    BY <1>1 DEF TypeInv, TypeOK, HandlerState, BindingInv, Learnt
  <1>3. IsReplay(q.account, q.principal)'
    BY <1>2 DEF IsReplay
  <1>4. \A s \in completed : [account |-> s.account, principal |-> s.principal] \in identities'
    BY DEF BindingInv, CompletedAreBound
  <1>5. CASE q.mode = "link"
    <2>1. PICK a : a = Reply(q, "done", "keep")
      OBVIOUS
    <2>2. /\ handlers' = [handlers EXCEPT ![h] = a]
          /\ completed' = completed \cup {Completed(q)}
      BY <1>1, <1>5, <2>1 DEF Bound
    <2>3. CompletedAreBound'
      <3>1. Completed(q).account = q.account /\ Completed(q).principal = q.principal
        BY DEF Completed
      <3>2. QED
        BY <1>3, <1>4, <2>2, <3>1 DEF CompletedAreBound, IsReplay
    <2>4. a.at = "answer" /\ a.outcome = "done"
      BY <1>2, <2>1, ReplyFields
    <2>5. Learnt(a)' /\ Genuine(a)'
      BY <2>4 DEF Learnt, Genuine
    <2>6. QED
      BY <2>2, <2>3, <2>5, BindingMove
  <1>6. CASE q.mode # "link"
    <2>1. PICK goesOn : goesOn = [q EXCEPT !.at = "insert"]
      OBVIOUS
    <2>2. handlers' = [handlers EXCEPT ![h] = goesOn] /\ completed' = completed
      BY <1>1, <1>6, <2>1 DEF Bound
    <2>3. CompletedAreBound'
      BY <1>4, <2>2 DEF CompletedAreBound
    <2>4. /\ goesOn.at = "insert" /\ goesOn.account = q.account
          /\ goesOn.principal = q.principal /\ goesOn.outcome # "conflict"
      BY <1>2, <2>1 DEF HandlerState
    <2>5. Learnt(goesOn)' /\ Genuine(goesOn)'
      BY <1>3, <2>4 DEF Learnt, Genuine
    <2>6. QED
      BY <2>2, <2>3, <2>5, BindingMove
  <1>7. QED
    BY <1>5, <1>6

\* Every step keeps what is known of the bindings.
LEMMA BindingStep == TypeInv /\ BindingInv /\ [Next]_vars => BindingInv'
  <1> SUFFICES ASSUME TypeInv, BindingInv, [Next]_vars PROVE BindingInv'
    OBVIOUS
  <1>1. \A h \in Handler : handlers[h] \in HandlerState /\ Learnt(handlers[h])
    BY DEF TypeInv, TypeOK, BindingInv
  <1>2. ASSUME NEW h \in Handler, Answers(h, "failed", "keep") \/ Answers(h, "failed", "clear"),
               UNCHANGED <<identities, completed>>
        PROVE  BindingInv'
    <2>1. PICK q : /\ \/ q = Reply(handlers[h], "failed", "keep")
                      \/ q = Reply(handlers[h], "failed", "clear")
                   /\ handlers' = [handlers EXCEPT ![h] = q]
      BY <1>2 DEF Answers
    <2>2. q.at = "answer" /\ q.outcome = "failed"
      BY <1>1, <2>1, ReplyFields
    <2>3. QED
      BY <1>2, <2>1, <2>2, BindingIdle
  <1>3. ASSUME NEW h \in Handler, NEW r, NEW mode, NEW principal,
               StartAuthorization(h, r, mode, principal), UNCHANGED <<identities, completed>>
        PROVE  BindingInv'
    BY <1>3, StartFields, BindingIdle
  <1>4. ASSUME NEW h \in Handler, NEW statement \in {"exchange", "find", "bind"},
               handlers[h].at # "answer", Awaits(h, statement),
               UNCHANGED <<identities, completed>>
        PROVE  BindingInv'
    <2>1. PICK q : q = [handlers[h] EXCEPT !.at = statement]
      OBVIOUS
    <2>2. handlers' = [handlers EXCEPT ![h] = q]
      BY <1>4, <2>1 DEF Awaits
    <2>3. q.at = statement /\ q.outcome # "conflict"
      BY <1>1, <1>4, <2>1 DEF Learnt, HandlerState
    <2>4. QED
      BY <1>4, <2>2, <2>3, BindingIdle
  <1>5. ASSUME UNCHANGED <<handlers, identities, completed>>
        PROVE  BindingInv'
    BY <1>5 DEF BindingInv, OneToOne, Learnt, IsReplay, FreeToBind, Genuine, CompletedAreBound
  <1>6. ASSUME NEW h \in Handler, NEW b \in Browser, BeginLogin(h, b)
        PROVE  BindingInv'
    BY <1>3, <1>6 DEF BeginLogin
  <1>7. ASSUME NEW h \in Handler, NEW b \in Browser, SubmitLink(h, b)
        PROVE  BindingInv'
    <2>1. PICK q : q = [Request(b) EXCEPT !.at = "read", !.mode = "link"]
      OBVIOUS
    <2>2. q.at = "read" /\ q.outcome = "sent"
      BY <2>1 DEF Request, Free
    <2>3. QED
      BY <1>7, <2>1, <2>2, BindingIdle DEF SubmitLink
  <1>8. ASSUME NEW h \in Handler, NEW b \in Browser,
               handlers' = [handlers EXCEPT ![h] = Reply(Request(b), "failed", "keep")],
               UNCHANGED <<identities, completed>>
        PROVE  BindingInv'
    <2>1. PICK q : q = Reply(Request(b), "failed", "keep")
      OBVIOUS
    <2>2. q.at = "answer" /\ q.outcome = "failed"
      BY <2>1, RequestTyped, ReplyFields
    <2>3. QED
      BY <1>8, <2>1, <2>2, BindingIdle
  <1>9. ASSUME NEW h \in Handler, NEW b \in Browser, NEW u \in urls, Callback(h, b, u)
        PROVE  BindingInv'
    <2>1. UNCHANGED <<identities, completed>>
      BY <1>9 DEF Callback
    <2>2. ASSUME NEW t,
                 handlers' = [handlers EXCEPT ![h] =
                   [Request(b) EXCEPT !.at = IF t.mode = "link" THEN "touch" ELSE "exchange",
                         !.id = t.id, !.mode = t.mode, !.principal = t.principal,
                         !.account = u.account]]
          PROVE  BindingInv'
      <3>1. PICK q : q = [Request(b) EXCEPT
                           !.at = IF t.mode = "link" THEN "touch" ELSE "exchange",
                           !.id = t.id, !.mode = t.mode, !.principal = t.principal,
                           !.account = u.account]
        OBVIOUS
      <3>2. q.at \in {"touch", "exchange"} /\ q.outcome = "sent"
        BY <3>1 DEF Request, Free
      <3>3. QED
        BY <2>1, <2>2, <3>1, <3>2, BindingIdle
    <2>3. QED
      BY <1>8, <1>9, <2>1, <2>2 DEF Callback
  <1>10. ASSUME NEW h \in Handler, BeginLink(h) \/ TouchForLink(h) \/ Exchange(h)
         PROVE  BindingInv'
    <2>1. CASE BeginLink(h)
      BY <1>2, <1>3, <2>1 DEF BeginLink
    <2>2. CASE TouchForLink(h)
      BY <1>2, <1>4, <2>2 DEF TouchForLink
    <2>3. CASE Exchange(h)
      BY <1>2, <1>4, <2>3 DEF Exchange
    <2>4. QED
      BY <1>10, <2>1, <2>2, <2>3
  <1>11. ASSUME NEW h \in Handler, FindPrincipal(h)
         PROVE  BindingInv'
    <2>1. UNCHANGED <<identities, completed>> /\ handlers[h].at = "find"
      BY <1>11 DEF FindPrincipal
    <2>2. ASSUME NEW r \in identities, r.account = handlers[h].account,
                 handlers' = [handlers EXCEPT ![h] =
                   [handlers[h] EXCEPT !.at = "insert", !.principal = r.principal]]
          PROVE  BindingInv'
      <3>1. PICK q : q = [handlers[h] EXCEPT !.at = "insert", !.principal = r.principal]
        OBVIOUS
      <3>2. /\ q.at = "insert" /\ q.outcome # "conflict"
            /\ q.account = r.account /\ q.principal = r.principal
        BY <1>1, <2>1, <2>2, <3>1 DEF Learnt, HandlerState
      <3>3. r = [account |-> r.account, principal |-> r.principal]
        BY DEF TypeInv, TypeOK, Identity
      <3>4. Learnt(q)' /\ Genuine(q)'
        BY <2>1, <3>2, <3>3 DEF Learnt, Genuine, IsReplay
      <3>5. OneToOne' /\ CompletedAreBound'
        BY <2>1 DEF BindingInv, OneToOne, CompletedAreBound
      <3>6. QED
        BY <2>1, <2>2, <3>1, <3>4, <3>5, BindingMove
    <2>3. ASSUME NEW p, handlers' = [handlers EXCEPT ![h] =
                   [handlers[h] EXCEPT !.at = "bind", !.principal = p]]
          PROVE  BindingInv'
      <3>1. PICK q : q = [handlers[h] EXCEPT !.at = "bind", !.principal = p]
        OBVIOUS
      <3>2. q.at = "bind" /\ q.outcome # "conflict"
        BY <1>1, <2>1, <3>1, ZenonT(60) DEF Learnt, HandlerState
      <3>3. QED
        BY <2>1, <2>3, <3>1, <3>2, BindingIdle
    <2>4. QED
      BY <1>2, <1>11, <2>1, <2>2, <2>3, ZenonT(40) DEF FindPrincipal
  <1>12. ASSUME NEW h \in Handler, Bind(h)
         PROVE  BindingInv'
    <2>1. PICK q : q = handlers[h]
      OBVIOUS
    <2>2. CASE FreeToBind(q.account, q.principal) /\ Insert(q) /\ Bound(h, TRUE)
      <3>1. /\ identities \subseteq identities' /\ OneToOne'
            /\ [account |-> q.account, principal |-> q.principal] \in identities'
        BY <2>2, InsertKeeps DEF IsReplay
      <3>2. QED
        BY <1>12, <2>1, <2>2, <3>1, BoundBinding DEF Bind
    <2>3. CASE /\ ~FreeToBind(q.account, q.principal) /\ Awaits(h, "classify")
               /\ UNCHANGED <<identities, completed>>
      <3>1. PICK r : r = [handlers[h] EXCEPT !.at = "classify"]
        OBVIOUS
      <3>2. /\ r.at = "classify" /\ r.outcome # "conflict"
            /\ r.account = q.account /\ r.principal = q.principal
        BY <1>1, <1>12, <2>1, <3>1 DEF Bind, Learnt, HandlerState
      <3>3. Learnt(r)' /\ Genuine(r)'
        BY <2>3, <3>2 DEF Learnt, Genuine, FreeToBind
      <3>4. OneToOne' /\ CompletedAreBound'
        BY <2>3 DEF BindingInv, OneToOne, CompletedAreBound
      <3>5. QED
        BY <2>3, <3>1, <3>3, <3>4, BindingMove DEF Awaits
    <2>4. QED
      BY <1>12, <2>1, <2>2, <2>3 DEF Bind, Insert
  <1>13. ASSUME NEW h \in Handler, ClassifyBinding(h)
         PROVE  BindingInv'
    <2>1. UNCHANGED identities /\ handlers[h].at = "classify"
      BY <1>13 DEF ClassifyBinding
    <2>2. CASE IsReplay(handlers[h].account, handlers[h].principal) /\ Bound(h, FALSE)
      BY <2>1, <2>2, BoundBinding DEF BindingInv, OneToOne, IsReplay
    <2>3. CASE /\ ~IsReplay(handlers[h].account, handlers[h].principal)
               /\ Answers(h, "conflict", "keep") /\ UNCHANGED completed
      <3>1. PICK a : a = Reply(handlers[h], "conflict", "keep")
        OBVIOUS
      <3>2. /\ a.at = "answer" /\ a.account = handlers[h].account
            /\ a.principal = handlers[h].principal
        BY <1>1, <3>1, ReplyFields
      <3>3. Genuine(a)
        <4>1. PICK r \in identities : r.account = a.account \/ r.principal = a.principal
          BY <1>1, <2>1, <3>2 DEF Learnt, FreeToBind
        <4>2. r = [account |-> r.account, principal |-> r.principal]
          BY DEF TypeInv, TypeOK, Identity
        <4>3. ~(r.account = a.account /\ r.principal = a.principal)
          BY <2>3, <3>2, <4>2 DEF IsReplay
        <4>4. QED
          BY <4>1, <4>3 DEF Genuine
      <3>4. Learnt(a)' /\ Genuine(a)'
        BY <2>1, <3>2, <3>3 DEF Learnt, Genuine
      <3>5. OneToOne' /\ CompletedAreBound'
        BY <2>1, <2>3 DEF BindingInv, OneToOne, CompletedAreBound
      <3>6. QED
        BY <2>1, <2>3, <3>1, <3>4, <3>5, BindingMove DEF Answers
    <2>4. QED
      BY <1>13, <2>2, <2>3 DEF ClassifyBinding
  <1>14. ASSUME NEW h \in Handler, CreateSession(h)
         PROVE  BindingInv'
    <2>1. PICK a : a = Reply(handlers[h], "done", "set")
      OBVIOUS
    <2>2. a.at = "answer" /\ a.outcome = "done"
      BY <1>1, <2>1, ReplyFields
    <2>3. Learnt(a)' /\ Genuine(a)'
      BY <2>2 DEF Learnt, Genuine
    <2>4. Completed(handlers[h]).account = handlers[h].account
          /\ Completed(handlers[h]).principal = handlers[h].principal
      BY DEF Completed
    <2>5. CompletedAreBound'
      BY <1>1, <1>14, <2>4 DEF CreateSession, Learnt, IsReplay, BindingInv, CompletedAreBound
    <2>6. OneToOne'
      BY <1>14 DEF CreateSession, BindingInv, OneToOne
    <2>7. QED
      BY <1>14, <2>1, <2>3, <2>5, <2>6, BindingMove DEF CreateSession, Answers
  <1>15. ASSUME NEW h \in Handler, StatementFails(h)
         PROVE  BindingInv'
    <2>1. PICK q : q = handlers[h]
      OBVIOUS
    <2>2. PICK a, linked : /\ a = Reply([q EXCEPT !.linked = linked], "failed", "keep")
                           /\ linked \in BOOLEAN
                           /\ handlers' = [handlers EXCEPT ![h] = a]
      BY <1>1, <1>15, <2>1 DEF StatementFails, HandlerState
    <2>3. a.at = "answer" /\ a.outcome = "failed"
      <3>1. [q EXCEPT !.linked = linked] \in HandlerState
        BY <1>1, <2>1, <2>2 DEF HandlerState
      <3>2. QED
        BY <2>2, <3>1, ReplyFields
    <2>4. CASE UNCHANGED identities
      BY <1>15, <2>2, <2>3, <2>4, BindingIdle DEF StatementFails
    <2>5. CASE FreeToBind(q.account, q.principal) /\ Insert(q)
      <3>1. identities \subseteq identities' /\ OneToOne'
        BY <2>5, InsertKeeps
      <3>2. CompletedAreBound'
        BY <1>15, <3>1 DEF StatementFails, BindingInv, CompletedAreBound
      <3>3. Learnt(a)' /\ Genuine(a)'
        BY <2>3 DEF Learnt, Genuine
      <3>4. QED
        BY <2>2, <3>1, <3>2, <3>3, BindingMove
    <2>6. QED
      BY <1>15, <2>1, <2>4, <2>5 DEF StatementFails
  <1>16. ASSUME NEW h \in Handler, Deliver(h)
         PROVE  BindingInv'
    <2>1. Free.at = "idle" /\ Free.outcome = "sent"
      BY DEF Free
    <2>2. QED
      BY <1>16, <2>1, BindingIdle DEF Deliver
  <1>17. ASSUME NEW cfg \in Config, Restart(cfg)
         PROVE  BindingInv'
    <2>1. Free.at = "idle" /\ Free.outcome = "sent"
      BY DEF Free
    <2>2. \A h \in Handler : handlers'[h] = Free
      BY <1>17 DEF Restart
    <2>3. OneToOne' /\ CompletedAreBound'
      BY <1>17 DEF Restart, BindingInv, OneToOne, CompletedAreBound
    <2>4. QED
      BY <2>1, <2>2, <2>3 DEF BindingInv, Learnt, Genuine
  <1>18. ASSUME NEW h \in Handler, NEW b \in Browser, RefusedCallback(h, b)
         PROVE  BindingInv'
    BY <1>8, <1>18 DEF RefusedCallback
  <1>19. QED
    BY <1>5, <1>6, <1>7, <1>9, <1>10, <1>11, <1>12, <1>13, <1>14, <1>15, <1>16, <1>17,
       <1>18 DEF Next, Expires, ChooseAccount, vars

\* At the start nothing is bound and nothing learnt.
LEMMA BindingStart == Init => BindingInv
  BY DEF Init, BindingInv, OneToOne, Learnt, Genuine, Free, CompletedAreBound

\* Whoever was signed in or told that an account is linked stands in the table
\* with it, whatever other callbacks do between its statements.
THEOREM CompletedBound == Spec => []CompletedAreBound
  <1>1. BindingInv => CompletedAreBound
    BY DEF BindingInv
  <1>2. QED
    BY <1>1, TypeStart, TypeStep, BindingStart, BindingStep, PTL DEF Spec

\* A conflict is answered only when the account or the operator is taken.
THEOREM GenuineConflicts == Spec => []ConflictsAreGenuine
  <1>1. BindingInv => ConflictsAreGenuine
    BY DEF BindingInv, ConflictsAreGenuine, Genuine
  <1>2. QED
    BY <1>1, TypeStart, TypeStep, BindingStart, BindingStep, PTL DEF Spec

\* Accounts and operators are bound one to one, and no binding ever changes.
THEOREM BindingsLast == Spec => BindingsAreForever
  <1>1. [Next]_vars => identities \subseteq identities'
    BY DEF Next, vars, Expires, BeginLogin, SubmitLink, RefusedCallback, Callback,
           ChooseAccount, BeginLink, TouchForLink, Exchange, FindPrincipal, Bind, Insert,
           ClassifyBinding, CreateSession, StatementFails, Deliver, Restart
  <1>2. BindingInv' => OneToOne'
    BY DEF BindingInv
  <1>3. TypeInv /\ BindingInv /\ [Next]_vars
        => [/\ identities \subseteq identities'
            /\ \A r1, r2 \in identities' :
                 r1.account = r2.account \/ r1.principal = r2.principal => r1 = r2]_vars
    BY <1>1, <1>2, BindingStep DEF OneToOne
  <1>4. QED
    BY <1>3, TypeStart, TypeStep, BindingStart, BindingStep, PTL DEF Spec, BindingsAreForever

-----------------------------------------------------------------------------
(* Custody of transactions.                                                *)

\* A request that goes on with the transaction it has, or drops it.
LEMMA CustodyMove ==
  ASSUME TypeInv, CustodyInv, NEW h \in Handler, NEW q,
         handlers' = [handlers EXCEPT ![h] = q],
         UNCHANGED <<restarts, transactions, began, jar, completed>>,
         q.transactionCookie = "set" => handlers[h].transactionCookie = "set",
         q.at \in Holding => handlers[h].at \in Holding,
         q.transactionCookie = "set" \/ q.at \in Holding =>
           q.id = handlers[h].id /\ q.browser = handlers[h].browser
  PROVE  CustodyInv'
  <1>1. CookieAtHome' /\ PendingOnce' /\ OneCompletion'
    BY DEF CustodyInv, CookieAtHome, PendingOnce, OneCompletion
  <1>2. CookieOnItsWay'
    BY DEF CustodyInv, CookieOnItsWay, TypeInv, TypeOK
  <1>3. HeldOnce'
    BY DEF CustodyInv, HeldOnce, TypeInv, TypeOK
  <1>4. QED
    BY <1>1, <1>2, <1>3 DEF CustodyInv

\* The one that holds a transaction completes it and lets go.
LEMMA CustodyEnds ==
  ASSUME TypeInv, CustodyInv, NEW h \in Handler, NEW a,
         handlers[h].at \in Holding,
         handlers' = [handlers EXCEPT ![h] = a],
         a.transactionCookie # "set", a.at \notin Holding,
         completed' = completed \cup {Completed(handlers[h])},
         UNCHANGED <<restarts, transactions, began, jar>>
  PROVE  CustodyInv'
  <1> DEFINE s == Completed(handlers[h])
  <1>1. /\ s.id = handlers[h].id /\ s.browser = handlers[h].browser /\ s.process = restarts
        /\ began[s.id] = [browser |-> s.browser, process |-> s.process]
        /\ \A t \in transactions : t.id # s.id
        /\ \A c \in completed : c.id # s.id
        /\ \A g \in Handler : handlers[g].at \in Holding /\ handlers[g].id = s.id => g = h
    BY DEF CustodyInv, HeldOnce, Completed
  <1> HIDE DEF s
  <1>2. completed' = completed \cup {s}
    BY DEF s
  <1>3. CookieAtHome'
    BY DEF CustodyInv, CookieAtHome
  <1>4. CookieOnItsWay'
    BY DEF CustodyInv, CookieOnItsWay, TypeInv, TypeOK
  <1>5. PendingOnce'
    BY <1>1, <1>2 DEF CustodyInv, PendingOnce
  <1>6. HeldOnce'
    BY <1>1, <1>2 DEF CustodyInv, HeldOnce, TypeInv, TypeOK
  <1>7. OneCompletion'
    BY <1>1, <1>2 DEF CustodyInv, OneCompletion
  <1>8. QED
    BY <1>3, <1>4, <1>5, <1>6, <1>7 DEF CustodyInv

\* A new transaction is one that nobody has seen.
LEMMA CustodyBegins ==
  ASSUME TypeInv, CustodyInv, NEW h \in Handler, NEW r, NEW mode, NEW principal,
         r.browser \in Browser, StartAuthorization(h, r, mode, principal),
         UNCHANGED <<restarts, jar, completed>>
  PROVE  CustodyInv'
  <1>1. PICK id, q :
          /\ id \in Transaction /\ began[id] = NotBegun
          /\ transactions' = transactions \cup
               {[id |-> id, mode |-> mode, principal |-> principal]}
          /\ began' = [began EXCEPT ![id] = [browser |-> r.browser, process |-> restarts]]
          /\ handlers' = [handlers EXCEPT ![h] = q]
          /\ q.at = "answer" /\ q.transactionCookie = "set"
          /\ q.id = id /\ q.browser = r.browser
    BY StartFields
  <1>2. Nobody \notin Browser /\ began \in [Transaction -> Start]
    BY SignInAssumption DEF TypeInv, TypeOK
  <1>3. /\ began'[id] = [browser |-> r.browser, process |-> restarts]
        /\ \A t \in Transaction : t # id => began'[t] = began[t]
    BY <1>1, <1>2
  <1>4. CookieAtHome'
    <2>1. \A b \in Browser : jar[b].id # id
      BY <1>1, <1>2 DEF CustodyInv, CookieAtHome, NotBegun
    <2>2. QED
      BY <1>3, <2>1 DEF CustodyInv, CookieAtHome
  <1>5. CookieOnItsWay'
    <2>1. ASSUME NEW g \in Handler, g # h, handlers[g].transactionCookie = "set"
          PROVE  handlers[g].id \in Transaction /\ handlers[g].id # id
      <3>1. handlers[g].id \in Transaction /\ handlers[g].browser \in Browser
        BY <2>1 DEF TypeInv, Shape
      <3>2. QED
        BY <1>1, <1>2, <2>1, <3>1 DEF CustodyInv, CookieOnItsWay, NotBegun
    <2>2. QED
      BY <1>1, <1>3, <2>1 DEF CustodyInv, CookieOnItsWay, TypeInv, TypeOK
  <1>6. \A t \in transactions : t.id \in Transaction /\ t.id # id
    BY <1>1, <1>2 DEF CustodyInv, PendingOnce, NotBegun, TypeInv, TypeOK, Pending
  <1>7. \A s \in completed : s.id \in Transaction /\ s.id # id
    <2>1. ASSUME NEW s \in completed PROVE s.id \in Transaction /\ s.browser \in Browser
      BY DEF TypeInv, TypeOK, Completion
    <2>2. ASSUME NEW s \in completed
          PROVE  began[s.id].browser = s.browser
      <3>1. began[s.id] = [browser |-> s.browser, process |-> s.process]
        BY DEF CustodyInv, OneCompletion
      <3>2. QED
        BY <3>1
    <2>3. began[id].browser = Nobody
      BY <1>1 DEF NotBegun
    <2>4. QED
      BY <1>2, <2>1, <2>2, <2>3
  <1>8. PendingOnce'
    BY <1>1, <1>3, <1>6, <1>7 DEF CustodyInv, PendingOnce
  <1>9. ASSUME NEW g \in Handler, handlers[g].at \in Holding
        PROVE  handlers[g].id \in Transaction /\ handlers[g].id # id
    <2>1. handlers[g].id \in Transaction /\ handlers[g].browser \in Browser
      BY <1>9 DEF TypeInv, Shape, Holding
    <2>2. began[handlers[g].id].browser = handlers[g].browser
      <3>1. began[handlers[g].id] = [browser |-> handlers[g].browser, process |-> restarts]
        BY <1>9 DEF CustodyInv, HeldOnce
      <3>2. QED
        BY <3>1
    <2>3. began[id].browser = Nobody
      BY <1>1 DEF NotBegun
    <2>4. QED
      BY <1>2, <2>1, <2>2, <2>3
  <1>10. HeldOnce'
    <2>1. q.at \notin Holding
      BY <1>1 DEF Holding
    <2>2. QED
      BY <1>1, <1>3, <1>9, <2>1 DEF CustodyInv, HeldOnce, TypeInv, TypeOK
  <1>11. OneCompletion'
    BY <1>3, <1>7 DEF CustodyInv, OneCompletion
  <1>12. QED
    BY <1>4, <1>5, <1>8, <1>10, <1>11 DEF CustodyInv

\* An answer keeps neither the transaction nor a cookie on its way.
LEMMA CustodyAnswer ==
  ASSUME TypeInv, CustodyInv, NEW h \in Handler, NEW r \in HandlerState,
         NEW outcome, NEW cookie,
         handlers' = [handlers EXCEPT ![h] = Reply(r, outcome, cookie)],
         UNCHANGED <<restarts, transactions, began, jar, completed>>
  PROVE  CustodyInv'
  <1>1. PICK a : a = Reply(r, outcome, cookie)
    OBVIOUS
  <1>2. a.at \notin Holding /\ a.transactionCookie # "set"
    BY <1>1, ReplyFields DEF Holding
  <1>3. QED
    BY <1>1, <1>2, CustodyMove

\* The next statement of a callback is awaited with the transaction it has.
LEMMA CustodyAwaits ==
  ASSUME TypeInv, CustodyInv, NEW h \in Handler, NEW q,
         handlers' = [handlers EXCEPT ![h] = q],
         handlers[h].at \in Holding, q.id = handlers[h].id, q.browser = handlers[h].browser,
         q.transactionCookie = handlers[h].transactionCookie,
         UNCHANGED <<restarts, transactions, began, jar, completed>>
  PROVE  CustodyInv'
  BY CustodyMove

\* A binding that was made keeps the transaction or completes it.
LEMMA CustodyBound ==
  ASSUME TypeInv, CustodyInv, NEW h \in Handler, NEW created \in BOOLEAN,
         handlers[h].at \in Holding, Bound(h, created),
         UNCHANGED <<restarts, transactions, began, jar>>
  PROVE  CustodyInv'
  <1>1. PICK q : q = [handlers[h] EXCEPT !.linked = created]
    OBVIOUS
  <1>2. /\ q \in HandlerState /\ q.id = handlers[h].id /\ q.browser = handlers[h].browser
        /\ q.transactionCookie = handlers[h].transactionCookie
        /\ Completed(q) = Completed(handlers[h])
    BY <1>1, ZenonT(60) DEF TypeInv, TypeOK, HandlerState, Completed
  <1>3. CASE q.mode = "link"
    <2>1. PICK a : a = Reply(q, "done", "keep")
      OBVIOUS
    <2>2. /\ handlers' = [handlers EXCEPT ![h] = a]
          /\ completed' = completed \cup {Completed(handlers[h])}
      BY <1>1, <1>2, <1>3, <2>1 DEF Bound
    <2>3. a.at \notin Holding /\ a.transactionCookie # "set"
      BY <1>2, <2>1, ReplyFields DEF Holding
    <2>4. QED
      BY <2>2, <2>3, CustodyEnds
  <1>4. CASE q.mode # "link"
    <2>1. PICK a : a = [q EXCEPT !.at = "insert"]
      OBVIOUS
    <2>2. /\ a.id = handlers[h].id /\ a.browser = handlers[h].browser
          /\ a.transactionCookie = handlers[h].transactionCookie
      BY <1>2, <2>1 DEF HandlerState
    <2>3. handlers' = [handlers EXCEPT ![h] = a] /\ completed' = completed
      BY <1>1, <1>4, <2>1 DEF Bound
    <2>4. QED
      BY <2>2, <2>3, CustodyAwaits
  <1>5. QED
    BY <1>3, <1>4

\* A callback takes the transaction of its own cookie, and with it the one
\* place where the transaction is.
LEMMA CustodyTaken ==
  ASSUME TypeInv, CustodyInv, NEW h \in Handler, NEW b \in Browser, NEW t \in transactions,
         NEW q, jar[b].id = t.id, transactions' = transactions \ {t},
         handlers' = [handlers EXCEPT ![h] = q], q.at \in Holding,
         q.id = t.id, q.browser = b, q.transactionCookie # "set",
         handlers[h].at \notin Holding,
         UNCHANGED <<restarts, began, jar, completed>>
  PROVE  CustodyInv'
  <1>1. t.id \in Transaction /\ began \in [Transaction -> Start]
    BY DEF TypeInv, TypeOK, Pending
  <1>2. began[t.id].browser = b /\ began[t.id].process = restarts
    BY <1>1 DEF CustodyInv, CookieAtHome, PendingOnce
  <1>3. began[t.id] = [browser |-> b, process |-> restarts]
    BY <1>1, <1>2 DEF Start
  <1>4. \A u \in transactions' : u.id # t.id
    BY DEF CustodyInv, PendingOnce
  <1>5. \A s \in completed : s.id # t.id
    BY DEF CustodyInv, PendingOnce
  <1>6. \A g \in Handler : handlers[g].at \in Holding => handlers[g].id # t.id
    BY DEF CustodyInv, HeldOnce
  <1>7. CookieAtHome' /\ OneCompletion'
    BY DEF CustodyInv, CookieAtHome, OneCompletion
  <1>8. CookieOnItsWay'
    BY DEF CustodyInv, CookieOnItsWay, TypeInv, TypeOK
  <1>9. PendingOnce'
    BY DEF CustodyInv, PendingOnce
  <1>10. HeldOnce'
    BY <1>3, <1>4, <1>5, <1>6 DEF CustodyInv, HeldOnce, TypeInv, TypeOK
  <1>11. QED
    BY <1>7, <1>8, <1>9, <1>10 DEF CustodyInv

\* Every step keeps every transaction in one place.
LEMMA CustodyStep == TypeInv /\ CustodyInv /\ [Next]_vars => CustodyInv'
  <1> SUFFICES ASSUME TypeInv, CustodyInv, [Next]_vars PROVE CustodyInv'
    OBVIOUS
  <1>1. \A h \in Handler : handlers[h] \in HandlerState /\ Shape(handlers[h])
    BY DEF TypeInv, TypeOK
  <1>2. ASSUME NEW h \in Handler, Answers(h, "failed", "keep") \/ Answers(h, "failed", "clear")
                                  \/ Answers(h, "conflict", "keep"),
               UNCHANGED <<restarts, transactions, began, jar, completed>>
        PROVE  CustodyInv'
    BY <1>1, <1>2, CustodyAnswer DEF Answers
  <1>3. ASSUME NEW h \in Handler, NEW statement, handlers[h].at \in Holding, Awaits(h, statement),
               UNCHANGED <<restarts, transactions, began, jar, completed>>
        PROVE  CustodyInv'
    <2>1. PICK q : q = [handlers[h] EXCEPT !.at = statement]
      OBVIOUS
    <2>2. /\ q.id = handlers[h].id /\ q.browser = handlers[h].browser
          /\ q.transactionCookie = handlers[h].transactionCookie
      BY <1>1, <2>1 DEF HandlerState
    <2>3. QED
      BY <1>3, <2>1, <2>2, CustodyAwaits DEF Awaits
  <1>4. ASSUME NEW t \in transactions, Expires(t)
        PROVE  CustodyInv'
    BY <1>4 DEF Expires, CustodyInv, CookieAtHome, CookieOnItsWay, PendingOnce, HeldOnce,
                OneCompletion
  <1>5. ASSUME NEW h \in Handler, NEW b \in Browser, BeginLogin(h, b)
        PROVE  CustodyInv'
    BY <1>5, RequestTyped, CustodyBegins DEF BeginLogin
  <1>6. ASSUME NEW h \in Handler, NEW b \in Browser, SubmitLink(h, b)
        PROVE  CustodyInv'
    <2>1. PICK q : q = [Request(b) EXCEPT !.at = "read", !.mode = "link"]
      OBVIOUS
    <2>2. q.at \notin Holding /\ q.transactionCookie # "set"
      BY <2>1 DEF Request, Free, Holding
    <2>3. QED
      BY <1>6, <2>1, <2>2, CustodyMove DEF SubmitLink
  <1>7. ASSUME NEW h \in Handler, NEW b \in Browser, RefusedCallback(h, b)
        PROVE  CustodyInv'
    BY <1>7, RequestTyped, CustodyAnswer DEF RefusedCallback
  <1>8. ASSUME NEW h \in Handler, NEW b \in Browser, NEW u \in urls, Callback(h, b, u)
        PROVE  CustodyInv'
    <2>1. UNCHANGED <<restarts, began, jar, completed>> /\ handlers[h].at = "idle"
      BY <1>8 DEF Callback
    <2>2. CASE /\ handlers' = [handlers EXCEPT ![h] = Reply(Request(b), "failed", "keep")]
               /\ UNCHANGED transactions
      BY <2>1, <2>2, RequestTyped, CustodyAnswer
    <2>3. ASSUME NEW t \in Found(Request(b).id, u), transactions' = Consumed(t),
                 handlers' = [handlers EXCEPT ![h] =
                   [Request(b) EXCEPT !.at = IF t.mode = "link" THEN "touch" ELSE "exchange",
                         !.id = t.id, !.mode = t.mode, !.principal = t.principal,
                         !.account = u.account]]
          PROVE  CustodyInv'
      <3>1. PICK q : q = [Request(b) EXCEPT
                           !.at = IF t.mode = "link" THEN "touch" ELSE "exchange",
                           !.id = t.id, !.mode = t.mode, !.principal = t.principal,
                           !.account = u.account]
        OBVIOUS
      <3>2. /\ q.at \in Holding /\ q.id = t.id /\ q.browser = b
            /\ q.transactionCookie # "set"
        BY <3>1 DEF Request, Free, Holding
      <3>3. t \in transactions /\ jar[b].id = t.id
        BY <2>3 DEF Found, Request, Free
      <3>4. handlers[h].at \notin Holding
        BY <2>1 DEF Holding
      <3>5. /\ transactions' = transactions \ {t}
            /\ handlers' = [handlers EXCEPT ![h] = q]
        BY <2>3, <3>1 DEF Consumed
      <3>6. QED
        BY <2>1, <3>2, <3>3, <3>4, <3>5, CustodyTaken
    <2>4. QED
      BY <1>8, <2>2, <2>3 DEF Callback
  <1>9. ASSUME NEW h \in Handler, BeginLink(h)
        PROVE  CustodyInv'
    <2>1. handlers[h].browser \in Browser
      BY <1>1, <1>9 DEF BeginLink, Shape
    <2>2. CASE StartAuthorization(h, handlers[h], "link", handlers[h].session)
      BY <1>9, <2>1, <2>2, CustodyBegins DEF BeginLink
    <2>3. CASE Answers(h, "failed", "clear") /\ UNCHANGED <<transactions, began>>
      BY <1>2, <1>9, <2>3 DEF BeginLink
    <2>4. QED
      BY <1>9, <2>2, <2>3 DEF BeginLink
  <1>10. ASSUME NEW h \in Handler, TouchForLink(h) \/ Exchange(h)
         PROVE  CustodyInv'
    BY <1>2, <1>3, <1>10 DEF TouchForLink, Exchange, Holding
  <1>11. ASSUME NEW h \in Handler, FindPrincipal(h)
         PROVE  CustodyInv'
    <2>1. UNCHANGED <<restarts, transactions, began, jar, completed>>
          /\ handlers[h].at \in Holding
      BY <1>11 DEF FindPrincipal, Holding
    <2>2. ASSUME NEW p, NEW statement, handlers' = [handlers EXCEPT ![h] =
                   [handlers[h] EXCEPT !.at = statement, !.principal = p]]
          PROVE  CustodyInv'
      <3>1. PICK q : q = [handlers[h] EXCEPT !.at = statement, !.principal = p]
        OBVIOUS
      <3>2. /\ q.id = handlers[h].id /\ q.browser = handlers[h].browser
            /\ q.transactionCookie = handlers[h].transactionCookie
        BY <1>1, <3>1 DEF HandlerState
      <3>3. QED
        BY <2>1, <2>2, <3>1, <3>2, CustodyAwaits
    <2>3. QED
      BY <1>2, <1>11, <2>1, <2>2 DEF FindPrincipal
  <1>12. ASSUME NEW h \in Handler, Bind(h) \/ ClassifyBinding(h)
         PROVE  CustodyInv'
    BY <1>2, <1>3, <1>12, CustodyBound DEF Bind, ClassifyBinding, Holding
  <1>13. ASSUME NEW h \in Handler, CreateSession(h)
         PROVE  CustodyInv'
    <2>1. PICK a : a = Reply(handlers[h], "done", "set")
      OBVIOUS
    <2>2. a.at \notin Holding /\ a.transactionCookie # "set"
      BY <1>1, <2>1, ReplyFields DEF Holding
    <2>3. /\ handlers[h].at \in Holding /\ handlers' = [handlers EXCEPT ![h] = a]
          /\ completed' = completed \cup {Completed(handlers[h])}
          /\ UNCHANGED <<restarts, transactions, began, jar>>
      BY <1>13, <2>1 DEF CreateSession, Answers, Holding
    <2>4. QED
      BY <2>2, <2>3, CustodyEnds
  <1>14. ASSUME NEW h \in Handler, StatementFails(h)
         PROVE  CustodyInv'
    <2>1. PICK linked \in BOOLEAN : handlers' = [handlers EXCEPT ![h] =
                 Reply([handlers[h] EXCEPT !.linked = linked], "failed", "keep")]
      BY <1>1, <1>14 DEF StatementFails, HandlerState
    <2>2. [handlers[h] EXCEPT !.linked = linked] \in HandlerState
      BY <1>1 DEF HandlerState
    <2>3. QED
      BY <1>14, <2>1, <2>2, CustodyAnswer DEF StatementFails
  <1>15. ASSUME NEW h \in Handler, Deliver(h)
         PROVE  CustodyInv'
    <2> DEFINE q == handlers[h]
    <2>1. /\ q.browser \in Browser /\ handlers' = [handlers EXCEPT ![h] = Free]
          /\ UNCHANGED <<restarts, transactions, began, completed>>
          /\ \/ jar'[q.browser].id = jar[q.browser].id
             \/ jar'[q.browser].id = NoTransaction
             \/ q.transactionCookie = "set" /\ jar'[q.browser].id = q.id
          /\ \A b \in Browser : b # q.browser => jar'[b] = jar[b]
      <3>1. /\ q.browser \in Browser
            /\ q.transactionCookie \in {"keep", "clear", "set"}
            /\ jar \in [Browser -> [id : Transaction \cup {NoTransaction}, session : Owner]]
        BY <1>1, <1>15 DEF Deliver, Shape, HandlerState, TypeInv, TypeOK
      <3>2. QED
        BY <1>15, <3>1 DEF Deliver
    <2>2. CookieAtHome'
      BY <2>1, SignInAssumption DEF CustodyInv, CookieAtHome, CookieOnItsWay
    <2>3. Free.transactionCookie # "set" /\ Free.at \notin Holding
      BY DEF Free, Holding
    <2>4. CookieOnItsWay' /\ HeldOnce'
      BY <2>1, <2>3 DEF CustodyInv, CookieOnItsWay, HeldOnce, TypeInv, TypeOK
    <2>5. PendingOnce' /\ OneCompletion'
      BY <2>1 DEF CustodyInv, PendingOnce, OneCompletion
    <2>6. QED
      BY <2>2, <2>4, <2>5 DEF CustodyInv
  <1>16. ASSUME NEW cfg \in Config, Restart(cfg)
         PROVE  CustodyInv'
    <2>1. Free.transactionCookie # "set" /\ Free.at \notin Holding
      BY DEF Free, Holding
    <2>2. QED
      BY <1>16, <2>1 DEF Restart, NoTransactions, CustodyInv, CookieAtHome, CookieOnItsWay,
                         PendingOnce, HeldOnce, OneCompletion
  <1>17. ASSUME UNCHANGED <<restarts, transactions, began, jar, handlers, completed>>
         PROVE  CustodyInv'
    BY <1>17 DEF CustodyInv, CookieAtHome, CookieOnItsWay, PendingOnce, HeldOnce, OneCompletion
  <1>18. QED
    BY <1>4, <1>5, <1>6, <1>7, <1>8, <1>9, <1>10, <1>11, <1>12, <1>13, <1>14, <1>15,
       <1>16, <1>17 DEF Next, ChooseAccount, vars

\* At the start there is no transaction.
LEMMA CustodyStart == Init => CustodyInv
  BY SignInAssumption DEF Init, CustodyInv, CookieAtHome, CookieOnItsWay, PendingOnce, HeldOnce,
                          OneCompletion, Free, Holding

\* A transaction completes one sign-in or link at most, in the browser and in
\* the process that began it, whatever is reloaded, shared or restarted.
THEOREM CompletedOnce == Spec => []OneCompletion
  <1>1. CustodyInv => OneCompletion
    BY DEF CustodyInv
  <1>2. QED
    BY <1>1, TypeStart, TypeStep, CustodyStart, CustodyStep, PTL DEF Spec

=============================================================================
