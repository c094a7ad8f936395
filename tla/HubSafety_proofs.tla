--------------------------- MODULE HubSafety_proofs ---------------------------
(***************************************************************************)
(* Types, one provider account for each connection, and rows that become   *)
(* visible in identity order.                                              *)
(*                                                                         *)
(* The last two rest on the advisory lock APPEND: every operation holds it *)
(* while it executes statements, so what one transaction has decided about *)
(* the committed events and registrations still holds when it commits.     *)
(***************************************************************************)
EXTENDS HubLedger, SequenceTheorems, TLAPS

-----------------------------------------------------------------------------
(* Lemmas about databases.                                                 *)

\* What the tables of a database hold.
LEMMA TableTypes ==
  ASSUME NEW d \in Database
  PROVE  /\ d.events \subseteq EventRow
         /\ d.registry \in [Conn -> RegistryRow \cup {NoRow}]
         /\ d.commands \subseteq CommandRow
         /\ d.authorizations \subseteq AuthorizationRow
         /\ d.eligibility \subseteq EligibilityRow
         /\ d.deliveries \subseteq DeliveryRow
         /\ d.attempts \subseteq Nat
  BY DEF Database

\* The empty database is one.
LEMMA EmptyType == EmptyDatabase \in Database
  BY DEF EmptyDatabase, Database

\* What a statement sees is a database.
LEMMA MergeType ==
  ASSUME NEW d \in Database, NEW w \in Database
  PROVE  Merge(d, w) \in Database
  <1> DEFINE g == [c \in Conn |-> IF w.registry[c] # NoRow THEN w.registry[c]
                                  ELSE d.registry[c]]
  <1>1. g \in [Conn -> RegistryRow \cup {NoRow}]
    BY TableTypes
  <1>2. QED
    BY <1>1, TableTypes DEF Merge, Database

\* The rows a statement adds form a database.
LEMMA WriteTypes ==
  /\ \A r \in EventRow : [EmptyDatabase EXCEPT !.events = {r}] \in Database
  /\ \A c \in Conn, r \in RegistryRow :
       [EmptyDatabase EXCEPT !.registry[c] = r] \in Database
  /\ \A r \in CommandRow : [EmptyDatabase EXCEPT !.commands = {r}] \in Database
  /\ \A r \in AuthorizationRow :
       [EmptyDatabase EXCEPT !.authorizations = {r}] \in Database
  /\ \A r \in EligibilityRow : [EmptyDatabase EXCEPT !.eligibility = {r}] \in Database
  /\ \A r \in DeliveryRow : [EmptyDatabase EXCEPT !.deliveries = {r}] \in Database
  <1>1. \A r \in EventRow : [EmptyDatabase EXCEPT !.events = {r}] \in Database
    BY DEF EmptyDatabase, Database
  <1>2. \A c \in Conn, r \in RegistryRow :
          [EmptyDatabase EXCEPT !.registry[c] = r] \in Database
    BY DEF EmptyDatabase, Database
  <1>3. \A r \in CommandRow : [EmptyDatabase EXCEPT !.commands = {r}] \in Database
    BY DEF EmptyDatabase, Database
  <1>4. \A r \in AuthorizationRow :
          [EmptyDatabase EXCEPT !.authorizations = {r}] \in Database
    BY DEF EmptyDatabase, Database
  <1>5. \A r \in EligibilityRow :
          [EmptyDatabase EXCEPT !.eligibility = {r}] \in Database
    BY DEF EmptyDatabase, Database
  <1>6. \A r \in DeliveryRow : [EmptyDatabase EXCEPT !.deliveries = {r}] \in Database
    BY DEF EmptyDatabase, Database
  <1>7. QED
    BY <1>1, <1>2, <1>3, <1>4, <1>5, <1>6

-----------------------------------------------------------------------------
(* The control of a transaction.  TypeOK alone is not inductive: the row   *)
(* a statement writes has its type because of what the request is and of   *)
(* what earlier statements of the same transaction left behind.            *)

\* The statements of each kind of request.
StatementsOf(kind) ==
  CASE kind = "append"    -> {"insert_event", "commit"}
    [] kind = "register"  -> {"register", "commit"}
    [] kind = "create"    -> {"find_command", "insert_command",
                              "insert_authorization", "insert_eligibility",
                              "find_command_again", "commit"}
    [] kind = "authorize" -> {"find_delivery", "insert_delivery",
                              "find_delivery_again", "commit"}

Open(s) == pc[s] \notin {"idle", "orphaned"}

Control(s) ==
  /\ phase[s] = "down" => ~Open(s)
  /\ phase[s] = "starting" => Open(s) /\ request[s] = [kind |-> "register"]
  /\ phase[s] = "serving" => pc[s] # "orphaned"
  /\ phase[s] = "serving" /\ Open(s) => request[s] \in Requests
  /\ Open(s) /\ pc[s] # "lock" => pc[s] \in StatementsOf(request[s].kind)
  /\ pc[s] = "lock" => waiting[s] # <<>>
  /\ Open(s) /\ request[s].kind = "append" =>
       DeliverableBatch(s, request[s].batch) /\ position[s] \in DOMAIN request[s].batch
  /\ pc[s] \in {"insert_authorization", "insert_eligibility", "commit"} =>
       outcome[s] \in AnswerRecord
  /\ pc[s] = "insert_eligibility" => bot[s] \in Account

TypeInv == TypeOK /\ \A s \in Server : Control(s)

\* Requests are requests, and their kinds tell them apart.
LEMMA RequestTypes ==
  /\ Requests \subseteq Request
  /\ \A q \in Requests : q.kind \in {"append", "create", "authorize"}
  /\ \A q \in Request :
       /\ q.kind \in {"append", "register", "create", "authorize"}
       /\ q.kind = "append" => q.batch \in Seq(BatchEvent)
       /\ q.kind = "create" => q \in CreateRequest
       /\ q.kind = "authorize" => q \in AuthorizeRequest
  /\ \A q \in Requests : q.kind = "append" => q.batch \in Batches
  /\ [kind |-> "register"] \in Request
  <1>1. /\ Batches \subseteq Seq(BatchEvent)
        /\ CreateRequests \subseteq CreateRequest
        /\ AuthorizeRequests \subseteq AuthorizeRequest
    BY LedgerAssumption
  <1>2. Requests \subseteq Request
    BY <1>1 DEF Requests, Request, AppendRequest
  <1>3. \A q \in Requests : q.kind \in {"append", "create", "authorize"}
    BY <1>1 DEF Requests, CreateRequest, AuthorizeRequest
  <1>4. \A q \in Request :
          /\ q.kind \in {"append", "register", "create", "authorize"}
          /\ q.kind = "append" => q.batch \in Seq(BatchEvent)
          /\ q.kind = "create" => q \in CreateRequest
          /\ q.kind = "authorize" => q \in AuthorizeRequest
    BY DEF Request, AppendRequest, CreateRequest, AuthorizeRequest, RegisterRequest
  <1>5. \A q \in Requests : q.kind = "append" => q.batch \in Batches
    BY <1>1 DEF Requests, CreateRequest, AuthorizeRequest
  <1>6. [kind |-> "register"] \in Request
    BY DEF Request, RegisterRequest
  <1>7. QED
    BY <1>2, <1>3, <1>4, <1>5, <1>6

\* Configurations are records, and NoConfig is one of them.
LEMMA ConfigTypes ==
  /\ NoConfig \in Config
  /\ \A cfg \in Config : /\ \A c \in Conn : cfg.accounts[c] \in AccountOrNull
                         /\ \A i \in Inbox : cfg.scope[i] \in Scope
  BY LedgerAssumption DEF NoConfig, ConfigRecord, Scope

\* Every operation takes at least one lock.
LEMMA LockTypes ==
  \A kind \in {"append", "register", "create", "authorize"} :
    LocksOf(kind) \in Seq(Lock) /\ LocksOf(kind) # <<>>
    /\ FirstStatement(kind) \in StatementsOf(kind) \ {"commit"}
  <1> SUFFICES ASSUME NEW kind \in {"append", "register", "create", "authorize"}
               PROVE  /\ LocksOf(kind) \in Seq(Lock) /\ LocksOf(kind) # <<>>
                      /\ FirstStatement(kind) \in StatementsOf(kind) \ {"commit"}
    OBVIOUS
  <1>1. CASE kind = "append"
    BY <1>1 DEF LocksOf, Lock, FirstStatement, StatementsOf
  <1>2. CASE kind = "register"
    BY <1>2 DEF LocksOf, Lock, FirstStatement, StatementsOf
  <1>3. CASE kind = "create"
    BY <1>3 DEF LocksOf, Lock, FirstStatement, StatementsOf
  <1>4. CASE kind = "authorize"
    BY <1>4 DEF LocksOf, Lock, FirstStatement, StatementsOf
  <1>5. QED
    BY <1>1, <1>2, <1>3, <1>4

\* The invariant holds initially.
LEMMA TypeInit == Init => TypeInv
  <1> SUFFICES ASSUME Init PROVE TypeInv
    OBVIOUS
  <1>1. db \in Database /\ (\A r \in db.events : r.id \in 1..MaxLedgerId)
        /\ (\A c \in db.commands : c.id \in 1..MaxCommandId)
    BY LedgerAssumption DEF Init, LegacyAssumption
  <1>2. ledgerSeq \in 0..MaxLedgerId /\ commandSeq \in 0..MaxCommandId
    BY <1>1, LedgerAssumption DEF Init
  <1>3. TypeOK
    BY <1>1, <1>2, EmptyType, ConfigTypes DEF Init, TypeOK, PC, AccountOrNull
  <1>4. \A s \in Server : Control(s)
    BY DEF Init, Control, Open
  <1>5. QED
    BY <1>3, <1>4 DEF TypeInv

\* A server whose variables do not change stays under control.
LEMMA ControlFrame ==
  ASSUME NEW t \in Server, Control(t),
         phase'[t] = phase[t], config'[t] = config[t], request'[t] = request[t],
         pc'[t] = pc[t], waiting'[t] = waiting[t], position'[t] = position[t],
         bot'[t] = bot[t], outcome'[t] = outcome[t]
  PROVE  Control(t)'
  BY DEF Control, Open, DeliverableBatch

\* A transaction begins.
LEMMA BeginType ==
  ASSUME TypeInv, NEW s \in Server, NEW q \in Request, BeginTransaction(s, q)
  PROVE  /\ request' \in [Server -> Request \cup {NoRequest}]
         /\ answer' \in [Server -> AnswerRecord \cup {NoAnswer}]
         /\ pc' \in [Server -> PC]
         /\ waiting' \in [Server -> Seq(Lock)] /\ waiting'[s] # <<>>
         /\ position' \in [Server -> Nat]
  <1>1. LocksOf(q.kind) \in Seq(Lock) /\ LocksOf(q.kind) # <<>>
    BY LockTypes, RequestTypes
  <1>2. QED
    BY <1>1 DEF TypeInv, TypeOK, BeginTransaction, PC

\* A process starts.
LEMMA StartType ==
  ASSUME TypeInv, NEW s \in Server, NEW cfg \in Config, Start(s, cfg)
  PROVE  TypeInv'
  <1> DEFINE q == [kind |-> "register"]
  <1>1. q \in Request
    BY RequestTypes
  <1>2. BeginTransaction(s, q)
    BY DEF Start
  <1>3. TypeOK'
    BY <1>1, <1>2, BeginType DEF Start, storage, BeginTransaction, TypeInv, TypeOK
  <1>4. Control(s)'
    <2>1. /\ phase'[s] = "starting" /\ pc'[s] = "lock" /\ request'[s] = q
          /\ waiting'[s] # <<>> /\ q.kind = "register"
      BY <1>1, <1>2, BeginType DEF Start, BeginTransaction, TypeInv, TypeOK
    <2>2. QED
      BY <2>1 DEF Control, Open
  <1>5. ASSUME NEW t \in Server, t # s PROVE Control(t)'
    BY <1>5, ControlFrame DEF Start, BeginTransaction, TypeInv, TypeOK
  <1>6. QED
    BY <1>3, <1>4, <1>5 DEF TypeInv

\* A serving process is called.
LEMMA ReceiveType ==
  ASSUME TypeInv, NEW s \in Server, NEW q \in Requests, Receive(s, q)
  PROVE  TypeInv'
  <1>1. q \in Request
    BY RequestTypes
  <1>2. BeginTransaction(s, q)
    BY DEF Receive
  <1>3. TypeOK'
    BY <1>1, <1>2, BeginType DEF Receive, storage, BeginTransaction, TypeInv, TypeOK
  <1>4. q.kind = "append" => DeliverableBatch(s, q.batch)' /\ 1 \in DOMAIN q.batch
    <2> SUFFICES ASSUME q.kind = "append"
                 PROVE  DeliverableBatch(s, q.batch)' /\ 1 \in DOMAIN q.batch
      OBVIOUS
    <2>1. q.batch \in Seq(BatchEvent) \ {<<>>}
      BY RequestTypes, LedgerAssumption
    <2>2. QED
      BY <2>1 DEF Receive, DeliverableBatch
  <1>5. Control(s)'
    BY <1>1, <1>2, <1>4, BeginType, ZenonT(40)
    DEF Receive, BeginTransaction, Control, Open, TypeInv, TypeOK
  <1>6. ASSUME NEW t \in Server, t # s PROVE Control(t)'
    BY <1>6, ControlFrame DEF Receive, BeginTransaction, TypeInv, TypeOK
  <1>7. QED
    BY <1>3, <1>5, <1>6 DEF TypeInv

\* A lock is granted.
LEMMA AcquireType ==
  ASSUME TypeInv, NEW s \in Server, AcquireLock(s)
  PROVE  TypeInv'
  <1>1. /\ waiting[s] \in Seq(Lock) /\ waiting[s] # <<>>
        /\ Open(s) /\ request[s] \in Request
    BY RequestTypes DEF AcquireLock, TypeInv, TypeOK, Control, Open
  <1>2. /\ FirstStatement(request[s].kind) \in StatementsOf(request[s].kind) \ {"commit"}
        /\ StatementsOf(request[s].kind) \subseteq PC \ {"idle", "orphaned", "lock"}
    BY <1>1, LockTypes, RequestTypes DEF StatementsOf, PC
  <1>3. Head(waiting[s]) \in Lock /\ Tail(waiting[s]) \in Seq(Lock)
        /\ (Len(waiting[s]) # 1 => Tail(waiting[s]) # <<>>)
    <2>1. /\ Head(waiting[s]) \in Lock /\ Tail(waiting[s]) \in Seq(Lock)
          /\ Len(Tail(waiting[s])) = Len(waiting[s]) - 1 /\ Len(waiting[s]) \in Nat
      BY <1>1, HeadTailProperties, LenProperties
    <2>2. Tail(waiting[s]) = <<>> => Len(Tail(waiting[s])) = 0
      BY EmptySeq
    <2>3. QED
      BY <2>1, <2>2
  <1>4. TypeOK'
    BY <1>2, <1>3 DEF AcquireLock, process, TypeInv, TypeOK, PC
  <1>5. Control(s)'
    <2>1. FirstStatement(request[s].kind)
            \notin {"insert_authorization", "insert_eligibility", "commit"}
      BY <1>1, RequestTypes DEF FirstStatement
    <2>2. QED
      BY <1>1, <1>2, <1>3, <2>1, ZenonT(40)
      DEF AcquireLock, process, TypeInv, TypeOK, Control, Open, DeliverableBatch
  <1>6. ASSUME NEW t \in Server, t # s PROVE Control(t)'
    BY <1>6, ControlFrame DEF AcquireLock, process, TypeInv, TypeOK
  <1>7. QED
    BY <1>4, <1>5, <1>6 DEF TypeInv

-----------------------------------------------------------------------------
(* Statements.                                                             *)

\* What a transaction sees has its type, and writing a database to its draft
\* keeps the type of drafts.
LEMMA ViewType ==
  ASSUME TypeInv, NEW s \in Server
  PROVE  /\ View(s) \in Database
         /\ \A rows \in Database :
              Write(s, rows) => draft' \in [Server -> Database]
  <1>1. View(s) \in Database
    BY MergeType DEF View, TypeInv, TypeOK
  <1>2. ASSUME NEW rows \in Database, Write(s, rows)
        PROVE  draft' \in [Server -> Database]
    <2>1. Merge(draft[s], rows) \in Database
      BY MergeType DEF TypeInv, TypeOK
    <2>2. QED
      BY <2>1, <1>2 DEF Write, TypeInv, TypeOK
  <1>3. QED
    BY <1>1, <1>2

\* A transaction that executes a statement serves a request of its kind.
LEMMA StatementRequest ==
  ASSUME TypeInv, NEW s \in Server, Open(s), pc[s] # "lock"
  PROVE  /\ phase[s] \in {"starting", "serving"}
         /\ request[s] \in Request
         /\ phase[s] = "serving" => request[s] \in Requests
         /\ pc[s] = "insert_event" => request[s].kind = "append"
         /\ pc[s] = "register" => request[s].kind = "register"
         /\ pc[s] \in {"find_command", "insert_command", "insert_authorization",
                       "insert_eligibility", "find_command_again"} =>
              request[s] \in CreateRequest /\ request[s].kind = "create"
         /\ pc[s] \in {"find_delivery", "insert_delivery", "find_delivery_again"} =>
              request[s] \in AuthorizeRequest /\ request[s].kind = "authorize"
  <1>1. /\ phase[s] \in {"starting", "serving"}
        /\ request[s] \in Request
        /\ phase[s] = "serving" => request[s] \in Requests
    BY RequestTypes DEF TypeInv, TypeOK, Control, Open
  <1>2. pc[s] \in StatementsOf(request[s].kind)
    BY DEF TypeInv, Control
  <1>3. /\ pc[s] = "insert_event" => request[s].kind = "append"
        /\ pc[s] = "register" => request[s].kind = "register"
        /\ pc[s] \in {"find_command", "insert_command", "insert_authorization",
                      "insert_eligibility", "find_command_again"} =>
             request[s].kind = "create"
        /\ pc[s] \in {"find_delivery", "insert_delivery", "find_delivery_again"} =>
             request[s].kind = "authorize"
    BY <1>1, <1>2, RequestTypes DEF StatementsOf
  <1>4. QED
    BY <1>1, <1>3, RequestTypes

\* What a statement has to establish: it changes its own transaction only,
\* and what comes next belongs to the same request.
LEMMA StatementType ==
  ASSUME TypeInv, NEW s \in Server, Open(s), pc[s] # "lock", UnchangedButStatement,
         ledgerSeq' \in 0..MaxLedgerId, commandSeq' \in 0..MaxCommandId,
         pc' \in [Server -> PC], position' \in [Server -> Nat],
         draft' \in [Server -> Database], bot' \in [Server -> AccountOrNull],
         outcome' \in [Server -> AnswerRecord \cup {NoAnswer}],
         \A t \in Server \ {s} : /\ pc'[t] = pc[t] /\ position'[t] = position[t]
                                 /\ bot'[t] = bot[t] /\ outcome'[t] = outcome[t],
         pc'[s] \in StatementsOf(request[s].kind),
         request[s].kind = "append" => position'[s] \in DOMAIN request[s].batch,
         pc'[s] \in {"insert_authorization", "insert_eligibility", "commit"} =>
           outcome'[s] \in AnswerRecord,
         pc'[s] = "insert_eligibility" => bot'[s] \in Account
  PROVE  TypeInv'
  <1>1. TypeOK'
    BY DEF UnchangedButStatement, TypeInv, TypeOK
  <1>2. request[s] \in Request /\ phase[s] \in {"starting", "serving"}
    BY StatementRequest
  <1>3. pc'[s] \notin {"idle", "orphaned", "lock"}
    BY <1>2, RequestTypes DEF StatementsOf
  <1>4. request[s].kind = "append" => DeliverableBatch(s, request[s].batch)'
    BY DEF UnchangedButStatement, DeliverableBatch, TypeInv, Control
  <1>5. Control(s)'
    BY <1>2, <1>3, <1>4 DEF UnchangedButStatement, TypeInv, Control, Open
  <1>6. ASSUME NEW t \in Server, t # s PROVE Control(t)'
    BY <1>6, ControlFrame DEF UnchangedButStatement, TypeInv
  <1>7. QED
    BY <1>1, <1>5, <1>6 DEF TypeInv

\* An event is inserted.
LEMMA InsertEventType ==
  ASSUME TypeInv, NEW s \in Server, InsertEvent(s)
  PROVE  TypeInv'
  <1> DEFINE e == request[s].batch[position[s]]
             a == config[s].accounts[e.conn]
             row == [id |-> ledgerSeq + 1, conn |-> e.conn, event |-> e.event,
                     channel |-> ChannelOf[a], chat |-> e.chat, account |-> a]
  <1>1. Open(s) /\ pc[s] # "lock" /\ request[s].kind = "append" /\ request[s] \in Request
    BY StatementRequest DEF InsertEvent, Open
  <1>2. /\ DeliverableBatch(s, request[s].batch)
        /\ position[s] \in DOMAIN request[s].batch
        /\ request[s].batch \in Seq(BatchEvent)
    BY <1>1, RequestTypes DEF TypeInv, Control
  <1>3. e \in BatchEvent /\ a \in Account
    <2>1. e \in BatchEvent
      BY <1>2, ElementOfSeq
    <2>2. a \in AccountOrNull
      BY <2>1, ConfigTypes DEF BatchEvent, TypeInv, TypeOK
    <2>3. QED
      BY <1>2, <2>1, <2>2 DEF DeliverableBatch, AccountOrNull
  <1>4. row \in EventRow
    <2>1. ChannelOf[a] \in Channel
      BY <1>3, TablesAssumption DEF Channel
    <2>2. ledgerSeq + 1 \in Nat
      BY LedgerAssumption DEF TypeInv, TypeOK
    <2>3. QED
      BY <1>3, <2>1, <2>2 DEF EventRow, BatchEvent, AccountOrNull
  <1>5. draft' \in [Server -> Database]
    <2>1. [EmptyDatabase EXCEPT !.events = {row}] \in Database
      BY <1>4, WriteTypes
    <2>2. CASE EventRecorded(View(s), e.conn, e.event)
      BY <2>2 DEF InsertEvent, TypeInv, TypeOK
    <2>3. CASE ~EventRecorded(View(s), e.conn, e.event)
      BY <2>1, <2>3, ViewType DEF InsertEvent
    <2>4. QED
      BY <2>2, <2>3
  <1>6. ledgerSeq' \in 0..MaxLedgerId
    <2>1. ledgerSeq \in 0..MaxLedgerId /\ MaxLedgerId \in Nat
      BY LedgerAssumption DEF TypeInv, TypeOK
    <2>2. ledgerSeq' = ledgerSeq + 1 /\ ledgerSeq < MaxLedgerId
      BY DEF InsertEvent
    <2>3. QED
      BY <2>1, <2>2
  <1>7. Answer("stored", 0) \in AnswerRecord
    BY DEF Answer, AnswerRecord, AnswerKind
  <1>8. CASE position[s] = Len(request[s].batch)
    <2>1. /\ pc'[s] = "commit" /\ outcome'[s] = Answer("stored", 0)
          /\ pc' \in [Server -> PC] /\ position' = position /\ bot' = bot
          /\ outcome' \in [Server -> AnswerRecord \cup {NoAnswer}]
          /\ \A t \in Server \ {s} : pc'[t] = pc[t] /\ outcome'[t] = outcome[t]
      BY <1>7, <1>8 DEF InsertEvent, Settle, MoveTo, TypeInv, TypeOK, PC
    <2>2. pc'[s] \in StatementsOf(request[s].kind)
      BY <1>1, <2>1 DEF StatementsOf
    <2>3. UnchangedButStatement /\ commandSeq' \in 0..MaxCommandId
      BY DEF InsertEvent, TypeInv, TypeOK
    <2>4. QED
      BY <1>1, <1>2, <1>5, <1>6, <1>7, <2>1, <2>2, <2>3, StatementType DEF TypeInv, TypeOK
  <1>9. CASE position[s] # Len(request[s].batch)
    <2>1. position[s] + 1 \in DOMAIN request[s].batch
      <3>1. /\ DOMAIN request[s].batch = 1..Len(request[s].batch)
            /\ Len(request[s].batch) \in Nat
        BY <1>2, LenProperties
      <3>2. QED
        BY <1>2, <1>9, <3>1
    <2>2. /\ position' \in [Server -> Nat] /\ position'[s] = position[s] + 1
          /\ \A t \in Server \ {s} : position'[t] = position[t]
          /\ pc' = pc /\ bot' = bot /\ outcome' = outcome
      <3>1. /\ position' = [position EXCEPT ![s] = @ + 1]
            /\ pc' = pc /\ bot' = bot /\ outcome' = outcome
        BY <1>9 DEF InsertEvent
      <3>2. position \in [Server -> Nat]
        BY DEF TypeInv, TypeOK
      <3>3. QED
        BY <3>1, <3>2
    <2>3. pc'[s] = "insert_event" /\ pc'[s] \in StatementsOf(request[s].kind)
      BY <1>1, <2>2 DEF StatementsOf, InsertEvent
    <2>4. UnchangedButStatement /\ commandSeq' \in 0..MaxCommandId
      BY DEF InsertEvent, TypeInv, TypeOK
    <2>5. QED
      BY <1>1, <1>5, <1>6, <2>1, <2>2, <2>3, <2>4, StatementType DEF TypeInv, TypeOK
  <1>10. QED
    BY <1>8, <1>9

\* A statement that only settles the outcome, or hands over to another
\* statement of its kind, and writes nothing but rows of a database.
LEMMA SettleType ==
  ASSUME TypeInv, NEW s \in Server, Open(s), pc[s] # "lock", UnchangedButStatement,
         ledgerSeq' = ledgerSeq, commandSeq' \in 0..MaxCommandId,
         position' = position, draft' \in [Server -> Database],
         request[s].kind # "append",
         NEW next \in StatementsOf(request[s].kind), MoveTo(s, next),
         NEW o \in AnswerRecord \cup {NoAnswer}, outcome' = [outcome EXCEPT ![s] = o],
         next \in {"insert_authorization", "insert_eligibility", "commit"} =>
           o \in AnswerRecord,
         NEW b \in AccountOrNull, bot' = [bot EXCEPT ![s] = b],
         next = "insert_eligibility" => b \in Account
  PROVE  TypeInv'
  <1>1. StatementsOf(request[s].kind) \subseteq PC
    BY StatementRequest, RequestTypes DEF StatementsOf, PC
  <1>2. /\ pc' \in [Server -> PC] /\ pc'[s] = next
        /\ outcome' \in [Server -> AnswerRecord \cup {NoAnswer}] /\ outcome'[s] = o
        /\ bot' \in [Server -> AccountOrNull] /\ bot'[s] = b
        /\ \A t \in Server \ {s} : /\ pc'[t] = pc[t] /\ outcome'[t] = outcome[t]
                                  /\ bot'[t] = bot[t]
    BY <1>1 DEF MoveTo, TypeInv, TypeOK
  <1>3. position' \in [Server -> Nat] /\ ledgerSeq' \in 0..MaxLedgerId
    BY DEF TypeInv, TypeOK
  <1>4. QED
    BY <1>2, <1>3, StatementType

\* A variable that does not change equals itself with one element rewritten.
LEMMA Unchanged ==
  ASSUME TypeInv, NEW s \in Server
  PROVE  /\ bot' = bot => bot' = [bot EXCEPT ![s] = bot[s]]
         /\ pc' = pc => MoveTo(s, pc[s])
         /\ outcome' = outcome => outcome' = [outcome EXCEPT ![s] = outcome[s]]
         /\ bot[s] \in AccountOrNull /\ outcome[s] \in AnswerRecord \cup {NoAnswer}
         /\ draft \in [Server -> Database] /\ commandSeq \in 0..MaxCommandId
  BY DEF TypeInv, TypeOK, MoveTo

\* A statement that settles the outcome.
LEMMA SettledType ==
  ASSUME TypeInv, NEW s \in Server, Open(s), pc[s] # "lock", UnchangedButStatement,
         ledgerSeq' = ledgerSeq, commandSeq' = commandSeq, position' = position,
         draft' \in [Server -> Database], bot' = bot, request[s].kind # "append",
         NEW o \in AnswerRecord, Settle(s, o)
  PROVE  TypeInv'
  <1>1. "commit" \in StatementsOf(request[s].kind)
    BY StatementRequest, RequestTypes DEF StatementsOf
  <1>2. MoveTo(s, "commit") /\ outcome' = [outcome EXCEPT ![s] = o]
    BY DEF Settle
  <1>3. /\ bot[s] \in AccountOrNull /\ bot' = [bot EXCEPT ![s] = bot[s]]
        /\ commandSeq' \in 0..MaxCommandId
    BY Unchanged
  <1>4. QED
    BY <1>1, <1>2, <1>3, SettleType

\* A statement that hands over to another one and settles nothing.
LEMMA HandOverType ==
  ASSUME TypeInv, NEW s \in Server, Open(s), pc[s] # "lock", UnchangedButStatement,
         ledgerSeq' = ledgerSeq, commandSeq' \in 0..MaxCommandId, position' = position,
         draft' \in [Server -> Database], bot' = bot, outcome' = outcome,
         request[s].kind # "append",
         NEW next \in StatementsOf(request[s].kind), MoveTo(s, next),
         next \notin {"insert_authorization", "insert_eligibility", "commit"}
  PROVE  TypeInv'
  <1>1. /\ bot[s] \in AccountOrNull /\ bot' = [bot EXCEPT ![s] = bot[s]]
        /\ outcome[s] \in AnswerRecord \cup {NoAnswer}
        /\ outcome' = [outcome EXCEPT ![s] = outcome[s]]
    BY Unchanged
  <1>2. QED
    BY <1>1, SettleType

\* A connection is registered.
LEMMA RegisterType ==
  ASSUME TypeInv, NEW s \in Server, NEW c \in Conn, RegisterConnection(s, c)
  PROVE  TypeInv'
  <1> DEFINE a == config[s].accounts[c]
  <1>1. /\ Open(s) /\ pc[s] = "register" /\ request[s].kind = "register"
        /\ pc[s] \in StatementsOf(request[s].kind) /\ "commit" \in StatementsOf(request[s].kind)
        /\ UnchangedButStatement
        /\ UNCHANGED <<ledgerSeq, commandSeq, position, bot>>
    BY StatementRequest DEF RegisterConnection, Open, StatementsOf
  <1>2. a \in Account
    BY ConfigTypes DEF RegisterConnection, Unregistered, Configured, AccountOrNull,
                       TypeInv, TypeOK
  <1>3. Registration(a) \in RegistryRow
    BY <1>2, TablesAssumption DEF Registration, RegistryRow, Channel, AccountOrNull
  <1>4. draft' \in [Server -> Database]
    BY <1>3, WriteTypes, ViewType DEF RegisterConnection
  <1>5. CASE Unregistered(s) = {c}
    <2>1. Settle(s, Answer("registered", 0))
      BY <1>5 DEF RegisterConnection
    <2>2. Answer("registered", 0) \in AnswerRecord
      BY DEF Answer, AnswerRecord, AnswerKind
    <2>3. QED
      BY <1>1, <1>4, <2>1, <2>2, SettledType
  <1>6. CASE Unregistered(s) # {c}
    <2>1. pc' = pc /\ outcome' = outcome
      BY <1>6 DEF RegisterConnection
    <2>2. MoveTo(s, "register")
      BY <1>1, <2>1, Unchanged
    <2>3. QED
      BY <1>1, <1>4, <2>1, <2>2, HandOverType, Unchanged
  <1>7. QED
    BY <1>5, <1>6

\* Classifying a stored row gives an answer.
LEMMA ClassifyTypes ==
  ASSUME NEW d \in Database, NEW q, NEW scope
  PROVE  /\ \A c \in FindCommands(d, q, scope) :
              ClassifyCommand(d, c, q, scope) \in AnswerRecord
         /\ \A v \in FindDeliveries(d, q, scope) :
              ClassifyDelivery(d, v, q, scope) \in AnswerRecord
  <1>1. ASSUME NEW c \in FindCommands(d, q, scope)
        PROVE  ClassifyCommand(d, c, q, scope) \in AnswerRecord
    <2>1. c.id \in Nat
      BY <1>1, TableTypes DEF FindCommands, CommandsFor, CommandRow
    <2>2. QED
      BY <2>1 DEF ClassifyCommand, Answer, AnswerRecord, AnswerKind
  <1>2. ASSUME NEW v \in FindDeliveries(d, q, scope)
        PROVE  ClassifyDelivery(d, v, q, scope) \in AnswerRecord
    <2>1. v.command \in Nat
      BY <1>2, TableTypes DEF FindDeliveries, DeliveryRow
    <2>2. QED
      BY <2>1 DEF ClassifyDelivery, Answer, AnswerRecord, AnswerKind
  <1>3. QED
    BY <1>1, <1>2

\* The statements that look for a stored row.
LEMMA FindType ==
  ASSUME TypeInv, NEW s \in Server,
         FindCommand(s) \/ FindCommandAgain(s) \/ FindDelivery(s) \/ FindDeliveryAgain(s)
  PROVE  TypeInv'
  <1>1. /\ Open(s) /\ pc[s] # "lock" /\ UnchangedButStatement
        /\ UNCHANGED <<ledgerSeq, commandSeq, position, draft, bot>>
    BY DEF FindCommand, FindCommandAgain, FindDelivery, FindDeliveryAgain, Open
  <1>2. /\ FindCommand(s) \/ FindCommandAgain(s) => request[s].kind = "create"
        /\ FindDelivery(s) \/ FindDeliveryAgain(s) => request[s].kind = "authorize"
    BY <1>1, StatementRequest
    DEF FindCommand, FindCommandAgain, FindDelivery, FindDeliveryAgain
  <1>3. \/ MoveTo(s, "insert_command") /\ UNCHANGED outcome /\ request[s].kind = "create"
        \/ MoveTo(s, "insert_delivery") /\ UNCHANGED outcome
           /\ request[s].kind = "authorize"
        \/ \E o \in AnswerRecord : /\ Settle(s, o)
                                   /\ request[s].kind \in {"create", "authorize"}
    <2>1. View(s) \in Database
      BY ViewType
    <2>2. /\ Answer("source_unavailable", 0) \in AnswerRecord
          /\ Answer("command_unavailable", 0) \in AnswerRecord
      BY DEF Answer, AnswerRecord, AnswerKind
    <2>3. CASE FindCommand(s)
      BY <1>2, <2>1, <2>3, ClassifyTypes DEF FindCommand
    <2>4. CASE FindCommandAgain(s)
      BY <1>2, <2>1, <2>2, <2>4, ClassifyTypes DEF FindCommandAgain
    <2>5. CASE FindDelivery(s)
      BY <1>2, <2>1, <2>5, ClassifyTypes DEF FindDelivery
    <2>6. CASE FindDeliveryAgain(s)
      BY <1>2, <2>1, <2>2, <2>6, ClassifyTypes DEF FindDeliveryAgain
    <2>7. QED
      BY <2>3, <2>4, <2>5, <2>6
  <1>4. /\ request[s].kind = "create" =>
             {"insert_command", "commit"} \subseteq StatementsOf(request[s].kind)
        /\ request[s].kind = "authorize" =>
             {"insert_delivery", "commit"} \subseteq StatementsOf(request[s].kind)
    BY DEF StatementsOf
  <1>5. CASE MoveTo(s, "insert_command") /\ UNCHANGED outcome /\ request[s].kind = "create"
    BY <1>1, <1>4, <1>5, HandOverType, Unchanged
  <1>6. CASE /\ MoveTo(s, "insert_delivery") /\ UNCHANGED outcome
             /\ request[s].kind = "authorize"
    BY <1>1, <1>4, <1>6, HandOverType, Unchanged
  <1>7. ASSUME NEW o \in AnswerRecord, Settle(s, o),
               request[s].kind \in {"create", "authorize"}
        PROVE  TypeInv'
    BY <1>1, <1>7, SettledType, Unchanged
  <1>8. QED
    BY <1>3, <1>5, <1>6, <1>7

\* The scope of an inbox is a set of connections.
LEMMA ScopeType ==
  ASSUME TypeInv, NEW s \in Server, request[s].inbox \in Inbox
  PROVE  ScopeOf(s) \in Scope
  BY ConfigTypes DEF ScopeOf, TypeInv, TypeOK

\* A command is inserted, or its insert returns no row.
LEMMA InsertCommandType ==
  ASSUME TypeInv, NEW s \in Server, InsertCommand(s)
  PROVE  TypeInv'
  <1> DEFINE q == request[s]
             sources == EligibleSource(View(s), q, ScopeOf(s))
             row(r) == [id |-> commandSeq + 1, conn |-> r.conn, event |-> r.event,
                        op |-> q.op, text |-> q.text, channel |-> r.channel]
             botOf(r) == IF r.channel = "telegram_bot"
                         THEN View(s).registry[r.conn].account ELSE NoAccount
  <1>1. /\ Open(s) /\ pc[s] # "lock" /\ UnchangedButStatement
        /\ UNCHANGED <<ledgerSeq, position>>
    BY DEF InsertCommand, Open
  <1>2. q \in CreateRequest /\ q.kind = "create"
    BY <1>1, StatementRequest DEF InsertCommand
  <1>3. {"find_command_again", "insert_authorization"} \subseteq StatementsOf(q.kind)
    BY <1>2 DEF StatementsOf
  <1>4. commandSeq' \in 0..MaxCommandId
    <2>1. commandSeq \in 0..MaxCommandId /\ MaxCommandId \in Nat
      BY LedgerAssumption DEF TypeInv, TypeOK
    <2>2. /\ commandSeq' = IF sources = {} THEN commandSeq ELSE commandSeq + 1
          /\ sources # {} => commandSeq < MaxCommandId
      BY DEF InsertCommand
    <2>3. QED
      BY <2>1, <2>2
  <1>5. CASE ~(sources # {} /\ CommandsFor(View(s), q) = {})
    <2>1. MoveTo(s, "find_command_again") /\ UNCHANGED <<draft, bot, outcome>>
      BY <1>5 DEF InsertCommand
    <2>2. QED
      BY <1>1, <1>2, <1>3, <1>4, <2>1, HandOverType, Unchanged
  <1>6. CASE sources # {} /\ CommandsFor(View(s), q) = {}
    <2>1. PICK r \in sources :
            /\ Write(s, [EmptyDatabase EXCEPT !.commands = {row(r)}])
            /\ bot' = [bot EXCEPT ![s] = botOf(r)]
      BY <1>6 DEF InsertCommand
    <2>2. /\ outcome' = [outcome EXCEPT ![s] = Answer("created", commandSeq + 1)]
          /\ MoveTo(s, "insert_authorization")
      BY <1>6 DEF InsertCommand
    <2>3. r \in EventRow
      BY ViewType, TableTypes DEF EligibleSource
    <2>4. commandSeq + 1 \in Nat
      BY Unchanged
    <2>5. row(r) \in CommandRow
      BY <1>2, <2>3, <2>4 DEF CommandRow, EventRow, CreateRequest
    <2>6. draft' \in [Server -> Database]
      BY <2>1, <2>5, WriteTypes, ViewType
    <2>7. botOf(r) \in AccountOrNull
      BY DEF EligibleSource, BoundBot, AccountOrNull
    <2>8. Answer("created", commandSeq + 1) \in AnswerRecord
      BY <2>4 DEF Answer, AnswerRecord, AnswerKind
    <2>9. QED
      BY <1>1, <1>2, <1>3, <1>4, <2>1, <2>2, <2>6, <2>7, <2>8, SettleType
  <1>7. QED
    BY <1>5, <1>6

\* The authorization row is inserted.
LEMMA InsertAuthorizationType ==
  ASSUME TypeInv, NEW s \in Server, InsertAuthorization(s)
  PROVE  TypeInv'
  <1> DEFINE row == [command |-> outcome[s].command, inbox |-> request[s].inbox,
                     authority |-> request[s].authority, scope |-> ScopeOf(s)]
             next == IF bot[s] # NoAccount THEN "insert_eligibility" ELSE "commit"
  <1>1. /\ Open(s) /\ pc[s] = "insert_authorization" /\ UnchangedButStatement
        /\ UNCHANGED <<ledgerSeq, commandSeq, position, bot, outcome>>
        /\ Write(s, [EmptyDatabase EXCEPT !.authorizations = {row}])
        /\ MoveTo(s, next)
    BY DEF InsertAuthorization, Open
  <1>2. request[s] \in CreateRequest /\ request[s].kind = "create"
    BY <1>1, StatementRequest
  <1>3. outcome[s] \in AnswerRecord
    BY <1>1 DEF TypeInv, Control
  <1>4. row \in AuthorizationRow
    BY <1>2, <1>3, ScopeType
    DEF AuthorizationRow, CreateRequest, AnswerRecord
  <1>5. draft' \in [Server -> Database]
    BY <1>1, <1>4, WriteTypes, ViewType
  <1>6. next \in StatementsOf(request[s].kind)
    BY <1>2 DEF StatementsOf
  <1>7. /\ outcome' = [outcome EXCEPT ![s] = outcome[s]]
        /\ bot' = [bot EXCEPT ![s] = bot[s]] /\ bot[s] \in AccountOrNull
        /\ commandSeq' \in 0..MaxCommandId
    BY <1>1, Unchanged
  <1>8. next = "insert_eligibility" => bot[s] \in Account
    BY <1>7 DEF AccountOrNull
  <1>9. QED
    BY <1>1, <1>2, <1>3, <1>5, <1>6, <1>7, <1>8, SettleType

\* The eligibility row is inserted.
LEMMA InsertEligibilityType ==
  ASSUME TypeInv, NEW s \in Server, InsertEligibility(s)
  PROVE  TypeInv'
  <1> DEFINE row == [command |-> outcome[s].command, account |-> bot[s]]
  <1>1. /\ Open(s) /\ pc[s] = "insert_eligibility" /\ UnchangedButStatement
        /\ UNCHANGED <<ledgerSeq, commandSeq, position, bot, outcome>>
        /\ Write(s, [EmptyDatabase EXCEPT !.eligibility = {row}])
        /\ MoveTo(s, "commit")
    BY DEF InsertEligibility, Open
  <1>2. request[s].kind = "create"
    BY <1>1, StatementRequest
  <1>3. outcome[s] \in AnswerRecord /\ bot[s] \in Account
    BY <1>1 DEF TypeInv, Control
  <1>4. row \in EligibilityRow
    BY <1>3 DEF EligibilityRow, AnswerRecord
  <1>5. draft' \in [Server -> Database]
    BY <1>1, <1>4, WriteTypes, ViewType
  <1>6. "commit" \in StatementsOf(request[s].kind)
    BY <1>2 DEF StatementsOf
  <1>7. /\ outcome' = [outcome EXCEPT ![s] = outcome[s]]
        /\ bot' = [bot EXCEPT ![s] = bot[s]] /\ bot[s] \in AccountOrNull
        /\ commandSeq' \in 0..MaxCommandId
    BY <1>1, Unchanged
  <1>8. QED
    BY <1>1, <1>2, <1>3, <1>5, <1>6, <1>7, SettleType

\* A delivery authorization is inserted, or its insert returns no row.
LEMMA InsertDeliveryType ==
  ASSUME TypeInv, NEW s \in Server, InsertDelivery(s)
  PROVE  TypeInv'
  <1> DEFINE q == request[s]
             eligible == EligibleCommand(View(s), q, ScopeOf(s))
             taken == \E v \in View(s).deliveries : v.command = q.command
             row(c) == [command |-> c.id, inbox |-> q.inbox, principal |-> q.principal,
                        scope |-> ScopeOf(s),
                        account |-> View(s).registry[c.conn].account]
  <1>1. /\ Open(s) /\ pc[s] # "lock" /\ UnchangedButStatement
        /\ UNCHANGED <<ledgerSeq, commandSeq, position, bot>>
    BY DEF InsertDelivery, Open
  <1>2. q \in AuthorizeRequest /\ q.kind = "authorize"
    BY <1>1, StatementRequest DEF InsertDelivery
  <1>3. "find_delivery_again" \in StatementsOf(q.kind)
    BY <1>2 DEF StatementsOf
  <1>4. CASE ~(eligible # {} /\ ~taken)
    <2>1. MoveTo(s, "find_delivery_again") /\ UNCHANGED <<draft, outcome>>
      BY <1>4 DEF InsertDelivery
    <2>2. QED
      BY <1>1, <1>2, <1>3, <2>1, HandOverType, Unchanged
  <1>5. CASE eligible # {} /\ ~taken
    <2>1. PICK c \in eligible :
            Write(s, [EmptyDatabase EXCEPT !.deliveries = {row(c)}])
      BY <1>5 DEF InsertDelivery
    <2>2. Settle(s, Answer("created", q.command))
      BY <1>5 DEF InsertDelivery
    <2>3. c \in CommandRow /\ View(s).registry[c.conn].account \in Account
      BY ViewType, TableTypes DEF EligibleCommand, CommandInScope, BotEligibility, BoundBot
    <2>4. row(c) \in DeliveryRow
      BY <1>2, <2>3, ScopeType DEF DeliveryRow, CommandRow, AuthorizeRequest
    <2>5. draft' \in [Server -> Database]
      BY <2>1, <2>4, WriteTypes, ViewType
    <2>6. Answer("created", q.command) \in AnswerRecord
      BY <1>2 DEF Answer, AnswerRecord, AnswerKind, AuthorizeRequest
    <2>7. QED
      BY <1>1, <1>2, <2>2, <2>5, <2>6, SettledType
  <1>6. QED
    BY <1>4, <1>5

-----------------------------------------------------------------------------
(* The end of transactions, and the next-state relation.                   *)

\* A transaction ends: its server is idle, the others go on.
LEMMA EndType ==
  ASSUME TypeInv, NEW s \in Server, EndTransaction(s), db' \in Database,
         UNCHANGED <<ledgerSeq, commandSeq>>,
         phase' \in [Server -> {"down", "starting", "serving"}],
         config' \in [Server -> Config],
         request' \in [Server -> Request \cup {NoRequest}],
         answer' \in [Server -> AnswerRecord \cup {NoAnswer}],
         phase'[s] # "starting",
         \A t \in Server \ {s} : /\ phase'[t] = phase[t] /\ config'[t] = config[t]
                                 /\ request'[t] = request[t]
  PROVE  TypeInv'
  <1>1. TypeOK'
    <2>1. lockOwner' \in [Lock -> Server \cup {Nobody}]
      BY DEF EndTransaction, TypeInv, TypeOK
    <2>2. /\ pc' \in [Server -> PC] /\ waiting' \in [Server -> Seq(Lock)]
          /\ position' \in [Server -> Nat]
      BY DEF EndTransaction, TypeInv, TypeOK, PC
    <2>3. /\ draft' \in [Server -> Database] /\ bot' \in [Server -> AccountOrNull]
          /\ outcome' \in [Server -> AnswerRecord \cup {NoAnswer}]
      BY EmptyType DEF EndTransaction, TypeInv, TypeOK, AccountOrNull
    <2>4. QED
      BY <2>1, <2>2, <2>3 DEF TypeInv, TypeOK
  <1>2. pc'[s] = "idle"
    BY DEF EndTransaction, TypeInv, TypeOK
  <1>3. Control(s)'
    BY <1>1, <1>2 DEF Control, Open, TypeOK
  <1>4. ASSUME NEW t \in Server, t # s PROVE Control(t)'
    BY <1>4, ControlFrame DEF EndTransaction, TypeInv, TypeOK
  <1>5. QED
    BY <1>1, <1>3, <1>4 DEF TypeInv

\* Committing keeps the type of the database.
LEMMA CommitType ==
  ASSUME TypeInv, NEW s \in Server
  PROVE  Merge(db, draft[s]) \in Database
  BY MergeType DEF TypeInv, TypeOK

\* The caller sees an error.
LEMMA RaiseType ==
  ASSUME TypeInv, NEW s \in Server, Open(s), Raise(s), EndTransaction(s),
         db' \in Database, UNCHANGED <<ledgerSeq, commandSeq>>
  PROVE  TypeInv'
  <1>1. Answer("error", 0) \in AnswerRecord
    BY DEF Answer, AnswerRecord, AnswerKind
  <1>2. /\ answer' \in [Server -> AnswerRecord \cup {NoAnswer}]
        /\ request' = request /\ request \in [Server -> Request \cup {NoRequest}]
    BY <1>1 DEF Raise, TypeInv, TypeOK
  <1>3. /\ phase' \in [Server -> {"down", "starting", "serving"}]
        /\ config' \in [Server -> Config] /\ phase'[s] # "starting"
        /\ \A t \in Server \ {s} : phase'[t] = phase[t] /\ config'[t] = config[t]
    BY ConfigTypes DEF Raise, TypeInv, TypeOK
  <1>4. QED
    BY <1>2, <1>3, EndType

\* Every step preserves the invariant: one step for each action.
LEMMA TypeStep == TypeInv /\ [Next]_vars => TypeInv'
  <1> SUFFICES ASSUME TypeInv, [Next]_vars PROVE TypeInv'
    OBVIOUS
  <1>1. ASSUME NEW s \in Server, Arrival(s) PROVE TypeInv'
    BY <1>1, StartType, ReceiveType DEF Arrival
  <1>2. ASSUME NEW s \in Server, AcquireLock(s) PROVE TypeInv'
    BY <1>2, AcquireType
  <1>3. ASSUME NEW s \in Server, Commit(s) PROVE TypeInv'
    <2>1. outcome[s] \in AnswerRecord
      BY <1>3 DEF Commit, TypeInv, Control
    <2>2. /\ phase' \in [Server -> {"down", "starting", "serving"}]
          /\ phase'[s] # "starting"
          /\ answer' \in [Server -> AnswerRecord \cup {NoAnswer}]
          /\ UNCHANGED <<ledgerSeq, commandSeq, config, request>>
          /\ \A t \in Server \ {s} : phase'[t] = phase[t]
          /\ EndTransaction(s)
      BY <1>3, <2>1 DEF Commit, TypeInv, TypeOK
    <2>3. db' \in Database
      BY <1>3, CommitType DEF Commit
    <2>4. QED
      BY <2>2, <2>3, EndType DEF TypeInv, TypeOK
  <1>4. ASSUME NEW s \in Server, StatementRefused(s) \/ StatementFails(s) PROVE TypeInv'
    <2>1. Open(s) /\ Rollback(s)
      BY <1>4 DEF StatementRefused, StatementFails, Open
    <2>2. QED
      BY <2>1, RaiseType DEF Rollback, TypeInv, TypeOK
  <1>5. ASSUME NEW s \in Server, CommitUnacknowledged(s) PROVE TypeInv'
    BY <1>5, CommitType, RaiseType DEF CommitUnacknowledged, Open
  <1>6. ASSUME NEW s \in Server, Statement(s) PROVE TypeInv'
    BY <1>3, <1>4, <1>6, InsertEventType, RegisterType, FindType, InsertCommandType,
       InsertAuthorizationType, InsertEligibilityType, InsertDeliveryType
    DEF Statement
  <1>7. ASSUME NEW s \in Server, Crash(s) PROVE TypeInv'
    <2>1. /\ phase' \in [Server -> {"down", "starting", "serving"}] /\ phase'[s] = "down"
          /\ config' \in [Server -> Config]
          /\ request' \in [Server -> Request \cup {NoRequest}]
          /\ answer' \in [Server -> AnswerRecord \cup {NoAnswer}]
          /\ UNCHANGED <<ledgerSeq, commandSeq>>
          /\ \A t \in Server \ {s} : /\ phase'[t] = phase[t] /\ config'[t] = config[t]
                                    /\ request'[t] = request[t]
      BY <1>7, ConfigTypes DEF Crash, TypeInv, TypeOK
    <2>2. CASE db' = Merge(db, draft[s]) /\ EndTransaction(s)
      BY <2>1, <2>2, CommitType, EndType
    <2>3. CASE /\ \/ pc[s] # "idle" /\ MoveTo(s, "orphaned")
                  \/ pc[s] = "idle" /\ UNCHANGED pc
               /\ UNCHANGED <<db, lockOwner, waiting, position, draft, bot, outcome>>
      <3>1. /\ pc' \in [Server -> PC] /\ pc'[s] \in {"idle", "orphaned"}
            /\ \A t \in Server \ {s} : pc'[t] = pc[t]
        BY <2>3 DEF MoveTo, TypeInv, TypeOK, PC
      <3>2. TypeOK'
        BY <2>1, <2>3, <3>1 DEF TypeInv, TypeOK
      <3>3. Control(s)'
        BY <2>1, <3>1 DEF Control, Open
      <3>4. ASSUME NEW t \in Server, t # s PROVE Control(t)'
        BY <2>1, <2>3, <3>1, <3>4, ControlFrame DEF TypeInv
      <3>5. QED
        BY <3>2, <3>3, <3>4 DEF TypeInv
    <2>4. QED
      BY <1>7, <2>2, <2>3 DEF Crash
  <1>8. ASSUME NEW s \in Server, BackendEnds(s) PROVE TypeInv'
    <2>1. phase[s] # "starting"
      BY <1>8 DEF BackendEnds, TypeInv, Control, Open
    <2>2. QED
      BY <1>8, <2>1, EndType DEF BackendEnds, process, TypeInv, TypeOK
  <1>9. ASSUME RecordAttempt PROVE TypeInv'
    <2>1. PICK c \in db.commands : db' = [db EXCEPT !.attempts = @ \cup {c.id}]
      BY <1>9 DEF RecordAttempt
    <2>2. db' \in Database
      <3>1. db \in Database
        BY DEF TypeInv, TypeOK
      <3>2. c.id \in Nat
        BY <3>1, TableTypes DEF CommandRow
      <3>3. QED
        BY <2>1, <3>1, <3>2 DEF Database
    <2>3. TypeOK'
      BY <1>9, <2>2 DEF RecordAttempt, process, transaction, TypeInv, TypeOK
    <2>4. ASSUME NEW t \in Server PROVE Control(t)'
      BY <1>9, ControlFrame DEF RecordAttempt, process, transaction, TypeInv
    <2>5. QED
      BY <2>3, <2>4 DEF TypeInv
  <1>10. CASE UNCHANGED vars
    <2>1. TypeOK'
      BY <1>10 DEF vars, TypeInv, TypeOK
    <2>2. ASSUME NEW t \in Server PROVE Control(t)'
      BY <1>10, ControlFrame DEF vars, TypeInv
    <2>3. QED
      BY <2>1, <2>2 DEF TypeInv
  <1>11. QED
    BY <1>1, <1>2, <1>4, <1>5, <1>6, <1>7, <1>8, <1>9, <1>10 DEF Next, Failure

\* Every variable always has its type: no statement writes a row its table
\* does not admit, whatever the requests and configurations are.
THEOREM TypeCorrect == Spec => []TypeOK
  <1>1. TypeInv => TypeOK
    BY DEF TypeInv
  <1>2. QED
    BY <1>1, TypeInit, TypeStep, PTL DEF Spec

-----------------------------------------------------------------------------
(* The inductive invariant.                                                *)

Executing(s) == Open(s) /\ pc[s] # "lock"

\* A transaction that executes holds the lock APPEND; one that waits has
\* taken it or is going to.
HoldsAppend(s) ==
  /\ Executing(s) => lockOwner["APPEND"] = s
  /\ pc[s] = "lock" => \/ lockOwner["APPEND"] = s
                       \/ \E i \in DOMAIN waiting[s] : waiting[s][i] = "APPEND"

\* Events are drafted by serving processes only, for accounts of their
\* configuration, above every stored event.
EventDrafts(s) ==
  \A r \in draft[s].events :
    /\ Executing(s) /\ phase[s] = "serving"
    /\ r.account \in Account /\ r.account = config[s].accounts[r.conn]
    /\ r.id <= ledgerSeq
    /\ \A old \in db.events : old.id < r.id

\* Registrations are drafted by starting processes only, from their
\* configuration, where the committed rows admit them.
RegistryDrafts(s) ==
  \A c \in Conn : draft[s].registry[c] # NoRow =>
    /\ Executing(s) /\ phase[s] = "starting"
    /\ c \in Configured(config[s])
    /\ draft[s].registry[c] = Registration(config[s].accounts[c])
    /\ RegistrationAccepted(db, c, config[s].accounts[c])

\* Commands are drafted above every stored command.
CommandDrafts(s) ==
  \A k \in draft[s].commands :
    /\ Executing(s)
    /\ k.id <= commandSeq
    /\ \A old \in db.commands : old.id < k.id

Drafts(s) == EventDrafts(s) /\ RegistryDrafts(s) /\ CommandDrafts(s)

\* A process commits its registrations when all of them are drafted.
AllRegistered(s) ==
  pc[s] = "commit" /\ phase[s] = "starting" => Unregistered(s) = {}

ServerInv(s) ==
  /\ HoldsAppend(s)
  /\ pc[s] # "orphaned" => Drafts(s)
  /\ AllRegistered(s)

BelowSequences ==
  /\ \A r \in db.events : r.id <= ledgerSeq
  /\ \A k \in db.commands : k.id <= commandSeq

SafetyInv ==
  /\ TypeInv
  /\ \A s \in Server : ServerInv(s)
  /\ BelowSequences
  /\ OneAccountPerConnection
  /\ ServingIsBound

-----------------------------------------------------------------------------
(* Lemmas.                                                                 *)

\* What a merge holds.
LEMMA MergeFields ==
  ASSUME NEW d, NEW w
  PROVE  /\ Merge(d, w).events = d.events \cup w.events
         /\ Merge(d, w).commands = d.commands \cup w.commands
         /\ \A c \in Conn : Merge(d, w).registry[c] =
              IF w.registry[c] # NoRow THEN w.registry[c] ELSE d.registry[c]
  BY DEF Merge

\* Every operation takes the lock APPEND.
LEMMA LocksAppend ==
  \A kind \in {"append", "register", "create", "authorize"} :
    \E i \in DOMAIN LocksOf(kind) : LocksOf(kind)[i] = "APPEND"
  <1> SUFFICES ASSUME NEW kind \in {"append", "register", "create", "authorize"}
               PROVE  \E i \in DOMAIN LocksOf(kind) : LocksOf(kind)[i] = "APPEND"
    OBVIOUS
  <1>1. CASE kind = "append"
    <2>1. 1 \in DOMAIN LocksOf(kind) /\ LocksOf(kind)[1] = "APPEND"
      BY <1>1 DEF LocksOf
    <2>2. QED
      BY <2>1
  <1>2. CASE kind = "register"
    <2>1. 2 \in DOMAIN LocksOf(kind) /\ LocksOf(kind)[2] = "APPEND"
      BY <1>2 DEF LocksOf
    <2>2. QED
      BY <2>1
  <1>3. CASE kind = "create"
    <2>1. 1 \in DOMAIN LocksOf(kind) /\ LocksOf(kind)[1] = "APPEND"
      BY <1>3 DEF LocksOf
    <2>2. QED
      BY <2>1
  <1>4. CASE kind = "authorize"
    <2>1. 1 \in DOMAIN LocksOf(kind) /\ LocksOf(kind)[1] = "APPEND"
      BY <1>4 DEF LocksOf
    <2>2. QED
      BY <2>1
  <1>5. QED
    BY <1>1, <1>2, <1>3, <1>4

\* While one transaction executes, no other has drafts that could commit.
LEMMA Alone ==
  ASSUME SafetyInv, NEW s \in Server, Executing(s),
         NEW t \in Server, t # s
  PROVE  /\ ~Executing(t)
         /\ pc[t] # "orphaned" => /\ draft[t].events = {} /\ draft[t].commands = {}
                                  /\ \A c \in Conn : draft[t].registry[c] = NoRow
  <1>1. ~Executing(t)
    BY DEF SafetyInv, ServerInv, HoldsAppend
  <1>2. QED
    BY <1>1 DEF SafetyInv, ServerInv, Drafts, EventDrafts, RegistryDrafts, CommandDrafts

\* A server that a step leaves alone keeps its part of the invariant if the
\* step leaves the committed rows alone, or if it has no drafts.
LEMMA ServerFrame ==
  ASSUME NEW t \in Server, ServerInv(t),
         phase'[t] = phase[t], config'[t] = config[t], pc'[t] = pc[t],
         waiting'[t] = waiting[t], draft'[t] = draft[t],
         lockOwner["APPEND"] = t => lockOwner'["APPEND"] = t,
         ledgerSeq \in Int, ledgerSeq' \in Int, ledgerSeq <= ledgerSeq',
         commandSeq \in Int, commandSeq' \in Int, commandSeq <= commandSeq',
         \A r \in draft[t].events : r.id \in Int,
         \A k \in draft[t].commands : k.id \in Int,
         \/ /\ db'.events = db.events /\ db'.registry = db.registry
            /\ db'.commands = db.commands
         \/ pc[t] # "orphaned" => /\ draft[t].events = {} /\ draft[t].commands = {}
                                  /\ \A c \in Conn : draft[t].registry[c] = NoRow
  PROVE  ServerInv(t)'
  <1>1. HoldsAppend(t)'
    BY DEF ServerInv, HoldsAppend, Executing, Open
  <1>2. AllRegistered(t)'
    BY DEF ServerInv, AllRegistered, Unregistered, Configured
  <1>3. ASSUME pc[t] # "orphaned" PROVE Drafts(t)'
    <2>1. Drafts(t) /\ (Executing(t) => Executing(t)')
      BY <1>3 DEF ServerInv, Executing, Open
    <2>2. CASE /\ db'.events = db.events /\ db'.registry = db.registry
               /\ db'.commands = db.commands
      <3>1. EventDrafts(t)'
        BY <2>1, <2>2 DEF Drafts, EventDrafts
      <3>2. RegistryDrafts(t)'
        BY <2>1, <2>2
        DEF Drafts, RegistryDrafts, Configured, RegistrationAccepted, HasHistory
      <3>3. CommandDrafts(t)'
        BY <2>1, <2>2 DEF Drafts, CommandDrafts
      <3>4. QED
        BY <3>1, <3>2, <3>3 DEF Drafts
    <2>3. CASE /\ draft[t].events = {} /\ draft[t].commands = {}
               /\ \A c \in Conn : draft[t].registry[c] = NoRow
      BY <2>3 DEF Drafts, EventDrafts, RegistryDrafts, CommandDrafts
    <2>4. QED
      BY <1>3, <2>2, <2>3
  <1>4. QED
    BY <1>1, <1>2, <1>3 DEF ServerInv

\* The types the frame needs.
LEMMA Numbers ==
  ASSUME TypeInv
  PROVE  /\ ledgerSeq \in Int /\ commandSeq \in Int
         /\ \A t \in Server : /\ \A r \in draft[t].events : r.id \in Int
                              /\ \A k \in draft[t].commands : k.id \in Int
         /\ \A r \in db.events : r.id \in Int
         /\ \A k \in db.commands : k.id \in Int
  <1>1. ledgerSeq \in Int /\ commandSeq \in Int
    BY LedgerAssumption DEF TypeInv, TypeOK
  <1>2. \A d \in Database : /\ \A r \in d.events : r.id \in Int
                            /\ \A k \in d.commands : k.id \in Int
    BY TableTypes DEF EventRow, CommandRow
  <1>3. QED
    BY <1>1, <1>2 DEF TypeInv, TypeOK

\* An idle server without drafts satisfies its part of the invariant.
LEMMA IdleServer ==
  ASSUME NEW s \in Server, pc[s] = "idle", draft[s] = EmptyDatabase
  PROVE  ServerInv(s)
  BY DEF ServerInv, HoldsAppend, Executing, Open, Drafts, EventDrafts, RegistryDrafts,
         CommandDrafts, AllRegistered, EmptyDatabase

\* The invariant holds initially.
LEMMA SafetyInit == Init => SafetyInv
  <1> SUFFICES ASSUME Init PROVE SafetyInv
    OBVIOUS
  <1>1. TypeInv
    BY TypeInit
  <1>2. \A s \in Server : ServerInv(s)
    BY IdleServer DEF Init
  <1>3. BelowSequences
    BY DEF Init, BelowSequences
  <1>4. OneAccountPerConnection
    BY LedgerAssumption DEF Init, LegacyAssumption, OneAccountPerConnection
  <1>5. ServingIsBound
    BY DEF Init, ServingIsBound
  <1>6. QED
    BY <1>1, <1>2, <1>3, <1>4, <1>5 DEF SafetyInv

-----------------------------------------------------------------------------
(* Steps that do not end a transaction.                                    *)

\* A step that leaves the committed rows alone, and starts to serve nowhere,
\* keeps what relates committed rows to processes.
LEMMA QuietStep ==
  ASSUME SafetyInv, TypeInv', UNCHANGED db,
         \A s \in Server : phase'[s] = "serving" =>
           phase[s] = "serving" /\ config'[s] = config[s],
         ledgerSeq <= ledgerSeq', commandSeq <= commandSeq',
         \A s \in Server : ServerInv(s)'
  PROVE  SafetyInv'
  <1>1. BelowSequences'
    <2>1. /\ ledgerSeq \in Int /\ commandSeq \in Int
          /\ \A r \in db.events : r.id \in Int
          /\ \A k \in db.commands : k.id \in Int
      BY Numbers DEF SafetyInv
    <2>2. ledgerSeq' \in Int /\ commandSeq' \in Int
      BY LedgerAssumption DEF TypeInv, TypeOK
    <2>3. QED
      BY <2>1, <2>2 DEF SafetyInv, BelowSequences
  <1>2. OneAccountPerConnection'
    BY DEF SafetyInv, OneAccountPerConnection
  <1>3. ServingIsBound'
    BY DEF SafetyInv, ServingIsBound, Configured, Registration
  <1>4. QED
    BY <1>1, <1>2, <1>3 DEF SafetyInv

\* A transaction begins.
LEMMA BeginSafe ==
  ASSUME SafetyInv, TypeInv', NEW s \in Server, NEW q \in Request,
         pc[s] = "idle", BeginTransaction(s, q), UNCHANGED storage,
         phase'[s] \in {"starting", "serving"},
         phase'[s] = "serving" => phase[s] = "serving" /\ config'[s] = config[s],
         \A t \in Server \ {s} : phase'[t] = phase[t] /\ config'[t] = config[t]
  PROVE  SafetyInv'
  <1>1. /\ pc'[s] = "lock" /\ waiting'[s] = LocksOf(q.kind) /\ draft' = draft
        /\ \A t \in Server \ {s} : pc'[t] = pc[t] /\ waiting'[t] = waiting[t]
        /\ UNCHANGED <<db, lockOwner, ledgerSeq, commandSeq>>
    BY DEF BeginTransaction, storage, SafetyInv, TypeInv, TypeOK
  <1>2. ServerInv(s)'
    <2>1. Drafts(s) /\ ~Executing(s)
      BY DEF SafetyInv, ServerInv, Executing, Open
    <2>2. Drafts(s)'
      BY <1>1, <2>1 DEF Drafts, EventDrafts, RegistryDrafts, CommandDrafts
    <2>3. HoldsAppend(s)'
      BY <1>1, LocksAppend, RequestTypes DEF HoldsAppend, Executing
    <2>4. QED
      BY <1>1, <2>2, <2>3 DEF ServerInv, AllRegistered
  <1>3. ASSUME NEW t \in Server, t # s PROVE ServerInv(t)'
    BY <1>1, <1>3, Numbers, ServerFrame DEF SafetyInv
  <1>4. QED
    <2>1. ledgerSeq <= ledgerSeq' /\ commandSeq <= commandSeq'
      BY <1>1, Numbers DEF SafetyInv
    <2>2. QED
      BY <1>1, <1>2, <1>3, <2>1, QuietStep

\* A lock is granted.
LEMMA AcquireSafe ==
  ASSUME SafetyInv, TypeInv', NEW s \in Server, AcquireLock(s)
  PROVE  SafetyInv'
  <1> DEFINE l == Head(waiting[s])
  <1>1. /\ waiting[s] \in Seq(Lock) /\ waiting[s] # <<>> /\ request[s] \in Request
        /\ lockOwner[l] = Nobody /\ l \in Lock
        /\ UNCHANGED <<db, ledgerSeq, commandSeq, draft, phase, config>>
        /\ \A t \in Server \ {s} : pc'[t] = pc[t] /\ waiting'[t] = waiting[t]
    <2>1. /\ waiting[s] \in Seq(Lock) /\ waiting[s] # <<>> /\ request[s] \in Request
      BY RequestTypes DEF AcquireLock, SafetyInv, TypeInv, TypeOK, Control, Open
    <2>2. l \in Lock
      BY <2>1, HeadTailProperties
    <2>3. QED
      BY <2>1, <2>2 DEF AcquireLock, process, SafetyInv, TypeInv, TypeOK
  <1>2. /\ lockOwner'[l] = s
        /\ \A k \in Lock \ {l} : lockOwner'[k] = lockOwner[k]
        /\ "APPEND" \in Lock
    BY <1>1 DEF AcquireLock, SafetyInv, TypeInv, TypeOK, Lock
  <1>3. ServerInv(s)'
    <2>1. Drafts(s) /\ ~Executing(s)
      BY DEF AcquireLock, SafetyInv, ServerInv, Executing, Open
    <2>2. Drafts(s)'
      BY <1>1, <2>1 DEF Drafts, EventDrafts, RegistryDrafts, CommandDrafts
    <2>3. \/ lockOwner'["APPEND"] = s
          \/ \E i \in DOMAIN waiting[s] : waiting[s][i] = "APPEND" /\ i # 1
      <3>1. \/ lockOwner["APPEND"] = s
            \/ \E i \in DOMAIN waiting[s] : waiting[s][i] = "APPEND"
        BY DEF AcquireLock, SafetyInv, ServerInv, HoldsAppend
      <3>2. l = waiting[s][1]
        BY <1>1
      <3>3. QED
        BY <1>2, <3>1, <3>2
    <2>4. CASE Len(waiting[s]) = 1
      <3>1. lockOwner'["APPEND"] = s
        BY <1>1, <2>3, <2>4
      <3>2. pc'[s] = FirstStatement(request[s].kind)
        BY <2>4 DEF AcquireLock, SafetyInv, TypeInv, TypeOK
      <3>3. pc'[s] \notin {"lock", "commit"}
        BY <1>1, <3>2, RequestTypes DEF FirstStatement
      <3>4. QED
        BY <2>2, <3>1, <3>3 DEF ServerInv, HoldsAppend, AllRegistered
    <2>5. CASE Len(waiting[s]) # 1
      <3>1. pc'[s] = "lock" /\ waiting'[s] = Tail(waiting[s])
        BY <2>5 DEF AcquireLock, SafetyInv, TypeInv, TypeOK
      <3>2. ASSUME NEW i \in DOMAIN waiting[s], waiting[s][i] = "APPEND", i # 1
            PROVE  \E j \in DOMAIN Tail(waiting[s]) : Tail(waiting[s])[j] = "APPEND"
        <4>1. /\ Tail(waiting[s]) \in Seq(Lock)
              /\ Len(Tail(waiting[s])) = Len(waiting[s]) - 1
              /\ \A j \in 1..Len(Tail(waiting[s])) : Tail(waiting[s])[j] = waiting[s][j + 1]
          BY <1>1, HeadTailProperties
        <4>2. /\ DOMAIN waiting[s] = 1..Len(waiting[s]) /\ Len(waiting[s]) \in Nat
              /\ DOMAIN Tail(waiting[s]) = 1..Len(Tail(waiting[s]))
          BY <1>1, <4>1, LenProperties
        <4>3. i - 1 \in 1..Len(Tail(waiting[s])) /\ (i - 1) + 1 = i
          BY <3>2, <4>1, <4>2
        <4>4. QED
          BY <3>2, <4>1, <4>2, <4>3
      <3>3. HoldsAppend(s)'
        BY <2>3, <3>1, <3>2 DEF HoldsAppend, Executing
      <3>4. QED
        BY <2>2, <3>1, <3>3 DEF ServerInv, AllRegistered
    <2>6. QED
      BY <2>4, <2>5
  <1>4. ASSUME NEW t \in Server, t # s PROVE ServerInv(t)'
    <2>1. lockOwner["APPEND"] = t => lockOwner'["APPEND"] = t
      BY <1>1, <1>2, LedgerAssumption
    <2>2. QED
      BY <1>1, <1>4, <2>1, Numbers, ServerFrame DEF SafetyInv
  <1>5. QED
    <2>1. ledgerSeq <= ledgerSeq' /\ commandSeq <= commandSeq'
      BY <1>1, Numbers DEF SafetyInv
    <2>2. QED
      BY <1>1, <1>3, <1>4, <2>1, QuietStep

-----------------------------------------------------------------------------
(* Statements.                                                             *)

\* What a statement has to establish.
LEMMA StatementSafe ==
  ASSUME SafetyInv, TypeInv', NEW s \in Server, Executing(s), UnchangedButStatement,
         ledgerSeq <= ledgerSeq', commandSeq <= commandSeq',
         \A t \in Server \ {s} : pc'[t] = pc[t] /\ draft'[t] = draft[t],
         pc'[s] \notin {"idle", "orphaned", "lock"},
         Drafts(s)', AllRegistered(s)'
  PROVE  SafetyInv'
  <1>1. UNCHANGED <<db, lockOwner, phase, config, waiting>>
    BY DEF UnchangedButStatement
  <1>2. ServerInv(s)'
    <2>1. lockOwner'["APPEND"] = s
      BY <1>1 DEF SafetyInv, ServerInv, HoldsAppend
    <2>2. QED
      BY <2>1 DEF ServerInv, HoldsAppend
  <1>3. ledgerSeq' \in Int /\ commandSeq' \in Int
    BY LedgerAssumption DEF TypeInv, TypeOK
  <1>4. ASSUME NEW t \in Server, t # s PROVE ServerInv(t)'
    BY <1>1, <1>3, <1>4, Numbers, ServerFrame DEF SafetyInv
  <1>5. QED
    BY <1>1, <1>2, <1>4, QuietStep

\* Drafts of events, commands and registrations that do not change stay valid.
LEMMA KeptDrafts ==
  ASSUME SafetyInv, TypeInv', NEW s \in Server, Executing(s), UnchangedButStatement,
         ledgerSeq <= ledgerSeq', commandSeq <= commandSeq',
         pc'[s] \notin {"idle", "orphaned", "lock"}
  PROVE  /\ draft'[s].events = draft[s].events => EventDrafts(s)'
         /\ draft'[s].commands = draft[s].commands => CommandDrafts(s)'
         /\ (\A c \in Conn : draft'[s].registry[c] = draft[s].registry[c])
              => RegistryDrafts(s)'
  <1>1. UNCHANGED <<db, phase, config>> /\ Executing(s)'
    BY DEF UnchangedButStatement, Executing, Open
  <1>2. Drafts(s)
    BY DEF SafetyInv, ServerInv, Executing, Open
  <1>3. /\ ledgerSeq \in Int /\ commandSeq \in Int
        /\ ledgerSeq' \in Int /\ commandSeq' \in Int
        /\ \A r \in draft[s].events : r.id \in Int
        /\ \A k \in draft[s].commands : k.id \in Int
    BY Numbers, LedgerAssumption DEF SafetyInv, TypeInv, TypeOK
  <1>4. draft'[s].events = draft[s].events => EventDrafts(s)'
    BY <1>1, <1>2, <1>3 DEF Drafts, EventDrafts
  <1>5. draft'[s].commands = draft[s].commands => CommandDrafts(s)'
    BY <1>1, <1>2, <1>3 DEF Drafts, CommandDrafts
  <1>6. (\A c \in Conn : draft'[s].registry[c] = draft[s].registry[c])
          => RegistryDrafts(s)'
    BY <1>1, <1>2
    DEF Drafts, RegistryDrafts, Configured, RegistrationAccepted, HasHistory
  <1>7. QED
    BY <1>4, <1>5, <1>6

\* What a write adds to a draft.
LEMMA WriteFields ==
  ASSUME TypeInv, NEW s \in Server, NEW rows, Write(s, rows)
  PROVE  /\ draft'[s].events = draft[s].events \cup rows.events
         /\ draft'[s].commands = draft[s].commands \cup rows.commands
         /\ \A c \in Conn : draft'[s].registry[c] =
              IF rows.registry[c] # NoRow THEN rows.registry[c] ELSE draft[s].registry[c]
         /\ \A t \in Server \ {s} : draft'[t] = draft[t]
  <1>1. draft'[s] = Merge(draft[s], rows) /\ \A t \in Server \ {s} : draft'[t] = draft[t]
    BY DEF Write, TypeInv, TypeOK
  <1>2. QED
    BY <1>1, MergeFields

\* A serving process has nothing to register.
LEMMA ServingRequest ==
  ASSUME TypeInv, NEW s \in Server, Executing(s), request[s].kind # "register"
  PROVE  phase[s] = "serving"
  BY DEF TypeInv, TypeOK, Control, Executing, Open

\* Where a statement moves to.
LEMMA MovedTo ==
  ASSUME TypeInv, NEW s \in Server, NEW next, MoveTo(s, next)
  PROVE  pc'[s] = next /\ \A t \in Server \ {s} : pc'[t] = pc[t]
  BY DEF MoveTo, TypeInv, TypeOK

\* An event is inserted.
LEMMA InsertEventSafe ==
  ASSUME SafetyInv, TypeInv', NEW s \in Server, InsertEvent(s)
  PROVE  SafetyInv'
  <1> DEFINE e == request[s].batch[position[s]]
             a == config[s].accounts[e.conn]
             row == [id |-> ledgerSeq + 1, conn |-> e.conn, event |-> e.event,
                     channel |-> ChannelOf[a], chat |-> e.chat, account |-> a]
             rows == [EmptyDatabase EXCEPT !.events = {row}]
  <1> USE DEF SafetyInv
  <1>1. /\ Executing(s) /\ UnchangedButStatement /\ ledgerSeq' = ledgerSeq + 1
        /\ commandSeq' = commandSeq /\ pc[s] = "insert_event"
        /\ UNCHANGED <<db, phase, config>>
    BY DEF InsertEvent, Executing, Open, UnchangedButStatement
  <1>2. request[s].kind = "append" /\ phase[s] = "serving"
    BY <1>1, StatementRequest, ServingRequest DEF Executing
  <1>3. pc'[s] \in {"insert_event", "commit"} /\ \A t \in Server \ {s} : pc'[t] = pc[t]
    <2>1. MoveTo(s, "commit") \/ pc' = pc
      BY DEF InsertEvent, Settle
    <2>2. QED
      BY <1>1, <2>1, MovedTo
  <1>4. ledgerSeq \in Int /\ commandSeq \in Int /\ ledgerSeq <= ledgerSeq'
        /\ commandSeq <= commandSeq'
    BY <1>1, Numbers
  <1>5. \/ draft' = draft
        \/ Write(s, rows)
    BY DEF InsertEvent
  <1>6. CASE draft' = draft
    <2>1. Drafts(s)'
      BY <1>1, <1>3, <1>4, <1>6, KeptDrafts DEF Drafts
    <2>2. AllRegistered(s)'
      BY <1>1, <1>2 DEF AllRegistered
    <2>3. QED
      BY <1>1, <1>3, <1>4, <1>6, <2>1, <2>2, StatementSafe
  <1>7. CASE Write(s, rows)
    <2>1. rows.events = {row} /\ rows.commands = {} /\ \A c \in Conn : rows.registry[c] = NoRow
      BY DEF EmptyDatabase
    <2>2. /\ draft'[s].events = draft[s].events \cup {row}
          /\ draft'[s].commands = draft[s].commands
          /\ \A c \in Conn : draft'[s].registry[c] = draft[s].registry[c]
          /\ \A t \in Server \ {s} : draft'[t] = draft[t]
      <3>1. /\ draft'[s].events = draft[s].events \cup rows.events
            /\ draft'[s].commands = draft[s].commands \cup rows.commands
            /\ \A c \in Conn : draft'[s].registry[c] =
                 IF rows.registry[c] # NoRow THEN rows.registry[c] ELSE draft[s].registry[c]
            /\ \A t \in Server \ {s} : draft'[t] = draft[t]
        BY <1>7, WriteFields
      <3>2. QED
        BY <2>1, <3>1
    <2>3. CommandDrafts(s)' /\ RegistryDrafts(s)'
      BY <1>1, <1>3, <1>4, <2>2, KeptDrafts
    <2>4. EventDrafts(s)'
      <3>1. Drafts(s) /\ Executing(s)'
        BY <1>1, <1>3 DEF ServerInv, Executing, Open
      <3>2. /\ \A r \in draft[s].events : r.id \in Int
            /\ \A r \in db.events : r.id \in Int /\ r.id <= ledgerSeq
        BY Numbers DEF BelowSequences
      <3>3. a \in Account
        <4>1. e \in BatchEvent /\ a # NoAccount
          <5>1. /\ DeliverableBatch(s, request[s].batch)
                /\ position[s] \in DOMAIN request[s].batch
                /\ request[s].batch \in Seq(BatchEvent)
            BY <1>1, <1>2, RequestTypes, StatementRequest
              DEF Executing, Open, TypeInv, Control
          <5>2. QED
            BY <5>1, ElementOfSeq DEF DeliverableBatch
        <4>2. a \in AccountOrNull
          BY <4>1, ConfigTypes DEF BatchEvent, TypeInv, TypeOK
        <4>3. QED
          BY <4>1, <4>2 DEF AccountOrNull
      <3>4. ASSUME NEW r \in draft'[s].events
            PROVE  /\ r.account \in Account /\ r.account = config[s].accounts[r.conn]
                   /\ r.id <= ledgerSeq' /\ \A old \in db.events : old.id < r.id
        <4>1. CASE r = row
          <5>1. /\ r.account = a /\ r.conn = e.conn /\ r.id = ledgerSeq + 1
                /\ config[s].accounts[e.conn] = a
            BY <4>1
          <5> HIDE DEF a, e, row
          <5>2. QED
            BY <1>1, <1>4, <3>2, <3>3, <5>1
        <4>2. CASE r \in draft[s].events
          BY <1>1, <1>4, <3>1, <3>2, <4>2 DEF Drafts, EventDrafts
        <4>3. QED
          BY <2>2, <4>1, <4>2
      <3>5. QED
        BY <1>1, <1>2, <3>1, <3>4 DEF EventDrafts
    <2>5. AllRegistered(s)'
      BY <1>1, <1>2 DEF AllRegistered
    <2>6. QED
      BY <1>1, <1>3, <1>4, <2>2, <2>3, <2>4, <2>5, StatementSafe DEF Drafts
  <1>8. QED
    BY <1>5, <1>6, <1>7

\* A connection is registered.
LEMMA RegisterSafe ==
  ASSUME SafetyInv, TypeInv', NEW s \in Server, NEW c \in Conn, RegisterConnection(s, c)
  PROVE  SafetyInv'
  <1> DEFINE a == config[s].accounts[c]
             rows == [EmptyDatabase EXCEPT !.registry[c] = Registration(a)]
  <1>1. TypeInv
    BY DEF SafetyInv
  <1>2. /\ Executing(s) /\ UnchangedButStatement /\ pc[s] = "register"
        /\ ledgerSeq' = ledgerSeq /\ commandSeq' = commandSeq
        /\ UNCHANGED <<db, phase, config>>
        /\ c \in Unregistered(s) /\ RegistrationAccepted(View(s), c, a) /\ Write(s, rows)
    BY DEF RegisterConnection, Executing, Open, UnchangedButStatement
  <1>3. ledgerSeq <= ledgerSeq' /\ commandSeq <= commandSeq'
    BY <1>1, <1>2, Numbers
  <1>4. Drafts(s)
    BY <1>2 DEF SafetyInv, ServerInv
  <1>5. phase[s] = "starting"
    <2>1. request[s].kind = "register"
      BY <1>1, <1>2, StatementRequest DEF Executing
    <2>2. \A q \in Requests : q.kind # "register"
      BY RequestTypes
    <2>3. QED
      BY <1>1, <1>2, <2>1, <2>2, StatementRequest DEF Executing
  <1>6. pc'[s] \in {"register", "commit"} /\ \A t \in Server \ {s} : pc'[t] = pc[t]
    <2>1. MoveTo(s, "commit") \/ pc' = pc
      BY DEF RegisterConnection, Settle
    <2>2. QED
      BY <1>1, <1>2, <2>1, MovedTo
  <1>7. /\ draft'[s].events = draft[s].events /\ draft'[s].commands = draft[s].commands
        /\ \A d \in Conn : draft'[s].registry[d] =
             IF d = c THEN Registration(a) ELSE draft[s].registry[d]
        /\ \A t \in Server \ {s} : draft'[t] = draft[t]
    <2>1. /\ rows.events = {} /\ rows.commands = {}
          /\ \A d \in Conn : rows.registry[d] = IF d = c THEN Registration(a) ELSE NoRow
      BY DEF EmptyDatabase
    <2>2. /\ draft'[s].events = draft[s].events \cup rows.events
          /\ draft'[s].commands = draft[s].commands \cup rows.commands
          /\ \A d \in Conn : draft'[s].registry[d] =
               IF rows.registry[d] # NoRow THEN rows.registry[d] ELSE draft[s].registry[d]
          /\ \A t \in Server \ {s} : draft'[t] = draft[t]
      BY <1>1, <1>2, WriteFields
    <2>3. draft[s].registry[c] = NoRow
      BY <1>2 DEF Unregistered
    <2>4. QED
      BY <2>1, <2>2, <2>3
  <1>8. RegistrationAccepted(db, c, a)
    <2>1. View(s).registry[c] = db.registry[c]
      BY <1>2, MergeFields DEF View, Unregistered
    <2>2. draft[s].events = {}
      BY <1>4, <1>5 DEF Drafts, EventDrafts
    <2>3. View(s).events = db.events
      <3>1. View(s).events = db.events \cup draft[s].events
        BY MergeFields DEF View
      <3>2. QED
        BY <2>2, <3>1
    <2>4. QED
      BY <1>2, <2>1, <2>3 DEF RegistrationAccepted, HasHistory
  <1>9. EventDrafts(s)' /\ CommandDrafts(s)'
    BY <1>2, <1>3, <1>6, <1>7, KeptDrafts
  <1>10. RegistryDrafts(s)'
    <2>1. Executing(s)' /\ Configured(config[s])' = Configured(config[s])
      BY <1>2, <1>6 DEF Executing, Open, Configured
    <2>2. c \in Configured(config[s])
      BY <1>2 DEF Unregistered
    <2>3. ASSUME NEW d \in Conn, draft'[s].registry[d] # NoRow
          PROVE  /\ d \in Configured(config[s])
                 /\ draft'[s].registry[d] = Registration(config[s].accounts[d])
                 /\ RegistrationAccepted(db, d, config[s].accounts[d])
      BY <1>4, <1>7, <1>8, <2>2, <2>3 DEF Drafts, RegistryDrafts
    <2>4. QED
      BY <1>2, <1>5, <2>1, <2>3
      DEF RegistryDrafts, RegistrationAccepted, HasHistory
  <1>11. AllRegistered(s)'
    <2>1. pc'[s] = "commit" => Unregistered(s) = {c}
      <3>1. Unregistered(s) # {c} => pc' = pc
        BY DEF RegisterConnection
      <3>2. QED
        BY <1>2, <3>1
    <2>2. ASSUME Unregistered(s) = {c} PROVE Unregistered(s)' = {}
      <3>1. Registration(a) # NoRow
        <4>1. a \in Account
          BY <1>1, <1>2, ConfigTypes
          DEF Unregistered, Configured, AccountOrNull, TypeInv, TypeOK
        <4>2. QED
          BY <4>1, TablesAssumption DEF Registration
      <3>2. Configured(config[s])' = Configured(config[s])
        BY <1>2 DEF Configured
      <3>3. QED
        BY <1>7, <2>2, <3>1, <3>2 DEF Unregistered, Configured
    <2>3. QED
      BY <2>1, <2>2 DEF AllRegistered
  <1>12. QED
    BY <1>2, <1>3, <1>6, <1>7, <1>9, <1>10, <1>11, StatementSafe DEF Drafts

\* Statements of commands and authorizations draft no event and no
\* registration, and none but one drafts a command.
LEMMA EvidenceSafe ==
  ASSUME SafetyInv, TypeInv', NEW s \in Server, Executing(s), UnchangedButStatement,
         request[s].kind \in {"create", "authorize"},
         ledgerSeq' = ledgerSeq, commandSeq <= commandSeq',
         NEW next, MoveTo(s, next), next \notin {"idle", "orphaned", "lock"},
         NEW rows, draft' = draft \/ Write(s, rows),
         rows.events = {}, \A c \in Conn : rows.registry[c] = NoRow,
         rows.commands = {} \/ \E k \in CommandRow :
           rows.commands = {k} /\ k.id = commandSeq + 1 /\ commandSeq' = commandSeq + 1
  PROVE  SafetyInv'
  <1>1. TypeInv /\ UNCHANGED <<db, phase, config>> /\ ledgerSeq <= ledgerSeq'
    BY Numbers DEF SafetyInv, UnchangedButStatement
  <1>2. pc'[s] = next /\ \A t \in Server \ {s} : pc'[t] = pc[t]
    BY <1>1, MovedTo
  <1>3. AllRegistered(s)'
    BY <1>1, ServingRequest DEF AllRegistered
  <1>4. CASE draft' = draft
    <2>1. Drafts(s)'
      BY <1>1, <1>2, <1>4, KeptDrafts DEF Drafts
    <2>2. QED
      BY <1>1, <1>2, <1>3, <1>4, <2>1, StatementSafe
  <1>5. CASE Write(s, rows)
    <2>1. /\ draft'[s].events = draft[s].events
          /\ draft'[s].commands = draft[s].commands \cup rows.commands
          /\ \A c \in Conn : draft'[s].registry[c] = draft[s].registry[c]
          /\ \A t \in Server \ {s} : draft'[t] = draft[t]
      <3>1. /\ draft'[s].events = draft[s].events \cup rows.events
            /\ draft'[s].commands = draft[s].commands \cup rows.commands
            /\ \A c \in Conn : draft'[s].registry[c] =
                 IF rows.registry[c] # NoRow THEN rows.registry[c] ELSE draft[s].registry[c]
            /\ \A t \in Server \ {s} : draft'[t] = draft[t]
        BY <1>1, <1>5, WriteFields
      <3>2. QED
        BY <3>1
    <2>2. EventDrafts(s)' /\ RegistryDrafts(s)'
      BY <1>1, <1>2, <2>1, KeptDrafts
    <2>3. CommandDrafts(s)'
      <3>1. CASE rows.commands = {}
        <4>1. draft'[s].commands = draft[s].commands
          BY <2>1, <3>1
        <4>2. QED
          BY <1>1, <1>2, <4>1, KeptDrafts
      <3>2. CASE \E k \in CommandRow :
              rows.commands = {k} /\ k.id = commandSeq + 1 /\ commandSeq' = commandSeq + 1
        <4>1. PICK k : /\ draft'[s].commands = draft[s].commands \cup {k}
                       /\ k.id = commandSeq + 1 /\ commandSeq' = commandSeq + 1
          BY <2>1, <3>2
        <4>2. /\ commandSeq \in Int
              /\ \A j \in draft[s].commands : j.id \in Int
              /\ \A j \in db.commands : j.id \in Int /\ j.id <= commandSeq
          BY <1>1, Numbers DEF SafetyInv, BelowSequences
        <4>3. CommandDrafts(s) /\ Executing(s)'
          BY <1>2 DEF SafetyInv, ServerInv, Drafts, Executing, Open
        <4>4. QED
          BY <1>1, <4>1, <4>2, <4>3 DEF CommandDrafts
      <3>3. QED
        BY <3>1, <3>2
    <2>4. QED
      BY <1>1, <1>2, <1>3, <2>1, <2>2, <2>3, StatementSafe DEF Drafts
  <1>6. QED
    BY <1>4, <1>5

\* Rows without events and registrations.
LEMMA EvidenceRows ==
  /\ EmptyDatabase.events = {} /\ EmptyDatabase.commands = {}
  /\ \A c \in Conn : EmptyDatabase.registry[c] = NoRow
  /\ \A x : LET w == [EmptyDatabase EXCEPT !.commands = x]
           IN  w.events = {} /\ w.commands = x /\ \A c \in Conn : w.registry[c] = NoRow
  /\ \A x : LET w == [EmptyDatabase EXCEPT !.authorizations = x]
           IN  w.events = {} /\ w.commands = {} /\ \A c \in Conn : w.registry[c] = NoRow
  /\ \A x : LET w == [EmptyDatabase EXCEPT !.eligibility = x]
           IN  w.events = {} /\ w.commands = {} /\ \A c \in Conn : w.registry[c] = NoRow
  /\ \A x : LET w == [EmptyDatabase EXCEPT !.deliveries = x]
           IN  w.events = {} /\ w.commands = {} /\ \A c \in Conn : w.registry[c] = NoRow
  BY DEF EmptyDatabase

\* The statements of the other two stores.
LEMMA EvidenceStatements ==
  ASSUME SafetyInv, TypeInv', NEW s \in Server,
         \/ FindCommand(s) \/ FindCommandAgain(s)
         \/ FindDelivery(s) \/ FindDeliveryAgain(s)
         \/ InsertCommand(s) \/ InsertAuthorization(s) \/ InsertEligibility(s)
         \/ InsertDelivery(s)
  PROVE  SafetyInv'
  <1>1. TypeInv /\ ledgerSeq \in Int /\ commandSeq \in Int
    BY Numbers DEF SafetyInv
  <1>2. /\ Executing(s) /\ UnchangedButStatement /\ ledgerSeq' = ledgerSeq
        /\ pc[s] \in {"find_command", "insert_command", "insert_authorization",
                      "insert_eligibility", "find_command_again", "find_delivery",
                      "insert_delivery", "find_delivery_again"}
    BY DEF FindCommand, FindCommandAgain, FindDelivery, FindDeliveryAgain, InsertCommand,
           InsertAuthorization, InsertEligibility, InsertDelivery, Executing, Open
  <1>3. request[s].kind \in {"create", "authorize"}
    BY <1>1, <1>2, StatementRequest DEF Executing
  <1>4. CASE FindCommand(s) \/ FindCommandAgain(s) \/ FindDelivery(s) \/ FindDeliveryAgain(s)
    <2>1. /\ draft' = draft /\ commandSeq' = commandSeq
          /\ \/ MoveTo(s, "insert_command") \/ MoveTo(s, "insert_delivery")
             \/ MoveTo(s, "commit")
      BY <1>4 DEF FindCommand, FindCommandAgain, FindDelivery, FindDeliveryAgain, Settle
    <2>2. PICK next \in {"insert_command", "insert_delivery", "commit"} : MoveTo(s, next)
      BY <2>1
    <2>3. commandSeq <= commandSeq' /\ next \notin {"idle", "orphaned", "lock"}
      BY <1>1, <2>1, <2>2
    <2>4. QED
      BY <1>2, <1>3, <2>1, <2>2, <2>3, EvidenceRows, EvidenceSafe
  <1>5. CASE InsertCommand(s)
    <2> DEFINE q == request[s]
               sources == EligibleSource(View(s), q, ScopeOf(s))
               row(r) == [id |-> commandSeq + 1, conn |-> r.conn, event |-> r.event,
                          op |-> q.op, text |-> q.text, channel |-> r.channel]
    <2>1. q \in CreateRequest
      BY <1>1, <1>2, <1>5, StatementRequest DEF InsertCommand, Executing
    <2>2. CASE ~(sources # {} /\ CommandsFor(View(s), q) = {})
      <3>1. MoveTo(s, "find_command_again") /\ draft' = draft
        BY <1>5, <2>2 DEF InsertCommand
      <3>2. commandSeq <= commandSeq'
        <4>1. commandSeq' = IF sources = {} THEN commandSeq ELSE commandSeq + 1
          BY <1>5 DEF InsertCommand
        <4>2. QED
          BY <1>1, <4>1
      <3>3. QED
        BY <1>2, <1>3, <3>1, <3>2, EvidenceRows, EvidenceSafe
    <2>3. CASE sources # {} /\ CommandsFor(View(s), q) = {}
      <3>1. PICK r \in sources : Write(s, [EmptyDatabase EXCEPT !.commands = {row(r)}])
        BY <1>5, <2>3 DEF InsertCommand
      <3>2. /\ MoveTo(s, "insert_authorization")
            /\ commandSeq' = IF sources = {} THEN commandSeq ELSE commandSeq + 1
        BY <1>5, <2>3 DEF InsertCommand
      <3>3. commandSeq' = commandSeq + 1 /\ commandSeq <= commandSeq'
        BY <1>1, <2>3, <3>2
      <3>4. r \in EventRow
        BY <1>1, ViewType, TableTypes DEF EligibleSource
      <3>5. row(r) \in CommandRow /\ row(r).id = commandSeq + 1
        <4>1. commandSeq + 1 \in Nat
          BY LedgerAssumption, <1>1 DEF TypeInv, TypeOK
        <4>2. QED
          BY <2>1, <3>4, <4>1 DEF CommandRow, EventRow, CreateRequest
      <3> DEFINE k == row(r)
                 rows == [EmptyDatabase EXCEPT !.commands = {k}]
      <3>6. /\ rows.events = {} /\ \A c \in Conn : rows.registry[c] = NoRow
            /\ rows.commands = {k} /\ Write(s, rows)
            /\ k \in CommandRow /\ k.id = commandSeq + 1
        BY <3>1, <3>5, EvidenceRows
      <3> HIDE DEF k, rows
      <3>7. \E j \in CommandRow :
              rows.commands = {j} /\ j.id = commandSeq + 1 /\ commandSeq' = commandSeq + 1
        BY <3>3, <3>6
      <3>8. QED
        BY <1>2, <1>3, <3>2, <3>3, <3>6, <3>7, EvidenceSafe
    <2>4. QED
      BY <2>2, <2>3
  <1>6. CASE InsertAuthorization(s)
    <2> DEFINE x == {[command |-> outcome[s].command, inbox |-> request[s].inbox,
                      authority |-> request[s].authority, scope |-> ScopeOf(s)]}
               rows == [EmptyDatabase EXCEPT !.authorizations = x]
               next == IF bot[s] # NoAccount THEN "insert_eligibility" ELSE "commit"
    <2>1. /\ Write(s, rows) /\ MoveTo(s, next) /\ commandSeq' = commandSeq
      BY <1>6 DEF InsertAuthorization
    <2>2. /\ rows.events = {} /\ rows.commands = {}
          /\ \A c \in Conn : rows.registry[c] = NoRow
      BY EvidenceRows
    <2>3. next \notin {"idle", "orphaned", "lock"} /\ commandSeq <= commandSeq'
      BY <1>1, <2>1
    <2> HIDE DEF rows, next
    <2>4. QED
      BY <1>2, <1>3, <2>1, <2>2, <2>3, EvidenceSafe
  <1>7. CASE InsertEligibility(s)
    <2> DEFINE x == {[command |-> outcome[s].command, account |-> bot[s]]}
               rows == [EmptyDatabase EXCEPT !.eligibility = x]
    <2>1. /\ Write(s, rows) /\ MoveTo(s, "commit") /\ commandSeq' = commandSeq
      BY <1>7 DEF InsertEligibility
    <2>2. /\ rows.events = {} /\ rows.commands = {}
          /\ \A c \in Conn : rows.registry[c] = NoRow
      BY EvidenceRows
    <2>3. commandSeq <= commandSeq'
      BY <1>1, <2>1
    <2> HIDE DEF rows
    <2>4. QED
      BY <1>2, <1>3, <2>1, <2>2, <2>3, EvidenceSafe
  <1>8. CASE InsertDelivery(s)
    <2>1. /\ commandSeq' = commandSeq
          /\ \/ draft' = draft /\ MoveTo(s, "find_delivery_again")
             \/ /\ \E x : Write(s, [EmptyDatabase EXCEPT !.deliveries = x])
                /\ MoveTo(s, "commit")
      BY <1>8 DEF InsertDelivery, Settle
    <2>2. commandSeq <= commandSeq'
      BY <1>1, <2>1
    <2>3. CASE draft' = draft /\ MoveTo(s, "find_delivery_again")
      BY <1>2, <1>3, <2>2, <2>3, EvidenceRows, EvidenceSafe
    <2>4. ASSUME NEW x, Write(s, [EmptyDatabase EXCEPT !.deliveries = x]), MoveTo(s, "commit")
          PROVE  SafetyInv'
      <3> DEFINE rows == [EmptyDatabase EXCEPT !.deliveries = x]
      <3>1. /\ rows.events = {} /\ rows.commands = {} /\ Write(s, rows)
            /\ \A c \in Conn : rows.registry[c] = NoRow
        BY <2>4, EvidenceRows
      <3> HIDE DEF rows
      <3>2. QED
        BY <1>2, <1>3, <2>2, <2>4, <3>1, EvidenceSafe
    <2>5. QED
      BY <2>1, <2>3, <2>4
  <1>9. QED
    BY <1>4, <1>5, <1>6, <1>7, <1>8

-----------------------------------------------------------------------------
(* The end of transactions.                                                *)

\* What a commit makes of the committed rows.
LEMMA Committed ==
  ASSUME SafetyInv, NEW s \in Server, pc[s] = "commit",
         NEW d, d = Merge(db, draft[s])
  PROVE  /\ \A r \in d.events : r.id <= ledgerSeq
         /\ \A k \in d.commands : k.id <= commandSeq
         /\ \A r \in d.events :
              d.registry[r.conn] # NoRow /\ d.registry[r.conn].account \in Account
                => r.account = d.registry[r.conn].account
         /\ \A t \in Server : phase[t] = "serving" =>
              \A c \in Configured(config[t]) :
                d.registry[c] = Registration(config[t].accounts[c])
         /\ phase[s] = "starting" =>
              \A c \in Configured(config[s]) :
                d.registry[c] = Registration(config[s].accounts[c])
  <1>1. /\ d.events = db.events \cup draft[s].events
        /\ d.commands = db.commands \cup draft[s].commands
        /\ \A c \in Conn : d.registry[c] =
             IF draft[s].registry[c] # NoRow THEN draft[s].registry[c] ELSE db.registry[c]
    BY MergeFields
  <1>2. EventDrafts(s) /\ RegistryDrafts(s) /\ CommandDrafts(s)
    BY DEF SafetyInv, ServerInv, Drafts
  <1>3. /\ \A r \in d.events : r.id <= ledgerSeq
        /\ \A k \in d.commands : k.id <= commandSeq
    BY <1>1, <1>2 DEF SafetyInv, BelowSequences, EventDrafts, CommandDrafts
  <1>4. ASSUME NEW t \in Server, NEW c \in Configured(config[t])
        PROVE  config[t].accounts[c] \in Account /\ c \in Conn
    BY <1>4, ConfigTypes DEF Configured, AccountOrNull, SafetyInv, TypeInv, TypeOK
  <1>5. \A r \in d.events : r.conn \in Conn
    BY <1>1, TableTypes DEF EventRow, SafetyInv, TypeInv, TypeOK
  <1>6. ASSUME NEW c \in Conn, draft[s].registry[c] # NoRow
        PROVE  /\ phase[s] = "starting" /\ c \in Configured(config[s])
               /\ d.registry[c] = Registration(config[s].accounts[c])
               /\ RegistrationAccepted(db, c, config[s].accounts[c])
    BY <1>1, <1>2, <1>6 DEF RegistryDrafts
  <1>7. ASSUME NEW r \in d.events, d.registry[r.conn] # NoRow,
               d.registry[r.conn].account \in Account
        PROVE  r.account = d.registry[r.conn].account
    <2>1. CASE r \in draft[s].events
      <3>1. /\ phase[s] = "serving" /\ r.account = config[s].accounts[r.conn]
            /\ r.account \in Account
        BY <1>2, <2>1 DEF EventDrafts
      <3>2. r.conn \in Configured(config[s])
        BY <1>5, <3>1, TablesAssumption DEF Configured
      <3>3. db.registry[r.conn] = Registration(r.account)
        BY <3>1, <3>2 DEF SafetyInv, ServingIsBound
      <3>4. draft[s].registry[r.conn] = NoRow
        BY <1>5, <1>6, <3>1
      <3>5. d.registry[r.conn] = db.registry[r.conn]
        BY <1>1, <1>5, <3>4
      <3>6. QED
        BY <3>3, <3>5 DEF Registration
    <2>2. CASE r \in db.events
      <3>1. CASE draft[s].registry[r.conn] = NoRow
        <4>1. d.registry[r.conn] = db.registry[r.conn]
          BY <1>1, <1>5, <3>1
        <4>2. QED
          BY <1>7, <2>2, <4>1 DEF SafetyInv, OneAccountPerConnection
      <3>2. CASE draft[s].registry[r.conn] # NoRow
        <4> DEFINE a == config[s].accounts[r.conn]
        <4>1. /\ d.registry[r.conn] = Registration(a) /\ a \in Account
              /\ RegistrationAccepted(db, r.conn, a)
          BY <1>4, <1>5, <1>6, <3>2
        <4>2. HasHistory(db, r.conn)
          BY <2>2 DEF HasHistory
        <4>3. db.registry[r.conn] # NoRow /\ db.registry[r.conn].account = a
          BY <4>1, <4>2 DEF RegistrationAccepted
        <4>4. r.account = a
          BY <2>2, <4>1, <4>3 DEF SafetyInv, OneAccountPerConnection
        <4>5. QED
          BY <4>1, <4>4 DEF Registration
      <3>3. QED
        BY <3>1, <3>2
    <2>3. QED
      BY <1>1, <2>1, <2>2
  <1>8. ASSUME NEW t \in Server, phase[t] = "serving", NEW c \in Configured(config[t])
        PROVE  d.registry[c] = Registration(config[t].accounts[c])
    <2>1. /\ db.registry[c] = Registration(config[t].accounts[c]) /\ c \in Conn
          /\ config[t].accounts[c] \in Account
      BY <1>4, <1>8 DEF SafetyInv, ServingIsBound
    <2>2. CASE draft[s].registry[c] = NoRow
      BY <1>1, <2>1, <2>2
    <2>3. CASE draft[s].registry[c] # NoRow
      <3>1. /\ d.registry[c] = Registration(config[s].accounts[c])
            /\ RegistrationAccepted(db, c, config[s].accounts[c])
        BY <1>6, <2>1, <2>3
      <3>2. db.registry[c] # NoRow /\ db.registry[c].account = config[t].accounts[c]
        <4>1. db.registry[c] # NoRow
          BY <2>1, TablesAssumption DEF Registration
        <4>2. QED
          BY <2>1, <4>1 DEF Registration
      <3>3. config[s].accounts[c] = config[t].accounts[c]
        BY <2>1, <3>1, <3>2, TablesAssumption DEF RegistrationAccepted
      <3>4. QED
        BY <3>1, <3>3
    <2>4. QED
      BY <2>2, <2>3
  <1>9. ASSUME phase[s] = "starting", NEW c \in Configured(config[s])
        PROVE  d.registry[c] = Registration(config[s].accounts[c])
    <2>1. draft[s].registry[c] # NoRow /\ c \in Conn
      BY <1>4, <1>9 DEF SafetyInv, ServerInv, AllRegistered, Unregistered
    <2>2. QED
      BY <1>6, <2>1
  <1>10. QED
    BY <1>3, <1>7, <1>8, <1>9

\* A transaction ends, with or without its rows.
LEMMA EndSafe ==
  ASSUME SafetyInv, TypeInv', NEW s \in Server, EndTransaction(s),
         UNCHANGED <<ledgerSeq, commandSeq>>,
         \/ /\ db'.events = db.events /\ db'.registry = db.registry
            /\ db'.commands = db.commands
         \/ pc[s] = "commit" /\ db' = Merge(db, draft[s]),
         \A t \in Server \ {s} : phase'[t] = phase[t] /\ config'[t] = config[t],
         phase'[s] = "serving" =>
           /\ config'[s] = config[s]
           /\ phase[s] = "serving" \/ (phase[s] = "starting" /\ db' = Merge(db, draft[s])
                                        /\ pc[s] = "commit")
  PROVE  SafetyInv'
  <1>1. /\ pc'[s] = "idle" /\ draft'[s] = EmptyDatabase
        /\ \A t \in Server \ {s} : pc'[t] = pc[t] /\ draft'[t] = draft[t]
                                  /\ waiting'[t] = waiting[t]
        /\ \A t \in Server \ {s} :
             lockOwner["APPEND"] = t => lockOwner'["APPEND"] = t
    BY DEF EndTransaction, SafetyInv, TypeInv, TypeOK, Lock
  <1>2. ServerInv(s)'
    BY <1>1, IdleServer DEF ServerInv, HoldsAppend, Executing, Open, Drafts, EventDrafts,
         RegistryDrafts, CommandDrafts, AllRegistered, EmptyDatabase
  <1>3. ASSUME NEW t \in Server, t # s PROVE ServerInv(t)'
    <2>1. \/ /\ db'.events = db.events /\ db'.registry = db.registry
             /\ db'.commands = db.commands
          \/ pc[t] # "orphaned" => /\ draft[t].events = {} /\ draft[t].commands = {}
                                   /\ \A c \in Conn : draft[t].registry[c] = NoRow
      BY <1>3, Alone DEF Executing, Open
    <2>2. QED
      BY <1>1, <1>3, <2>1, Numbers, ServerFrame DEF SafetyInv
  <1>4. CASE /\ db'.events = db.events /\ db'.registry = db.registry
             /\ db'.commands = db.commands
             /\ ~(pc[s] = "commit" /\ db' = Merge(db, draft[s]))
    <2>1. BelowSequences'
      BY <1>4 DEF SafetyInv, BelowSequences
    <2>2. OneAccountPerConnection'
      BY <1>4 DEF SafetyInv, OneAccountPerConnection
    <2>3. ServingIsBound'
      BY <1>4 DEF SafetyInv, ServingIsBound, Configured, Registration
    <2>4. QED
      BY <1>2, <1>3, <2>1, <2>2, <2>3 DEF SafetyInv
  <1>5. CASE pc[s] = "commit" /\ db' = Merge(db, draft[s])
    <2>1. BelowSequences'
      BY <1>5, Committed DEF BelowSequences
    <2>2. OneAccountPerConnection'
      BY <1>5, Committed DEF OneAccountPerConnection
    <2>3. ServingIsBound'
      <3>1. ASSUME NEW t \in Server, phase'[t] = "serving",
                   NEW c \in Configured(config'[t])
            PROVE  db'.registry[c] = Registration(config'[t].accounts[c])
        <4>1. config'[t] = config[t] /\ (phase[t] = "serving" \/ (t = s /\ phase[s] = "starting"))
          BY <3>1
        <4>2. QED
          BY <1>5, <3>1, <4>1, Committed
      <3>2. QED
        BY <3>1 DEF ServingIsBound, Configured, Registration
    <2>4. QED
      BY <1>2, <1>3, <2>1, <2>2, <2>3 DEF SafetyInv
  <1>6. QED
    BY <1>4, <1>5

\* A transaction is rolled back.
LEMMA RollbackSafe ==
  ASSUME SafetyInv, TypeInv', NEW s \in Server, Rollback(s)
  PROVE  SafetyInv'
  <1>1. /\ EndTransaction(s) /\ UNCHANGED <<db, ledgerSeq, commandSeq>>
        /\ \A t \in Server \ {s} : phase'[t] = phase[t] /\ config'[t] = config[t]
        /\ phase'[s] = "serving" => phase[s] = "serving" /\ config'[s] = config[s]
    BY DEF Rollback, Raise, SafetyInv, TypeInv, TypeOK
  <1>2. QED
    BY <1>1, EndSafe

\* A process dies.
LEMMA CrashSafe ==
  ASSUME SafetyInv, TypeInv', NEW s \in Server, Crash(s)
  PROVE  SafetyInv'
  <1>1. /\ phase'[s] = "down" /\ UNCHANGED <<ledgerSeq, commandSeq>>
        /\ \A t \in Server \ {s} : phase'[t] = phase[t] /\ config'[t] = config[t]
    BY DEF Crash, SafetyInv, TypeInv, TypeOK
  <1>2. CASE pc[s] = "commit" /\ db' = Merge(db, draft[s]) /\ EndTransaction(s)
    BY <1>1, <1>2, EndSafe
  <1>3. CASE /\ \/ pc[s] # "idle" /\ MoveTo(s, "orphaned")
                \/ pc[s] = "idle" /\ UNCHANGED pc
             /\ UNCHANGED <<db, lockOwner, waiting, draft>>
    <2>1. /\ pc'[s] = "orphaned" \/ (pc'[s] = "idle" /\ pc[s] = "idle")
          /\ \A t \in Server \ {s} : pc'[t] = pc[t]
      BY <1>3 DEF MoveTo, SafetyInv, TypeInv, TypeOK
    <2>2. ServerInv(s)'
      <3>1. HoldsAppend(s)' /\ AllRegistered(s)'
        BY <2>1 DEF HoldsAppend, Executing, Open, AllRegistered
      <3>2. ASSUME pc'[s] = "idle" PROVE Drafts(s)'
        <4>1. Drafts(s) /\ ~Executing(s)
          BY <2>1, <3>2 DEF SafetyInv, ServerInv, Executing, Open
        <4>2. QED
          BY <1>3, <4>1 DEF Drafts, EventDrafts, RegistryDrafts, CommandDrafts
      <3>3. QED
        BY <2>1, <3>1, <3>2 DEF ServerInv
    <2>3. ASSUME NEW t \in Server, t # s PROVE ServerInv(t)'
      BY <1>1, <1>3, <2>1, <2>3, Numbers, ServerFrame DEF SafetyInv
    <2>4. ledgerSeq <= ledgerSeq' /\ commandSeq <= commandSeq'
      BY <1>1, Numbers DEF SafetyInv
    <2>5. QED
      BY <1>1, <1>3, <2>2, <2>3, <2>4, QuietStep
  <1>4. QED
    BY <1>2, <1>3 DEF Crash

\* An attempt is recorded, which is neither an event, nor a registration, nor
\* a command.
LEMMA AttemptSafe ==
  ASSUME SafetyInv, TypeInv', RecordAttempt
  PROVE  SafetyInv'
  <1>1. /\ UNCHANGED <<ledgerSeq, commandSeq, lockOwner, phase, config, pc, waiting, draft>>
        /\ db'.events = db.events /\ db'.registry = db.registry
        /\ db'.commands = db.commands
    BY DEF RecordAttempt, process, transaction, SafetyInv, TypeInv, TypeOK, Database
  <1>2. ledgerSeq <= ledgerSeq' /\ commandSeq <= commandSeq'
    BY <1>1, Numbers DEF SafetyInv
  <1>3. ASSUME NEW t \in Server PROVE ServerInv(t)'
    BY <1>1, <1>2, <1>3, Numbers, ServerFrame DEF SafetyInv
  <1>4. BelowSequences'
    BY <1>1 DEF SafetyInv, BelowSequences
  <1>5. OneAccountPerConnection'
    BY <1>1 DEF SafetyInv, OneAccountPerConnection
  <1>6. ServingIsBound'
    BY <1>1 DEF SafetyInv, ServingIsBound, Configured, Registration
  <1>7. QED
    BY <1>3, <1>4, <1>5, <1>6 DEF SafetyInv

\* Every step preserves the invariant: one step for each action.
LEMMA SafetyStep == SafetyInv /\ [Next]_vars => SafetyInv'
  <1> SUFFICES ASSUME SafetyInv, [Next]_vars PROVE SafetyInv'
    OBVIOUS
  <1>0. TypeInv'
    BY TypeStep DEF SafetyInv
  <1>1. ASSUME NEW s \in Server, NEW cfg \in Config, Start(s, cfg) PROVE SafetyInv'
    <2>1. /\ pc[s] = "idle" /\ BeginTransaction(s, [kind |-> "register"])
          /\ UNCHANGED storage
      BY <1>1 DEF Start
    <2>2. /\ phase'[s] = "starting"
          /\ \A t \in Server \ {s} : phase'[t] = phase[t] /\ config'[t] = config[t]
      BY <1>1 DEF Start, SafetyInv, TypeInv, TypeOK
    <2>3. [kind |-> "register"] \in Request
      BY DEF Request, RegisterRequest
    <2>4. QED
      BY <1>0, <2>1, <2>2, <2>3, BeginSafe
  <1>2. ASSUME NEW s \in Server, NEW q \in Requests, Receive(s, q) PROVE SafetyInv'
    <2>1. /\ pc[s] = "idle" /\ BeginTransaction(s, q) /\ UNCHANGED storage
          /\ phase[s] = "serving" /\ UNCHANGED <<phase, config>>
      BY <1>2 DEF Receive
    <2>2. q \in Request
      BY RequestTypes
    <2>3. QED
      BY <1>0, <2>1, <2>2, BeginSafe
  <1>3. ASSUME NEW s \in Server, AcquireLock(s) PROVE SafetyInv'
    BY <1>0, <1>3, AcquireSafe
  <1>4. ASSUME NEW s \in Server, Commit(s) PROVE SafetyInv'
    <2>1. /\ pc[s] = "commit" /\ db' = Merge(db, draft[s]) /\ EndTransaction(s)
          /\ UNCHANGED <<ledgerSeq, commandSeq, config>>
          /\ \A t \in Server \ {s} : phase'[t] = phase[t]
      BY <1>4 DEF Commit, SafetyInv, TypeInv, TypeOK
    <2>2. phase[s] \in {"starting", "serving"}
      BY <2>1 DEF SafetyInv, TypeInv, TypeOK, Control, Open
    <2>3. QED
      BY <1>0, <2>1, <2>2, EndSafe
  <1>5. ASSUME NEW s \in Server, StatementRefused(s) \/ StatementFails(s) PROVE SafetyInv'
    BY <1>0, <1>5, RollbackSafe DEF StatementRefused, StatementFails
  <1>6. ASSUME NEW s \in Server, CommitUnacknowledged(s) PROVE SafetyInv'
    <2>1. /\ pc[s] = "commit" /\ db' = Merge(db, draft[s]) /\ EndTransaction(s)
          /\ UNCHANGED <<ledgerSeq, commandSeq>>
          /\ \A t \in Server \ {s} : phase'[t] = phase[t] /\ config'[t] = config[t]
          /\ phase'[s] = "serving" => phase[s] = "serving" /\ config'[s] = config[s]
      BY <1>6 DEF CommitUnacknowledged, Raise, SafetyInv, TypeInv, TypeOK
    <2>2. QED
      BY <1>0, <2>1, EndSafe
  <1>7. ASSUME NEW s \in Server, Statement(s) PROVE SafetyInv'
    BY <1>0, <1>4, <1>5, <1>7, InsertEventSafe, RegisterSafe, EvidenceStatements
    DEF Statement
  <1>8. ASSUME NEW s \in Server, BackendEnds(s) PROVE SafetyInv'
    <2>1. /\ EndTransaction(s) /\ UNCHANGED <<db, ledgerSeq, commandSeq, phase, config>>
          /\ phase[s] # "serving"
      BY <1>8 DEF BackendEnds, process, SafetyInv, TypeInv, Control
    <2>2. QED
      BY <1>0, <2>1, EndSafe
  <1>9. CASE UNCHANGED vars
    <2>1. UNCHANGED <<db, ledgerSeq, commandSeq, lockOwner, phase, config, pc, waiting, draft>>
      BY <1>9 DEF vars
    <2>2. ledgerSeq <= ledgerSeq' /\ commandSeq <= commandSeq'
      BY <2>1, Numbers DEF SafetyInv
    <2>3. ASSUME NEW t \in Server PROVE ServerInv(t)'
      BY <2>1, <2>2, <2>3, Numbers, ServerFrame DEF SafetyInv
    <2>4. QED
      BY <1>0, <2>1, <2>2, <2>3, QuietStep
  <1>10. QED
    BY <1>0, <1>1, <1>2, <1>3, <1>6, <1>5, <1>7, <1>8, <1>9, CrashSafe, AttemptSafe
    DEF Next, Arrival, Failure

-----------------------------------------------------------------------------
(* Theorems.                                                               *)

\* A step leaves events, registrations and commands alone, or commits the
\* drafts of one executing transaction.
LEMMA StepsCommit ==
  ASSUME SafetyInv, [Next]_vars
  PROVE  \/ /\ db'.events = db.events /\ db'.registry = db.registry
            /\ db'.commands = db.commands
         \/ \E s \in Server : pc[s] = "commit" /\ db' = Merge(db, draft[s])
  <1>1. ASSUME NEW s \in Server, Arrival(s) \/ AcquireLock(s) \/ BackendEnds(s)
        PROVE  db' = db
    BY <1>1 DEF Arrival, Start, Receive, AcquireLock, BackendEnds, storage
  <1>2. ASSUME NEW s \in Server, Statement(s)
        PROVE  db' = db \/ (pc[s] = "commit" /\ db' = Merge(db, draft[s]))
    <2>1. ASSUME NEW c \in Conn, RegisterConnection(s, c) PROVE db' = db
      BY <2>1 DEF RegisterConnection, UnchangedButStatement
    <2>2. CASE \/ InsertEvent(s) \/ FindCommand(s) \/ InsertCommand(s)
               \/ InsertAuthorization(s) \/ InsertEligibility(s) \/ FindCommandAgain(s)
               \/ FindDelivery(s) \/ InsertDelivery(s) \/ FindDeliveryAgain(s)
      <3>1. UnchangedButStatement
        BY <2>2 DEF InsertEvent, FindCommand, InsertCommand, InsertAuthorization,
             InsertEligibility, FindCommandAgain, FindDelivery, InsertDelivery,
             FindDeliveryAgain
      <3>2. QED
        BY <3>1 DEF UnchangedButStatement
    <2>3. CASE StatementRefused(s)
      BY <2>3 DEF StatementRefused, Rollback
    <2>4. CASE Commit(s)
      BY <2>4 DEF Commit
    <2>5. QED
      BY <1>2, <2>1, <2>2, <2>3, <2>4 DEF Statement
  <1>3. ASSUME NEW s \in Server, Failure(s)
        PROVE  db' = db \/ (pc[s] = "commit" /\ db' = Merge(db, draft[s]))
    BY <1>3 DEF Failure, CommitUnacknowledged, StatementFails, Rollback, Crash
  <1>4. ASSUME RecordAttempt
        PROVE  /\ db'.events = db.events /\ db'.registry = db.registry
               /\ db'.commands = db.commands
    BY <1>4 DEF RecordAttempt, SafetyInv, TypeInv, TypeOK, Database
  <1>5. CASE UNCHANGED vars
    BY <1>5 DEF vars
  <1>6. QED
    BY <1>1, <1>2, <1>3, <1>4, <1>5 DEF Next

\* One connection id never mixes two provider accounts, whatever is
\* configured and however many processes start, crash and restart.
THEOREM OneAccount == Spec => []OneAccountPerConnection
  <1>1. SafetyInv => OneAccountPerConnection
    BY DEF SafetyInv
  <1>2. QED
    BY <1>1, SafetyInit, SafetyStep, PTL DEF Spec

\* A process that serves is bound by the registry to the accounts of its
\* configuration, for as long as it serves.
THEOREM ServingBound == Spec => []ServingIsBound
  <1>1. SafetyInv => ServingIsBound
    BY DEF SafetyInv
  <1>2. QED
    BY <1>1, SafetyInit, SafetyStep, PTL DEF Spec

\* A registered connection never changes channel, and takes an account at
\* most once and never over stored events.
THEOREM BindingFixed == Spec => BindingNeverMoves
  <1> DEFINE Fixed ==
        \A c \in Conn : db.registry[c] # NoRow /\ db'.registry[c] # db.registry[c]
          => /\ db'.registry[c].channel = db.registry[c].channel
             /\ db.registry[c].account = NoAccount
             /\ ~HasHistory(db, c)
  <1>1. ASSUME SafetyInv, [Next]_vars PROVE Fixed
    <2> SUFFICES ASSUME NEW c \in Conn, db.registry[c] # NoRow,
                        db'.registry[c] # db.registry[c]
                 PROVE  /\ db'.registry[c].channel = db.registry[c].channel
                        /\ db.registry[c].account = NoAccount
                        /\ ~HasHistory(db, c)
      OBVIOUS
    <2>1. PICK s \in Server : pc[s] = "commit" /\ db' = Merge(db, draft[s])
      BY <1>1, StepsCommit
    <2> DEFINE a == config[s].accounts[c]
    <2>2. /\ draft[s].registry[c] # NoRow
          /\ db'.registry[c] = draft[s].registry[c]
      BY <2>1, MergeFields
    <2>3. db'.registry[c] = Registration(a) /\ RegistrationAccepted(db, c, a)
      BY <1>1, <2>1, <2>2 DEF SafetyInv, ServerInv, Drafts, RegistryDrafts
    <2>4. db.registry[c] \in RegistryRow
      BY <1>1, TableTypes DEF SafetyInv, TypeInv, TypeOK
    <2>5. QED
      BY <2>3, <2>4 DEF RegistrationAccepted, Registration, RegistryRow
  <1>2. [][Fixed]_vars <=> BindingNeverMoves
    BY PTL DEF BindingNeverMoves
  <1>3. QED
    BY <1>1, <1>2, SafetyInit, SafetyStep, PTL DEF Spec

\* A step makes events and commands visible above those that are visible.
LEMMA StepsInOrder ==
  ASSUME SafetyInv, [Next]_vars
  PROVE  /\ \A new \in db'.events \ db.events : \A old \in db.events : old.id < new.id
         /\ \A new \in db'.commands \ db.commands :
              \A old \in db.commands : old.id < new.id
  <1>1. CASE \E s \in Server : pc[s] = "commit" /\ db' = Merge(db, draft[s])
    <2>1. PICK s \in Server : pc[s] = "commit" /\ db' = Merge(db, draft[s])
      BY <1>1
    <2>2. EventDrafts(s) /\ CommandDrafts(s)
      BY <2>1 DEF SafetyInv, ServerInv, Drafts
    <2>3. QED
      BY <2>1, <2>2, MergeFields DEF EventDrafts, CommandDrafts
  <1>2. CASE db'.events = db.events /\ db'.commands = db.commands
    BY <1>2
  <1>3. QED
    BY <1>1, <1>2, StepsCommit

\* Events and commands become visible in the order of their ids, so that a
\* reader that pages by id never skips a row it would later have seen.
THEOREM VisibleOrder == Spec => VisibleInIdOrder
  <1> DEFINE InOrder ==
        /\ \A new \in db'.events \ db.events : \A old \in db.events : old.id < new.id
        /\ \A new \in db'.commands \ db.commands :
             \A old \in db.commands : old.id < new.id
  <1>1. ASSUME SafetyInv, [Next]_vars PROVE InOrder
    BY <1>1, StepsInOrder
  <1>2. [][InOrder]_vars <=> VisibleInIdOrder
    BY PTL DEF VisibleInIdOrder
  <1>3. QED
    BY <1>1, <1>2, SafetyInit, SafetyStep, PTL DEF Spec
==============================================================================
