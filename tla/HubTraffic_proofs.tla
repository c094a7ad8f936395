--------------------------- MODULE HubTraffic_proofs ---------------------------
(***************************************************************************)
(* A process from its environment to its traffic, for documents of any     *)
(* length, with any secrets, and any webhooks.                             *)
(*                                                                         *)
(* The loader compares a secret with those it has read, in registries of   *)
(* which it consults a part: the proof says what the registries know of    *)
(* the document, and why that part is enough.  What it has decided is      *)
(* carried through the start; then the catalogs refuse nothing it has let  *)
(* through but what it does not compare, the registry holds what is        *)
(* served, and the webhooks reach the connections of their accounts.       *)
(***************************************************************************)
EXTENDS HubTraffic, SequenceTheorems, FiniteSetTheorems, WellFoundedInduction, TLAPS

-----------------------------------------------------------------------------
(* Lists that grow at the end.                                             *)

IsList(l) == Len(l) \in Nat /\ l = [i \in 1..Len(l) |-> l[i]]

\* Append leaves what is there and adds one element.
LEMMA AppendList ==
  ASSUME NEW l, NEW e, IsList(l)
  PROVE  /\ IsList(Append(l, e)) /\ Len(Append(l, e)) = Len(l) + 1
         /\ \A i \in 1..Len(l) : Append(l, e)[i] = l[i]
         /\ Append(l, e)[Len(l) + 1] = e
<1> DEFINE S == {l[i] : i \in 1..Len(l)} \cup {e}
<1>1. l \in [1..Len(l) -> S]
  BY DEF IsList
<1>2. l \in Seq(S)
  BY <1>1, SeqDef DEF IsList
<1>3. e \in S
  OBVIOUS
<1> HIDE DEF S
<1>4. Append(l, e) \in Seq(S) /\ Len(Append(l, e)) = Len(l) + 1
  BY <1>2, <1>3, AppendProperties
<1>5. /\ \A i \in 1..Len(l) : Append(l, e)[i] = l[i]
      /\ Append(l, e)[Len(l) + 1] = e
  BY <1>2, <1>3, AppendProperties
<1>6. IsList(Append(l, e))
  <2>1. Append(l, e) \in [1..Len(Append(l, e)) -> S] /\ Len(Append(l, e)) \in Nat
    BY <1>4, LenProperties
  <2> QED
    BY <2>1 DEF IsList
<1> QED
  BY <1>4, <1>5, <1>6

\* What the parts of a document use.
ListUses(list) == UNION {ConnectionUses(i, list[i]) : i \in 1..Len(list)}
InboxUses(list) == {<<list[i].token, <<"inbox", i>>>> : i \in 1..Len(list)}

LEMMA UsesByPart ==
  ASSUME NEW doc
  PROVE  Uses(doc) = ListUses(doc.connections) \cup InboxUses(doc.inboxes)
                     \cup DashboardUses(doc.dashboard)
BY DEF Uses, ListUses, InboxUses

\* One more connection adds its own uses.
LEMMA ConnectionAdds ==
  ASSUME NEW l, NEW c, IsList(l)
  PROVE  ListUses(Append(l, c)) = ListUses(l) \cup ConnectionUses(Len(l) + 1, c)
<1>1. /\ Len(Append(l, c)) = Len(l) + 1 /\ Len(l) \in Nat
      /\ \A i \in 1..Len(l) : Append(l, c)[i] = l[i]
      /\ Append(l, c)[Len(l) + 1] = c
  BY AppendList DEF IsList
<1>2. 1..(Len(l) + 1) = 1..Len(l) \cup {Len(l) + 1}
  BY <1>1
<1> DEFINE P(i) == ConnectionUses(i, Append(l, c)[i])
           Q(i) == ConnectionUses(i, l[i])
<1>3. /\ \A i \in 1..Len(l) : P(i) = Q(i)
      /\ P(Len(l) + 1) = ConnectionUses(Len(l) + 1, c)
  BY <1>1
<1>4. ListUses(Append(l, c)) = UNION {P(i) : i \in 1..(Len(l) + 1)}
  BY <1>1 DEF ListUses
<1>5. ListUses(l) = UNION {Q(i) : i \in 1..Len(l)}
  BY DEF ListUses
<1> HIDE DEF P, Q
<1>6. UNION {P(i) : i \in 1..(Len(l) + 1)} = (UNION {Q(i) : i \in 1..Len(l)}) \cup P(Len(l) + 1)
  BY <1>2, <1>3
<1> QED
  BY <1>3, <1>4, <1>5, <1>6

\* One more inbox adds its bearer.
LEMMA InboxAdds ==
  ASSUME NEW l, NEW b, IsList(l)
  PROVE  InboxUses(Append(l, b)) = InboxUses(l) \cup {<<b.token, <<"inbox", Len(l) + 1>>>>}
<1>1. /\ Len(Append(l, b)) = Len(l) + 1 /\ Len(l) \in Nat
      /\ \A i \in 1..Len(l) : Append(l, b)[i] = l[i]
      /\ Append(l, b)[Len(l) + 1] = b
  BY AppendList DEF IsList
<1>2. 1..(Len(l) + 1) = 1..Len(l) \cup {Len(l) + 1}
  BY <1>1
<1> QED
  BY <1>1, <1>2 DEF InboxUses

\* Uses stay separated when whatever is added meets an equal value in its own role only.
LEMMA SeparatedUnion ==
  ASSUME NEW old, NEW new, Separated(old), Separated(new),
         \A u \in old, v \in new : u[1] = v[1] => u[2] = v[2]
  PROVE  Separated(old \cup new)
BY DEF Separated

-----------------------------------------------------------------------------
(* What the registries know.                                               *)

\* Each secret of a connection is in one of the registries, one that only the
\* registry of OAs has is the secret of OAs, and the secrets of an App are those
\* of an entry that was read.
Registered(list, s) ==
  /\ \A u \in ListUses(list) :
       /\ u[1] \in Taken(s)
       /\ u[1] \notin s.exclusive \cup s.meta => u[2] = <<"oa", 0>>
  /\ \A a \in s.apps : {<<a.key, <<"app", a.app>>>>, <<a.hook, <<"app", a.app>>>>} \subseteq ListUses(list)

Registries ==
  {"ids", "exclusive", "oa", "meta", "accounts", "apps", "wabas", "channels", "urls",
   "inboxes", "tokens"}

Shape ==
  /\ document = [connections |-> document.connections, inboxes |-> document.inboxes,
                 dashboard |-> document.dashboard]
  /\ seen = [f \in Registries |-> seen[f]]

LoaderInv ==
  /\ Shape
  /\ IsList(document.connections) /\ IsList(document.inboxes)
  /\ phase \in {"connections", "inboxes", "dashboard", "accepted", "refused"}
  /\ phase = "connections" => document.inboxes = <<>>
  /\ phase \in {"connections", "inboxes", "dashboard"} =>
       /\ document.dashboard = NoDashboard
       /\ Registered(document.connections, seen)
       /\ \A u \in InboxUses(document.inboxes) : u[1] \in seen.tokens
  /\ CredentialsSeparated

LEMMA NoUses ==
  ListUses(<<>>) = {} /\ InboxUses(<<>>) = {} /\ DashboardUses(NoDashboard) = {} /\ IsList(<<>>)
BY DEF ListUses, InboxUses, DashboardUses, IsList

LEMMA LoaderStart == LoaderInit => LoaderInv
<1> SUFFICES ASSUME LoaderInit PROVE LoaderInv
  OBVIOUS
<1>1. Shape
  BY DEF LoaderInit, Shape, NothingSeen, Registries
<1>2. /\ document.connections = <<>> /\ document.inboxes = <<>>
      /\ document.dashboard = NoDashboard /\ seen.apps = {} /\ phase = "connections"
  BY DEF LoaderInit, NothingSeen
<1>3. Uses(document) = {}
  BY <1>2, NoUses, UsesByPart
<1> QED
  BY <1>1, <1>2, <1>3, NoUses DEF LoaderInv, Registered, CredentialsSeparated, Separated

\* The registries after an entry, part by part.
LEMMA RecordedParts ==
  ASSUME NEW c, Shape
  PROVE  LET t == Recorded(c, seen) IN
         /\ t = [f \in Registries |-> t[f]]
         /\ t.exclusive = seen.exclusive \cup {c.operator} \cup
              (CASE c.type = "telegram_bot" -> {c.key, c.hook}
                 [] c.type = "zalo_user" -> {c.key}
                 [] OTHER -> {})
         /\ t.oa = IF c.type = "zalo_oa" THEN seen.oa \cup {c.key} ELSE seen.oa
         /\ t.meta = IF c.type \in Meta THEN seen.meta \cup {c.key, c.hook} ELSE seen.meta
         /\ t.apps = IF c.type \in Meta
                     THEN seen.apps \cup {[app |-> c.app, key |-> c.key, hook |-> c.hook]}
                     ELSE seen.apps
         /\ t.tokens = seen.tokens
BY ZenonT(60) DEF Shape, Recorded, Registries

\* An operator bearer is none of the secrets of its entry.
LEMMA AppSeparated ==
  ASSUME NEW list, NEW c, NEW i, c.type \in Meta, ~Collides(c, seen), Registered(list, seen)
  PROVE  Separated(ConnectionUses(i, c))
<1>1. c.operator \notin Taken(seen)
  BY DEF Collides
<1>2. CASE SameApp(c, seen)
  <2>1. {<<c.key, <<"app", c.app>>>>, <<c.hook, <<"app", c.app>>>>} \subseteq ListUses(list)
    BY <1>2 DEF SameApp, Registered
  <2>2. c.key \in Taken(seen) /\ c.hook \in Taken(seen)
    BY <2>1 DEF Registered
  <2> QED
    BY <1>1, <2>2 DEF ConnectionUses, Separated, Meta
<1>3. CASE ~SameApp(c, seen)
  <2>1. c.key # c.operator /\ c.hook # c.operator
    BY <1>3 DEF Collides, Meta
  <2> QED
    BY <2>1 DEF ConnectionUses, Separated, Meta
<1> QED
  BY <1>2, <1>3

\* The uses of one entry that was not refused are separated.
LEMMA EntrySeparated ==
  ASSUME NEW list, NEW c, NEW i, WellFormed(c), ~Collides(c, seen), Registered(list, seen)
  PROVE  Separated(ConnectionUses(i, c))
<1>1. CASE c.type = "telegram_bot"
  <2>1. c.key # c.operator /\ c.hook # c.operator /\ c.hook # c.key
    BY <1>1 DEF Collides
  <2> QED
    BY <1>1, <2>1 DEF ConnectionUses, Separated
<1>2. CASE c.type = "zalo_oa" \/ c.type = "zalo_user"
  <2>1. c.key # c.operator
    BY <1>2 DEF Collides
  <2> QED
    BY <1>2, <2>1 DEF ConnectionUses, Separated
<1>3. CASE c.type \in Meta
  BY <1>3, AppSeparated
<1> QED
  BY <1>1, <1>2, <1>3 DEF WellFormed, TelegramBot, ZaloOa, ZaloUser, FacebookPage,
     WhatsAppBusiness, Meta

\* A secret of an entry that was not refused is new, or has the role it had.
LEMMA EntryApart ==
  ASSUME NEW list, NEW c, NEW i, WellFormed(c), ~Collides(c, seen), Registered(list, seen),
         Separated(ListUses(list)),
         NEW u \in ListUses(list), NEW v \in ConnectionUses(i, c), u[1] = v[1]
  PROVE  u[2] = v[2]
<1>1. u[1] \in Taken(seen) /\ (u[1] \notin seen.exclusive \cup seen.meta => u[2] = <<"oa", 0>>)
  BY DEF Registered
<1>2. v[1] # c.operator
  BY <1>1 DEF Collides
<1>3. CASE c.type = "telegram_bot"
  BY <1>1, <1>2, <1>3 DEF Collides, ConnectionUses
<1>4. CASE c.type = "zalo_oa"
  BY <1>1, <1>2, <1>4 DEF Collides, ConnectionUses
<1>5. CASE c.type = "zalo_user"
  BY <1>1, <1>2, <1>5 DEF Collides, ConnectionUses
<1>6. CASE c.type \in Meta
  <2>1. v \in {<<c.key, <<"app", c.app>>>>, <<c.hook, <<"app", c.app>>>>}
    BY <1>2, <1>6 DEF ConnectionUses, Meta
  <2>2. KnownApp(c, seen) /\ SameApp(c, seen)
    BY <1>1, <1>6, <2>1 DEF Collides, Meta
  <2>3. v \in ListUses(list)
    BY <2>1, <2>2 DEF Registered, SameApp
  <2> QED
    BY <2>3 DEF Separated
<1> QED
  BY <1>3, <1>4, <1>5, <1>6 DEF WellFormed, TelegramBot, ZaloOa, ZaloUser, FacebookPage,
     WhatsAppBusiness, Meta

\* The registries know the entry they have recorded.
LEMMA EntryRegistered ==
  ASSUME NEW c, Shape, IsList(document.connections),
         Registered(document.connections, seen), WellFormed(c)
  PROVE  Registered(Append(document.connections, c), Recorded(c, seen))
<1> DEFINE list == document.connections
           t == Recorded(c, seen)
           new == ConnectionUses(Len(list) + 1, c)
<1>1. ListUses(Append(list, c)) = ListUses(list) \cup new
  BY ConnectionAdds
<1>2. c.type \in {"telegram_bot", "zalo_oa", "zalo_user", "facebook_page", "whatsapp_business"}
  BY DEF WellFormed, TelegramBot, ZaloOa, ZaloUser, FacebookPage, WhatsAppBusiness
<1>3. /\ seen.exclusive \subseteq t.exclusive /\ seen.oa \subseteq t.oa
      /\ seen.meta \subseteq t.meta
  BY RecordedParts
<1>4. ASSUME NEW u \in ListUses(list)
      PROVE  u[1] \in Taken(t) /\ (u[1] \notin t.exclusive \cup t.meta => u[2] = <<"oa", 0>>)
  BY <1>3, <1>4 DEF Registered, Taken
<1>5. ASSUME NEW u \in new
      PROVE  u[1] \in Taken(t) /\ (u[1] \notin t.exclusive \cup t.meta => u[2] = <<"oa", 0>>)
  <2>1. c.operator \in t.exclusive
    BY RecordedParts
  <2>2. CASE c.type = "telegram_bot"
    <3>1. {c.key, c.hook} \subseteq t.exclusive
      BY <2>2, RecordedParts
    <3> QED
      BY <1>5, <2>1, <2>2, <3>1 DEF ConnectionUses, Taken
  <2>3. CASE c.type = "zalo_oa"
    <3>1. c.key \in t.oa
      BY <2>3, RecordedParts
    <3> QED
      BY <1>5, <2>1, <2>3, <3>1 DEF ConnectionUses, Taken
  <2>4. CASE c.type = "zalo_user"
    <3>1. c.key \in t.exclusive
      BY <2>4, RecordedParts
    <3> QED
      BY <1>5, <2>1, <2>4, <3>1 DEF ConnectionUses, Taken
  <2>5. CASE c.type \in Meta
    <3>1. {c.key, c.hook} \subseteq t.meta
      BY <2>5, RecordedParts
    <3> QED
      BY <1>5, <2>1, <2>5, <3>1 DEF ConnectionUses, Taken, Meta
  <2> QED
    BY <1>2, <2>2, <2>3, <2>4, <2>5 DEF Meta
<1>6. ASSUME NEW a \in t.apps
      PROVE  {<<a.key, <<"app", a.app>>>>, <<a.hook, <<"app", a.app>>>>} \subseteq ListUses(list) \cup new
  <2>1. CASE a \in seen.apps
    BY <2>1 DEF Registered
  <2>2. CASE a \notin seen.apps
    <3>1. c.type \in Meta /\ a = [app |-> c.app, key |-> c.key, hook |-> c.hook]
      BY <1>6, <2>2, RecordedParts
    <3> QED
      BY <3>1 DEF ConnectionUses, Meta
  <2> QED
    BY <2>1, <2>2
<1> QED
  BY <1>1, <1>4, <1>5, <1>6 DEF Registered

-----------------------------------------------------------------------------
(* The steps of the loader.                                                *)

LEMMA ConnectionStep == LoaderInv /\ ReadConnection => LoaderInv'
<1> SUFFICES ASSUME LoaderInv, phase = "connections",
                    NEW c \in NextConnections(document.connections),
                    document' = [document EXCEPT !.connections = Append(@, c)],
                    IF Len(document.connections) = MaxConnections \/ RefusesConnection(c, seen)
                    THEN phase' = "refused" /\ UNCHANGED seen
                    ELSE phase' = phase /\ seen' = Recorded(c, seen)
             PROVE  LoaderInv'
  BY DEF ReadConnection
<1> DEFINE list == document.connections
<1>1. /\ document'.connections = Append(list, c)
      /\ document'.inboxes = <<>> /\ document'.dashboard = NoDashboard
      /\ document' = [connections |-> document'.connections, inboxes |-> document'.inboxes,
                      dashboard |-> document'.dashboard]
  BY DEF LoaderInv, Shape
<1>2. IsList(Append(list, c)) /\ IsList(<<>>)
  BY AppendList, NoUses DEF LoaderInv
<1>3. Shape'
  <2>1. seen' = seen \/ seen' = Recorded(c, seen)
    OBVIOUS
  <2>2. seen' = [f \in Registries |-> seen'[f]]
    BY <2>1, RecordedParts, ZenonT(40) DEF LoaderInv, Shape
  <2> QED
    BY <1>1, <2>2 DEF Shape
<1>4. CASE phase' = "refused"
  BY <1>1, <1>2, <1>3, <1>4 DEF LoaderInv, CredentialsSeparated
<1>5. CASE phase' = "connections" /\ seen' = Recorded(c, seen)
           /\ ~RefusesConnection(c, seen)
  <2>1. WellFormed(c) /\ ~Collides(c, seen)
    BY <1>5 DEF RefusesConnection
  <2>2. Registered(list, seen) /\ IsList(list) /\ Shape
    BY DEF LoaderInv
  <2>3. Registered(Append(list, c), seen')
    BY <1>5, <2>1, <2>2, EntryRegistered
  <2>4. Uses(document) = ListUses(list)
    BY NoUses, UsesByPart DEF LoaderInv
  <2>5. Separated(ListUses(list))
    BY <2>4 DEF LoaderInv, CredentialsSeparated
  <2>6. Separated(ListUses(list) \cup ConnectionUses(Len(list) + 1, c))
    BY <2>1, <2>2, <2>5, EntrySeparated, EntryApart, SeparatedUnion
  <2>7. Uses(document') = ListUses(list) \cup ConnectionUses(Len(list) + 1, c)
    BY <1>1, <2>2, NoUses, ConnectionAdds, UsesByPart
  <2>8. Separated(Uses(document'))
    BY <2>6, <2>7
  <2> QED
    BY <1>1, <1>2, <1>3, <1>5, <2>3, <2>8, NoUses DEF LoaderInv, CredentialsSeparated
<1> QED
  BY <1>4, <1>5

LEMMA InboxStep == LoaderInv /\ ReadInbox => LoaderInv'
<1> SUFFICES ASSUME LoaderInv, phase = "inboxes",
                    NEW b \in NextInboxes(document),
                    document' = [document EXCEPT !.inboxes = Append(@, b)],
                    IF Len(document.inboxes) = MaxInboxes \/ RefusesInbox(b, seen)
                    THEN phase' = "refused" /\ UNCHANGED seen
                    ELSE /\ phase' = phase
                         /\ seen' = [seen EXCEPT !.inboxes = @ \cup {b.id},
                                                 !.tokens = @ \cup {b.token}]
             PROVE  LoaderInv'
  BY DEF ReadInbox
<1> DEFINE list == document.inboxes
           new == {<<b.token, <<"inbox", Len(list) + 1>>>>}
<1>1. /\ document'.inboxes = Append(list, b)
      /\ document'.connections = document.connections
      /\ document'.dashboard = NoDashboard
      /\ document' = [connections |-> document'.connections, inboxes |-> document'.inboxes,
                      dashboard |-> document'.dashboard]
  BY DEF LoaderInv, Shape
<1>2. IsList(Append(list, b)) /\ IsList(document.connections)
  BY AppendList DEF LoaderInv
<1>3. Shape'
  BY <1>1 DEF LoaderInv, Shape
<1>4. CASE phase' = "refused"
  BY <1>1, <1>2, <1>3, <1>4 DEF LoaderInv, CredentialsSeparated
<1>5. CASE /\ phase' = "inboxes" /\ ~RefusesInbox(b, seen)
           /\ seen' = [seen EXCEPT !.inboxes = @ \cup {b.id}, !.tokens = @ \cup {b.token}]
  <2>1. b.token \notin seen.tokens /\ b.token \notin Taken(seen)
    BY <1>5 DEF RefusesInbox
  <2>2. /\ Registered(document.connections, seen)
        /\ \A u \in InboxUses(list) : u[1] \in seen.tokens
    BY DEF LoaderInv
  <2>3. /\ seen'.exclusive = seen.exclusive /\ seen'.oa = seen.oa /\ seen'.meta = seen.meta
        /\ seen'.apps = seen.apps /\ seen'.tokens = seen.tokens \cup {b.token}
    BY <1>5 DEF LoaderInv, Shape
  <2>4. Registered(document.connections, seen')
    BY <2>2, <2>3 DEF Registered, Taken
  <2>5. InboxUses(Append(list, b)) = InboxUses(list) \cup new
    BY InboxAdds DEF LoaderInv
  <2>6. \A u \in InboxUses(Append(list, b)) : u[1] \in seen'.tokens
    BY <2>2, <2>3, <2>5
  <2>7. Uses(document) = ListUses(document.connections) \cup InboxUses(list)
    BY NoUses, UsesByPart DEF LoaderInv
  <2>8. Uses(document') = Uses(document) \cup new
    BY <1>1, <2>5, <2>7, NoUses, UsesByPart
  <2>9. \A u \in Uses(document) : u[1] # b.token
    BY <2>1, <2>2, <2>7 DEF Registered
  <2>10. Separated(Uses(document)) /\ Separated(new)
    BY DEF LoaderInv, CredentialsSeparated, Separated
  <2>11. Separated(Uses(document'))
    BY <2>8, <2>9, <2>10 DEF Separated
  <2> QED
    BY <1>1, <1>2, <1>3, <1>5, <2>4, <2>6, <2>11 DEF LoaderInv, CredentialsSeparated
<1> QED
  BY <1>4, <1>5

LEMMA DashboardStep == LoaderInv /\ ReadDashboard => LoaderInv'
<1> SUFFICES ASSUME LoaderInv, phase = "dashboard", NEW d \in NextDashboards(document),
                    document' = [document EXCEPT !.dashboard = d], UNCHANGED seen,
                    phase' = IF RefusesDashboard(d, seen) THEN "refused" ELSE "accepted"
             PROVE  LoaderInv'
  BY DEF ReadDashboard
<1>1. /\ document'.inboxes = document.inboxes
      /\ document'.connections = document.connections
      /\ document'.dashboard = d
      /\ document' = [connections |-> document'.connections, inboxes |-> document'.inboxes,
                      dashboard |-> document'.dashboard]
  BY DEF LoaderInv, Shape
<1>2. Shape'
  BY <1>1 DEF LoaderInv, Shape
<1>3. CASE phase' = "refused"
  BY <1>1, <1>2, <1>3 DEF LoaderInv, CredentialsSeparated
<1>4. CASE phase' = "accepted" /\ ~RefusesDashboard(d, seen)
  <2>1. /\ Distinct(d.keys) /\ d.pepper \notin Members(d.keys)
        /\ (Members(d.keys) \cup {d.pepper}) \cap (Taken(seen) \cup seen.tokens) = {}
    BY <1>4 DEF RefusesDashboard, DashboardSecretsTaken
  <2>2. Uses(document) = ListUses(document.connections) \cup InboxUses(document.inboxes)
    BY NoUses, UsesByPart DEF LoaderInv
  <2>3. \A u \in Uses(document) : u[1] \in Taken(seen) \cup seen.tokens
    BY <2>2 DEF LoaderInv, Registered
  <2>4. Uses(document') = Uses(document) \cup DashboardUses(d)
    BY <1>1, <2>2, UsesByPart
  <2>5. \A v \in DashboardUses(d) : v[1] \in Members(d.keys) \cup {d.pepper}
    BY DEF DashboardUses, Members
  <2>6. Separated(DashboardUses(d))
    BY <2>1 DEF DashboardUses, Members, Distinct, Separated
  <2>7. Separated(Uses(document))
    BY DEF LoaderInv, CredentialsSeparated
  <2>8. Separated(Uses(document'))
    BY <2>1, <2>3, <2>4, <2>5, <2>6, <2>7, SeparatedUnion
  <2> QED
    BY <1>1, <1>2, <1>4, <2>8 DEF LoaderInv, CredentialsSeparated
<1> QED
  BY <1>3, <1>4

LEMMA LoaderStep == LoaderInv /\ [LoaderNext]_loaderVars => LoaderInv'
<1> SUFFICES ASSUME LoaderInv, [LoaderNext]_loaderVars PROVE LoaderInv'
  OBVIOUS
<1>1. CASE EndConnections \/ EndInboxes \/ NoDashboardGiven \/ UNCHANGED loaderVars
  <2>1. UNCHANGED <<document, seen>>
    BY <1>1 DEF EndConnections, EndInboxes, NoDashboardGiven, loaderVars
  <2>2. \/ phase' = phase
        \/ phase = "connections" /\ phase' \in {"refused", "inboxes"}
        \/ phase = "inboxes" /\ phase' = "dashboard"
        \/ phase = "dashboard" /\ phase' = "accepted"
    BY <1>1 DEF EndConnections, EndInboxes, NoDashboardGiven, loaderVars
  <2> QED
    BY <2>1, <2>2 DEF LoaderInv, Shape, CredentialsSeparated
<1> QED
  BY <1>1, ConnectionStep, InboxStep, DashboardStep DEF LoaderNext

\* In every document the loader accepts, of any length and with any secrets, a
\* secret has one role: nobody's bearer, webhook secret, App secret or cookie key is
\* taken for another, although each is compared only with a part of those before it.
THEOREM SeparatedCredentials == LoaderSpec => []CredentialsSeparated
<1>1. LoaderInv => CredentialsSeparated
  BY DEF LoaderInv
<1> QED
  BY <1>1, LoaderStart, LoaderStep, PTL DEF LoaderSpec

-----------------------------------------------------------------------------
(* Addresses.                                                              *)

\* The blocks as ranges of numbers.
Ranges ==
  {<<0, 65535>>, <<655360, 720895>>, <<6569984, 6586367>>, <<8323072, 8388607>>,
   <<11140608, 11140863>>, <<11276288, 11280383>>, <<12582912, 12582912>>, <<12582914, 12582914>>,
   <<12625920, 12626175>>, <<12980736, 12981247>>, <<12989284, 12989284>>, <<13303921, 13303921>>,
   <<14680064, 16777215>>}

\* An address that passes the octet tests is in none of the reserved blocks.
LEMMA PublicAddresses ==
  ASSUME NEW o \in [1..3 -> 0..255], PublicIpv4(o)
  PROVE  \A block \in Reserved : Prefix(o) \notin Prefix(block[1])..Prefix(block[2])
<1> DEFINE a == o[1]  b == o[2]  c == o[3]
<1>1. a \in 0..255 /\ b \in 0..255 /\ c \in 0..255
  OBVIOUS
<1>2. Prefix(o) = (a * 256 + b) * 256 + c
  BY DEF Prefix
<1>3. SUFFICES ASSUME NEW block \in Reserved,
                      Prefix(o) \in Prefix(block[1])..Prefix(block[2])
               PROVE  FALSE
  OBVIOUS
<1>4. /\ Prefix(block[1]) <= (a * 256 + b) * 256 + c
      /\ (a * 256 + b) * 256 + c <= Prefix(block[2])
  BY <1>2, <1>3, <1>1 DEF Reserved, Prefix
<1>5. PICK lo \in Nat, hi \in Nat :
        /\ <<lo, hi>> \in Ranges /\ lo <= (a * 256 + b) * 256 + c /\ (a * 256 + b) * 256 + c <= hi
  BY <1>4 DEF Reserved, Prefix, Ranges
<1>6. /\ a \notin {0, 10, 127} /\ a < 224
      /\ a = 100 => b \notin 64..127
      /\ a = 169 => b # 254
      /\ a = 172 => b \notin 16..31
      /\ a = 192 => b # 168 /\ ~(b = 0 /\ c \in {0, 2})
      /\ a = 198 => b \notin {18, 19, 51}
      /\ a = 203 => ~(b = 0 /\ c = 113)
  BY DEF PublicIpv4
<1> HIDE DEF a, b, c
<1> QED
  BY <1>1, <1>5, <1>6 DEF Ranges

\* The literal of a URL, if it is one, lies outside the reserved blocks.
PublicLiteral(c) ==
  c.url.host.octets # <<>> =>
    \A block \in Reserved :
      Prefix(c.url.host.octets) \notin Prefix(block[1])..Prefix(block[2])

\* The entries offered to the loader have octets for octets.
OctetsAreBytes ==
  \A list : \A c \in NextConnections(list) :
    c.url.host.octets # <<>> => c.url.host.octets \in [1..3 -> 0..255]

UrlsInv ==
  phase # "refused" =>
    \A i \in 1..Len(document.connections) : PublicLiteral(document.connections[i])

LEMMA UrlsStep ==
  OctetsAreBytes /\ LoaderInv /\ UrlsInv /\ [LoaderNext]_loaderVars => UrlsInv'
<1> SUFFICES ASSUME OctetsAreBytes, LoaderInv, UrlsInv, [LoaderNext]_loaderVars,
                    phase' # "refused"
             PROVE  \A i \in 1..Len(document'.connections) :
                      PublicLiteral(document'.connections[i])
  BY DEF UrlsInv
<1> DEFINE list == document.connections
<1>1. CASE ReadConnection
  <2>1. PICK c \in NextConnections(list) :
          /\ document' = [document EXCEPT !.connections = Append(@, c)]
          /\ phase = "connections" /\ ~RefusesConnection(c, seen)
    BY <1>1 DEF ReadConnection
  <2>2. document'.connections = Append(list, c) /\ IsList(list)
    BY <2>1 DEF LoaderInv, Shape
  <2>3. ValidUrl(c)
    BY <2>1 DEF RefusesConnection, WellFormed
  <2>4. PublicLiteral(c)
    <3>1. SUFFICES ASSUME c.url.host.octets # <<>> PROVE PublicLiteral(c)
      BY DEF PublicLiteral
    <3>2. c.url # NoUrl
      BY <3>1 DEF NoUrl
    <3>3. PublicIpv4(c.url.host.octets)
      BY <2>3, <3>1, <3>2 DEF ValidUrl, PublicHostname
    <3>4. c.url.host.octets \in [1..3 -> 0..255]
      BY <2>1, <3>1 DEF OctetsAreBytes
    <3> QED
      BY <3>3, <3>4, PublicAddresses DEF PublicLiteral
  <2>5. \A i \in 1..Len(list) : PublicLiteral(list[i])
    BY <2>1 DEF UrlsInv
  <2>6. /\ Len(Append(list, c)) = Len(list) + 1 /\ Len(list) \in Nat
        /\ \A i \in 1..Len(list) : Append(list, c)[i] = list[i]
        /\ Append(list, c)[Len(list) + 1] = c
    BY <2>2, AppendList DEF IsList
  <2>7. 1..(Len(list) + 1) = 1..Len(list) \cup {Len(list) + 1}
    BY <2>6
  <2> QED
    BY <2>2, <2>4, <2>5, <2>6, <2>7
<1>2. CASE ~ReadConnection
  <2>1. document'.connections = document.connections /\ phase # "refused"
    BY <1>2 DEF LoaderNext, EndConnections, ReadInbox, EndInboxes, ReadDashboard,
       NoDashboardGiven, loaderVars, LoaderInv, Shape
  <2> QED
    BY <2>1 DEF UrlsInv
<1> QED
  BY <1>1, <1>2

\* No connection the loader accepts has a webhook at a reserved address, for all
\* addresses and not only those beside the boundaries of the blocks.
THEOREM PublicUrls ==
  ASSUME OctetsAreBytes
  PROVE  LoaderSpec => []AcceptedUrlsArePublic
<1>1. LoaderInit => UrlsInv
  BY DEF LoaderInit, UrlsInv
<1>2. LoaderInv /\ UrlsInv /\ [LoaderNext]_loaderVars => UrlsInv'
  BY UrlsStep
<1>3. UrlsInv => AcceptedUrlsArePublic
  BY DEF UrlsInv, AcceptedUrlsArePublic, PublicLiteral, Members
<1> QED
  BY <1>1, <1>2, <1>3, LoaderStart, LoaderStep, PTL DEF LoaderSpec

-----------------------------------------------------------------------------
(* The verdict: what the registries know of the entries, exactly.          *)

LEMMA MembersAppend ==
  ASSUME NEW l, NEW e, IsList(l)
  PROVE  Members(Append(l, e)) = Members(l) \cup {e}
<1>1. /\ Len(Append(l, e)) = Len(l) + 1 /\ Len(l) \in Nat
      /\ \A i \in 1..Len(l) : Append(l, e)[i] = l[i]
      /\ Append(l, e)[Len(l) + 1] = e
  BY AppendList DEF IsList
<1>2. 1..(Len(l) + 1) = 1..Len(l) \cup {Len(l) + 1}
  BY <1>1
<1> QED
  BY <1>1, <1>2 DEF Members

\* A list has as many members in K as it is long if they are in K and none comes twice.
LEMMA ListCounts ==
  ASSUME NEW l, NEW K, IsList(l)
  PROVE  /\ IsFiniteSet(Members(l)) /\ Cardinality(Members(l)) <= Len(l)
         /\ Len(l) = Cardinality(Members(l) \cap K) <=> Distinct(l) /\ Members(l) \subseteq K
<1> DEFINE n == Len(l)
           M == Members(l)
<1>1. n \in Nat /\ l \in Surjection(1..n, M)
  BY DEF IsList, Surjection, Members
<1>2. IsFiniteSet(1..n) /\ Cardinality(1..n) = n
  BY <1>1, FS_Interval
<1>3. IsFiniteSet(M) /\ Cardinality(M) <= n /\ (Cardinality(M) = n <=> l \in Injection(1..n, M))
  BY <1>1, <1>2, FS_Surjection
<1>4. l \in Injection(1..n, M) <=> Distinct(l)
  BY <1>1 DEF Injection, IsInjective, Distinct, Surjection
<1>5. /\ IsFiniteSet(M \cap K) /\ Cardinality(M \cap K) <= Cardinality(M)
      /\ Cardinality(M) = Cardinality(M \cap K) => M = M \cap K
  BY <1>3, FS_Subset
<1>6. Cardinality(M) \in Nat /\ Cardinality(M \cap K) \in Nat
  BY <1>3, <1>5, FS_CardinalityType
<1>7. CASE M \subseteq K
  <2>1. M \cap K = M
    BY <1>7
  <2> QED
    BY <1>3, <1>4, <1>7, <2>1
<1>8. CASE ~(M \subseteq K)
  <2>1. Cardinality(M) # Cardinality(M \cap K)
    BY <1>5, <1>8
  <2> QED
    BY <1>1, <1>3, <1>5, <1>6, <1>8, <2>1
<1> QED
  BY <1>3, <1>7, <1>8

Metas(M) == {c \in M : c.type \in Meta}

\* Names: each registry holds those of the entries it is about.
Named(M, s) ==
  /\ s.ids = {c.id : c \in M}
  /\ s.accounts = {Account(c) : c \in {d \in M : d.type # "telegram_bot"}}
  /\ s.wabas = {<<c.waba, c.app>> : c \in {d \in M : d.type = "whatsapp_business"}}
  /\ s.apps = {[app |-> c.app, key |-> c.key, hook |-> c.hook] : c \in Metas(M)}
  /\ s.channels = {<<c.app, c.type>> : c \in Metas(M)}
  /\ s.urls = {<<c.app, c.url>> : c \in {d \in Metas(M) : d.url # NoUrl}}

\* Roles of a single connection.
Own == {"operator", "bot", "hook", "bridge"}

\* Secrets: what is in a registry some entry uses, in a role of that registry.
InUse(list, s) ==
  /\ \A x \in s.exclusive : \E u \in ListUses(list) : u[1] = x /\ u[2][1] \in Own
  /\ \A x \in s.oa : <<x, <<"oa", 0>>>> \in ListUses(list)
  /\ \A x \in s.meta : \E c \in Metas(Members(list)) : <<x, <<"app", c.app>>>> \in ListUses(list)

\* The other registries after an entry.
LEMMA RecordedNames ==
  ASSUME NEW c, Shape
  PROVE  LET t == Recorded(c, seen) IN
         /\ t.ids = seen.ids \cup {c.id}
         /\ t.accounts = IF c.type = "telegram_bot" THEN seen.accounts
                         ELSE seen.accounts \cup {Account(c)}
         /\ t.wabas = IF c.type = "whatsapp_business" THEN seen.wabas \cup {<<c.waba, c.app>>}
                      ELSE seen.wabas
         /\ t.channels = IF c.type \in Meta THEN seen.channels \cup {<<c.app, c.type>>}
                         ELSE seen.channels
         /\ t.urls = IF c.type \in Meta /\ c.url # NoUrl THEN seen.urls \cup {<<c.app, c.url>>}
                     ELSE seen.urls
         /\ t.inboxes = seen.inboxes
BY ZenonT(60) DEF Shape, Recorded, Registries

LEMMA NamesGrow ==
  ASSUME NEW M, NEW c, Shape, Named(M, seen)
  PROVE  Named(M \cup {c}, Recorded(c, seen))
<1> DEFINE t == Recorded(c, seen)
           N == M \cup {c}
<1>1. /\ t.ids = seen.ids \cup {c.id}
      /\ t.accounts = IF c.type = "telegram_bot" THEN seen.accounts
                      ELSE seen.accounts \cup {Account(c)}
      /\ t.wabas = IF c.type = "whatsapp_business" THEN seen.wabas \cup {<<c.waba, c.app>>}
                   ELSE seen.wabas
  BY RecordedNames
<1>2. /\ t.channels = IF c.type \in Meta THEN seen.channels \cup {<<c.app, c.type>>}
                      ELSE seen.channels
      /\ t.urls = IF c.type \in Meta /\ c.url # NoUrl THEN seen.urls \cup {<<c.app, c.url>>}
                  ELSE seen.urls
      /\ t.apps = IF c.type \in Meta
                  THEN seen.apps \cup {[app |-> c.app, key |-> c.key, hook |-> c.hook]}
                  ELSE seen.apps
  BY RecordedNames, RecordedParts
<1> HIDE DEF t
<1>3. t.ids = {d.id : d \in N}
  BY <1>1 DEF Named
<1>4. t.accounts = {Account(d) : d \in {e \in N : e.type # "telegram_bot"}}
  BY <1>1 DEF Named
<1>5. t.wabas = {<<d.waba, d.app>> : d \in {e \in N : e.type = "whatsapp_business"}}
  BY <1>1 DEF Named
<1>6. t.apps = {[app |-> d.app, key |-> d.key, hook |-> d.hook] : d \in Metas(N)}
  BY <1>2 DEF Named, Metas
<1>7. t.channels = {<<d.app, d.type>> : d \in Metas(N)}
  BY <1>2 DEF Named, Metas
<1>8. t.urls = {<<d.app, d.url>> : d \in {e \in Metas(N) : e.url # NoUrl}}
  BY <1>2 DEF Named, Metas
<1>9. Named(N, t)
  BY <1>3, <1>4, <1>5, <1>6, <1>7, <1>8 DEF Named
<1> QED
  BY <1>9 DEF t

LEMMA UseGrows ==
  ASSUME NEW c, Shape, IsList(document.connections), InUse(document.connections, seen)
  PROVE  InUse(Append(document.connections, c), Recorded(c, seen))
<1> DEFINE list == document.connections
           t == Recorded(c, seen)
           new == ConnectionUses(Len(list) + 1, c)
<1>1. /\ ListUses(Append(list, c)) = ListUses(list) \cup new
      /\ Metas(Members(list)) \subseteq Metas(Members(Append(list, c)))
      /\ c.type \in Meta => c \in Metas(Members(Append(list, c)))
  BY ConnectionAdds, MembersAppend DEF Metas
<1>2. ASSUME NEW x \in t.exclusive
      PROVE  \E u \in ListUses(list) \cup new : u[1] = x /\ u[2][1] \in Own
  <2>1. CASE x \in seen.exclusive
    BY <2>1 DEF InUse
  <2>2. CASE x = c.operator
    <3>1. <<x, <<"operator", Len(list) + 1>>>> \in new
      BY <2>2 DEF ConnectionUses
    <3> QED
      BY <3>1 DEF Own
  <2>3. CASE c.type = "telegram_bot" /\ x \in {c.key, c.hook}
    <3>1. {<<c.key, <<"bot", Len(list) + 1>>>>, <<c.hook, <<"hook", Len(list) + 1>>>>} \subseteq new
      BY <2>3 DEF ConnectionUses
    <3> QED
      BY <2>3, <3>1 DEF Own
  <2>4. CASE c.type = "zalo_user" /\ x = c.key
    <3>1. <<x, <<"bridge", Len(list) + 1>>>> \in new
      BY <2>4 DEF ConnectionUses
    <3> QED
      BY <3>1 DEF Own
  <2>5. \/ x \in seen.exclusive \/ x = c.operator
        \/ c.type = "telegram_bot" /\ x \in {c.key, c.hook}
        \/ c.type = "zalo_user" /\ x = c.key
    BY <1>2, RecordedParts, ZenonT(40)
  <2> HIDE DEF list, t, new
  <2> QED
    BY <2>1, <2>2, <2>3, <2>4, <2>5
<1>3. ASSUME NEW x \in t.oa
      PROVE  <<x, <<"oa", 0>>>> \in ListUses(list) \cup new
  <2>1. CASE x \in seen.oa
    BY <2>1 DEF InUse
  <2>2. CASE c.type = "zalo_oa" /\ x = c.key
    BY <2>2 DEF ConnectionUses
  <2>3. t.oa = IF c.type = "zalo_oa" THEN seen.oa \cup {c.key} ELSE seen.oa
    BY RecordedParts
  <2> QED
    BY <1>3, <2>1, <2>2, <2>3
<1>4. ASSUME NEW x \in t.meta
      PROVE  \E d \in Metas(Members(Append(list, c))) : <<x, <<"app", d.app>>>> \in ListUses(list) \cup new
  <2>1. CASE x \in seen.meta
    BY <1>1, <2>1 DEF InUse
  <2>2. CASE c.type \in Meta /\ x \in {c.key, c.hook}
    <3>1. <<x, <<"app", c.app>>>> \in new
      BY <2>2 DEF ConnectionUses, Meta
    <3> QED
      BY <1>1, <2>2, <3>1
  <2> QED
    BY <1>4, <2>1, <2>2, RecordedParts
<1> QED
  BY <1>1, <1>2, <1>3, <1>4 DEF InUse

-----------------------------------------------------------------------------
(* Connections.                                                            *)

\* Entries without an offence, but for Apps that are split.
Fitting(list) ==
  /\ Len(list) <= MaxConnections
  /\ \A c \in Members(list) : WellFormed(c)
  /\ \A i, j \in 1..Len(list) : i # j => ~Clash(list[i], list[j])

LEMMA EntryTypes ==
  ASSUME NEW c, WellFormed(c)
  PROVE  c.type \in {"telegram_bot", "zalo_oa", "zalo_user", "facebook_page", "whatsapp_business"}
BY DEF WellFormed, TelegramBot, ZaloOa, ZaloUser, FacebookPage, WhatsAppBusiness

\* An account is of a type.
LEMMA AccountType ==
  ASSUME NEW c, NEW d, Account(c) = Account(d) PROVE c.type = d.type
BY DEF Account

LEMMA OneAppSecrets ==
  ASSUME NEW list, Fitting(list), NEW c \in Metas(Members(list)), NEW d \in Metas(Members(list)),
         c.app = d.app
  PROVE  c.key = d.key /\ c.hook = d.hook
<1>1. PICK i \in 1..Len(list), j \in 1..Len(list) : c = list[i] /\ d = list[j]
  BY DEF Metas, Members
<1>2. CASE i = j
  BY <1>1, <1>2
<1>3. CASE i # j
  BY <1>1, <1>3 DEF Fitting, Clash, Metas
<1> QED
  BY <1>2, <1>3

\* An entry that was not refused clashes with none before it.
LEMMA NoClash ==
  ASSUME NEW list, NEW c, NEW d \in Members(list), Fitting(list),
         Named(Members(list), seen), ~RefusesConnection(c, seen)
  PROVE  ~Clash(c, d) /\ ~Clash(d, c)
<1>1. c.id # d.id
  BY DEF RefusesConnection, Named
<1>2. ASSUME Account(c) = Account(d), c.type # "telegram_bot" \/ d.type # "telegram_bot"
      PROVE  FALSE
  <2>1. c.type # "telegram_bot" /\ d.type # "telegram_bot"
    BY <1>2, AccountType
  <2>2. Account(d) \in seen.accounts
    BY <2>1 DEF Named
  <2> QED
    BY <1>2, <2>1, <2>2 DEF RefusesConnection
<1>3. ASSUME c.type \in Meta, d.type \in Meta, c.app = d.app
      PROVE  c.key = d.key /\ c.hook = d.hook
  <2>1. d \in Metas(Members(list))
    BY <1>3 DEF Metas
  <2>2. [app |-> d.app, key |-> d.key, hook |-> d.hook] \in seen.apps
    BY <2>1 DEF Named
  <2>3. KnownApp(c, seen)
    BY <1>3, <2>2 DEF KnownApp
  <2>4. SameApp(c, seen)
    BY <1>3, <2>3 DEF RefusesConnection, Collides, Meta
  <2>5. PICK e \in Metas(Members(list)) :
          [app |-> c.app, key |-> c.key, hook |-> c.hook] = [app |-> e.app, key |-> e.key, hook |-> e.hook]
    BY <2>4 DEF SameApp, Named
  <2>6. c.app = e.app /\ c.key = e.key /\ c.hook = e.hook
    BY <2>5
  <2> QED
    BY <1>3, <2>1, <2>6, OneAppSecrets
<1>4. ASSUME c.type = "whatsapp_business", d.type = c.type, c.waba = d.waba
      PROVE  c.app = d.app
  <2>1. <<d.waba, d.app>> \in seen.wabas
    BY <1>4 DEF Named
  <2> QED
    BY <1>4, <2>1 DEF RefusesConnection, WabaMoves
<1> QED
  BY <1>1, <1>2, <1>3, <1>4 DEF Clash

LEMMA EntryFits ==
  ASSUME NEW list, NEW c, IsList(list), Fitting(list), Named(Members(list), seen),
         Len(list) # MaxConnections, ~RefusesConnection(c, seen)
  PROVE  Fitting(Append(list, c))
<1> DEFINE new == Append(list, c)
<1>1. /\ Len(new) = Len(list) + 1 /\ Len(list) \in Nat
      /\ \A i \in 1..Len(list) : new[i] = list[i]
      /\ new[Len(list) + 1] = c
  BY AppendList DEF IsList
<1>2. Len(new) <= MaxConnections
  BY <1>1, LoaderAssumption DEF Fitting
<1>3. \A d \in Members(new) : WellFormed(d)
  BY MembersAppend DEF Fitting, RefusesConnection
<1>4. ASSUME NEW i \in 1..Len(new), NEW j \in 1..Len(new), i # j
      PROVE  ~Clash(new[i], new[j])
  <2>1. CASE i \in 1..Len(list) /\ j \in 1..Len(list)
    BY <1>1, <1>4, <2>1 DEF Fitting
  <2>2. CASE i \in 1..Len(list) /\ j = Len(list) + 1
    <3>1. list[i] \in Members(list)
      BY <2>2 DEF Members
    <3> QED
      BY <1>1, <2>2, <3>1, NoClash
  <2>3. CASE i = Len(list) + 1 /\ j \in 1..Len(list)
    <3>1. list[j] \in Members(list)
      BY <2>3 DEF Members
    <3> QED
      BY <1>1, <2>3, <3>1, NoClash
  <2> QED
    BY <1>1, <1>4, <2>1, <2>2, <2>3
<1> QED
  BY <1>2, <1>3, <1>4 DEF Fitting

\* The place of a role in a list of connections.
LEMMA RolePlaces ==
  ASSUME NEW list, IsList(list), NEW u \in ListUses(list)
  PROVE  u[2][1] \in {"oa", "app"} \/ (u[2][1] \in Own /\ u[2][2] \in 1..Len(list))
<1>1. PICK i \in 1..Len(list) : u \in ConnectionUses(i, list[i])
  BY DEF ListUses
<1> QED
  BY <1>1 DEF ConnectionUses, Own

\* A value of a registry is used, in a role of its own or of OAs or of a known App.
LEMMA TakenUse ==
  ASSUME NEW list, InUse(list, seen), NEW x \in Taken(seen)
  PROVE  \E u \in ListUses(list) :
           /\ u[1] = x
           /\ \/ u[2][1] \in Own
              \/ u[2] = <<"oa", 0>>
              \/ \E c \in Metas(Members(list)) : u[2] = <<"app", c.app>>
<1>1. CASE x \in seen.exclusive
  BY <1>1 DEF InUse
<1>2. CASE x \in seen.oa
  BY <1>2 DEF InUse
<1>3. CASE x \in seen.meta
  BY <1>3 DEF InUse
<1> QED
  BY <1>1, <1>2, <1>3 DEF Taken

\* Two uses of a value in different roles.
Twice(uses, x) == \E u, v \in uses : u[1] = x /\ v[1] = x /\ u[2] # v[2]

LEMMA TwiceOffends == ASSUME NEW uses, NEW x, Twice(uses, x) PROVE ~Separated(uses)
BY DEF Twice, Separated

\* A secret that is taken is then used in two roles, or clashes with that of its App.
LEMMA CollisionOffends ==
  ASSUME NEW list, NEW c, IsList(list), WellFormed(c),
         Named(Members(list), seen), InUse(list, seen), Collides(c, seen)
  PROVE  \/ ~Separated(ListUses(Append(list, c)))
         \/ \E d \in Members(list) : Clash(c, d)
<1> DEFINE n == Len(list) + 1
           uses == ListUses(list)
           new == ConnectionUses(n, c)
           Offending == \E x : Twice(uses \cup new, x)
<1>1. ListUses(Append(list, c)) = uses \cup new
  BY ConnectionAdds
<1>2. n \in Nat /\ n # 0 /\ \A u \in uses : \A kind \in Own : u[2] # <<kind, n>>
  BY RolePlaces DEF IsList, Own
<1>3. SUFFICES ASSUME \A d \in Members(list) : ~Clash(c, d)
               PROVE  Offending
  BY <1>1, TwiceOffends
<1>4. <<c.operator, <<"operator", n>>>> \in new
  BY DEF ConnectionUses
<1>5. \A x \in Taken(seen) : \A kind \in Own : <<x, <<kind, n>>>> \in new => Offending
  <2>1. SUFFICES ASSUME NEW x \in Taken(seen), NEW kind \in Own, <<x, <<kind, n>>>> \in new
                 PROVE  Twice(uses \cup new, x)
    OBVIOUS
  <2>2. PICK u \in uses : u[1] = x
    BY TakenUse
  <2>3. u[2] # <<kind, n>>
    BY <1>2, <2>2
  <2> QED
    BY <2>1, <2>2, <2>3 DEF Twice
<1>6. \A x, role, other :
        <<x, role>> \in uses \cup new /\ <<x, other>> \in uses \cup new /\ role # other => Offending
  BY DEF Twice
<1> HIDE DEF Offending
<1>7. CASE c.operator \in Taken(seen)
  BY <1>4, <1>5, <1>7 DEF Own
<1> DEFINE taken == Taken(seen) \cup {c.operator}
<1>8. CASE c.type = "telegram_bot" /\ (c.key \in taken \/ c.hook \in taken \cup {c.key})
  <2>1. {<<c.key, <<"bot", n>>>>, <<c.hook, <<"hook", n>>>>} \subseteq new
    BY <1>8 DEF ConnectionUses
  <2>2. CASE c.key \in Taken(seen) \/ c.hook \in Taken(seen)
    BY <1>5, <2>1, <2>2 DEF Own
  <2>3. CASE c.key = c.operator \/ c.hook = c.operator \/ c.hook = c.key
    BY <1>4, <1>6, <2>1, <2>3
  <2> QED
    BY <1>8, <2>2, <2>3
<1>9. CASE c.type = "zalo_oa" /\ c.key \in seen.exclusive \cup {c.operator} \cup seen.meta
  <2>1. <<c.key, <<"oa", 0>>>> \in new
    BY <1>9 DEF ConnectionUses
  <2>2. CASE c.key \in seen.exclusive
    <3>1. PICK u \in uses : u[1] = c.key /\ u[2][1] \in Own
      BY <2>2 DEF InUse
    <3>2. u \in uses \cup new /\ u[2] # <<"oa", 0>>
      BY <3>1 DEF Own
    <3> QED
      BY <2>1, <3>1, <3>2 DEF Offending, Twice
  <2>3. CASE c.key = c.operator
    BY <1>4, <1>6, <2>1, <2>3
  <2>4. CASE c.key \in seen.meta
    <3>1. PICK d \in Metas(Members(list)) : <<c.key, <<"app", d.app>>>> \in uses
      BY <2>4 DEF InUse
    <3>2. <<"oa", 0>> # <<"app", d.app>>
      OBVIOUS
    <3> QED
      BY <1>6, <2>1, <3>1, <3>2
  <2> QED
    BY <1>9, <2>2, <2>3, <2>4
<1>10. CASE c.type = "zalo_user" /\ c.key \in taken
  <2>1. <<c.key, <<"bridge", n>>>> \in new
    BY <1>10 DEF ConnectionUses
  <2> QED
    BY <1>4, <1>5, <1>6, <1>10, <2>1 DEF Own
<1>11. CASE c.type \in Meta /\ KnownApp(c, seen) /\ ~SameApp(c, seen)
  <2>1. PICK a \in seen.apps : a.app = c.app
    BY <1>11 DEF KnownApp
  <2>2. PICK d \in Metas(Members(list)) : a = [app |-> d.app, key |-> d.key, hook |-> d.hook]
    BY DEF Named
  <2>3. d.app = c.app /\ d.type \in Meta /\ d \in Members(list)
    BY <2>1, <2>2 DEF Metas
  <2>4. <<c.key, c.hook>> # <<d.key, d.hook>>
    BY <1>11, <2>2, <2>3 DEF SameApp
  <2>5. Clash(c, d)
    BY <1>11, <2>3, <2>4 DEF Clash
  <2> QED
    BY <1>3, <2>3, <2>5
<1>12. CASE c.type \in Meta /\ ~KnownApp(c, seen) /\ (c.key \in taken \/ c.hook \in taken)
  <2>1. PICK x \in taken : <<x, <<"app", c.app>>>> \in new
    BY <1>12 DEF ConnectionUses, Meta
  <2>2. CASE x = c.operator
    BY <1>2, <1>4, <1>6, <2>1, <2>2
  <2>3. CASE x \in Taken(seen)
    <3>1. PICK u \in uses :
            /\ u[1] = x
            /\ \/ u[2][1] \in Own
               \/ u[2] = <<"oa", 0>>
               \/ \E d \in Metas(Members(list)) : u[2] = <<"app", d.app>>
      BY <2>3, TakenUse, ZenonT(40)
    <3>2. ASSUME NEW d \in Metas(Members(list)) PROVE d.app # c.app
      <4>1. [app |-> d.app, key |-> d.key, hook |-> d.hook] \in seen.apps
        BY DEF Named
      <4> QED
        BY <1>12, <4>1 DEF KnownApp
    <3>3. u[2] # <<"app", c.app>>
      BY <3>1, <3>2 DEF Own
    <3> QED
      BY <2>1, <3>1, <3>3 DEF Offending, Twice
  <2> QED
    BY <2>2, <2>3
<1> HIDE DEF uses, new, n
<1> QED
  BY <1>7, <1>8, <1>9, <1>10, <1>11, <1>12, EntryTypes DEF Collides, Meta

\* What is refused when it is read offends against the document it ends.
LEMMA RefusedEntryOffends ==
  ASSUME NEW list, NEW c, IsList(list), Named(Members(list), seen), InUse(list, seen),
         Len(list) = MaxConnections \/ RefusesConnection(c, seen)
  PROVE  ConnectionsOffend(Append(list, c)) \/ ~Separated(ListUses(Append(list, c)))
<1> DEFINE new == Append(list, c)
<1>1. /\ Len(new) = Len(list) + 1 /\ Len(list) \in Nat
      /\ \A i \in 1..Len(list) : new[i] = list[i]
      /\ new[Len(list) + 1] = c
  BY AppendList DEF IsList
<1>2. c \in Members(new)
  BY MembersAppend
<1>3. CASE Len(list) = MaxConnections
  BY <1>1, <1>3, LoaderAssumption DEF ConnectionsOffend
<1>4. CASE ~WellFormed(c)
  BY <1>2, <1>4 DEF ConnectionsOffend
<1>5. ASSUME NEW d \in Members(list), Clash(c, d)
      PROVE  ConnectionsOffend(new)
  <2>1. PICK i \in 1..Len(list) : d = list[i]
    BY DEF Members
  <2>2. /\ i \in 1..Len(new) /\ Len(new) \in 1..Len(new) /\ i # Len(new)
        /\ Clash(new[Len(new)], new[i])
    BY <1>1, <1>5, <2>1
  <2> QED
    BY <2>2 DEF ConnectionsOffend
<1>6. CASE c.id \in seen.ids
  <2>1. PICK d \in Members(list) : c.id = d.id
    BY <1>6 DEF Named
  <2> QED
    BY <1>5, <2>1 DEF Clash
<1>7. CASE WellFormed(c) /\ Collides(c, seen)
  BY <1>5, <1>7, CollisionOffends
<1>8. CASE c.type # "telegram_bot" /\ Account(c) \in seen.accounts
  <2>1. PICK d \in Members(list) : Account(c) = Account(d)
    BY <1>8 DEF Named
  <2> QED
    BY <1>5, <1>8, <2>1 DEF Clash
<1>9. CASE WabaMoves(c, seen)
  <2>1. PICK w \in seen.wabas : w[1] = c.waba /\ w[2] # c.app
    BY <1>9 DEF WabaMoves
  <2>2. PICK d \in Members(list) : w = <<d.waba, d.app>> /\ d.type = "whatsapp_business"
    BY DEF Named
  <2>3. Clash(c, d)
    BY <1>9, <2>1, <2>2 DEF Clash, WabaMoves
  <2> QED
    BY <1>5, <2>3
<1> QED
  BY <1>3, <1>4, <1>6, <1>7, <1>8, <1>9 DEF RefusesConnection

\* The registries of channels and URLs tell which Apps are split.
LEMMA SplitByRegistries ==
  ASSUME NEW list, Named(Members(list), seen)
  PROVE  SplitsApis(seen) <=> SplitApp(list)
<1> DEFINE M == Members(list)
<1>1. ASSUME SplitsApis(seen) PROVE SplitApp(list)
  <2>1. PICK app \in {a.app : a \in seen.apps} :
          /\ \A type \in Meta : <<app, type>> \in seen.channels
          /\ \E u, v \in seen.urls : u[1] = app /\ v[1] = app /\ (u # v \/ u[2].path # "meta")
    BY <1>1 DEF SplitsApis
  <2>2. PICK c \in M : c.type = "facebook_page" /\ c.app = app
    <3>1. <<app, "facebook_page">> \in seen.channels
      BY <2>1 DEF Meta
    <3> QED
      BY <3>1 DEF Named, Metas
  <2>3. PICK d \in M : d.type = "whatsapp_business" /\ d.app = app
    <3>1. <<app, "whatsapp_business">> \in seen.channels
      BY <2>1 DEF Meta
    <3> QED
      BY <3>1 DEF Named, Metas
  <2>4. PICK u \in seen.urls, v \in seen.urls :
          u[1] = app /\ v[1] = app /\ (u # v \/ u[2].path # "meta")
    BY <2>1
  <2>5. PICK e \in M : u = <<e.app, e.url>> /\ e.type \in Meta /\ e.url # NoUrl
    BY DEF Named, Metas
  <2>6. PICK f \in M : v = <<f.app, f.url>> /\ f.type \in Meta /\ f.url # NoUrl
    BY DEF Named, Metas
  <2>7. e.app = app /\ f.app = app /\ (e.url.path # "meta" \/ f.url # e.url)
    BY <2>4, <2>5, <2>6
  <2> QED
    BY <2>2, <2>3, <2>5, <2>6, <2>7 DEF SplitApp
<1>2. ASSUME SplitApp(list) PROVE SplitsApis(seen)
  <2>1. PICK c \in M, d \in M, e \in M :
          /\ c.type = "facebook_page" /\ d.type = "whatsapp_business" /\ c.app = d.app
          /\ e.type \in Meta /\ e.app = c.app /\ e.url # NoUrl
          /\ \/ e.url.path # "meta"
             \/ \E f \in M : f.type \in Meta /\ f.app = c.app /\ f.url \notin {NoUrl, e.url}
    BY <1>2 DEF SplitApp
  <2>2. c \in Metas(M) /\ d \in Metas(M) /\ e \in Metas(M)
    BY <2>1 DEF Metas, Meta
  <2>3. /\ [app |-> c.app, key |-> c.key, hook |-> c.hook] \in seen.apps
        /\ <<c.app, "facebook_page">> \in seen.channels
        /\ <<c.app, "whatsapp_business">> \in seen.channels
        /\ <<c.app, e.url>> \in seen.urls
    BY <2>1, <2>2 DEF Named
  <2>4. c.app \in {a.app : a \in seen.apps} /\ \A type \in Meta : <<c.app, type>> \in seen.channels
    BY <2>3 DEF Meta
  <2>5. \E u, v \in seen.urls : u[1] = c.app /\ v[1] = c.app /\ (u # v \/ u[2].path # "meta")
    <3>1. CASE e.url.path # "meta"
      BY <2>3, <3>1
    <3>2. ASSUME NEW f \in M, f.type \in Meta, f.app = c.app, f.url \notin {NoUrl, e.url}
          PROVE  <<c.app, f.url>> \in seen.urls
      BY <3>2 DEF Named, Metas
    <3> QED
      BY <2>1, <2>3, <3>1, <3>2
  <2> QED
    BY <2>4, <2>5 DEF SplitsApis
<1> QED
  BY <1>1, <1>2

-----------------------------------------------------------------------------
(* Inboxes.                                                                *)

LEMMA DistinctIds ==
  ASSUME NEW list, IsList(list)
  PROVE  Distinct([i \in 1..Len(list) |-> list[i].id]) <=>
           \A i, j \in 1..Len(list) : list[i].id = list[j].id => i = j
<1> DEFINE ids == [i \in 1..Len(list) |-> list[i].id]
           S == {list[i].id : i \in 1..Len(list)}
<1>1. ids \in [1..Len(list) -> S] /\ Len(list) \in Nat
  BY DEF IsList
<1>2. Len(ids) = Len(list)
  BY <1>1, SeqDef, LenProperties
<1>3. \A i \in 1..Len(list) : ids[i] = list[i].id
  OBVIOUS
<1> HIDE DEF ids
<1> QED
  BY <1>2, <1>3 DEF Distinct, ids

InboxNames(list, s) ==
  /\ s.inboxes = {b.id : b \in Members(list)}
  /\ s.tokens = {b.token : b \in Members(list)}

\* An inbox that was not refused adds no offence.
LEMMA InboxFits ==
  ASSUME NEW list, NEW b, IsList(list), IsList(b.connections), InboxNames(list, seen),
         ~InboxesOffend(list, seen.ids), Len(list) # MaxInboxes, ~RefusesInbox(b, seen)
  PROVE  ~InboxesOffend(Append(list, b), seen.ids)
<1> DEFINE new == Append(list, b)
<1>1. /\ Len(new) = Len(list) + 1 /\ Len(list) \in Nat
      /\ \A i \in 1..Len(list) : new[i] = list[i]
      /\ new[Len(list) + 1] = b /\ IsList(new)
  BY AppendList DEF IsList
<1>2. ~(Len(new) > MaxInboxes)
  BY <1>1, LoaderAssumption DEF InboxesOffend
<1>3. \A i, j \in 1..Len(list) : list[i].id = list[j].id => i = j
  BY DistinctIds DEF InboxesOffend
<1>4. \A i \in 1..Len(list) : list[i].id # b.id
  BY DEF InboxNames, RefusesInbox, Members
<1>5. \A i, j \in 1..Len(new) : new[i].id = new[j].id => i = j
  BY <1>1, <1>3, <1>4
<1>6. Distinct([i \in 1..Len(new) |-> new[i].id])
  BY <1>1, <1>5, DistinctIds
<1>7. /\ Identifier(b.id) /\ b.token \notin ShortSecret
      /\ Len(b.connections) = Cardinality(Members(b.connections) \cap seen.ids)
      /\ Len(b.connections) \in 1..MaxConnections
  <2>1. Distinct(b.connections) /\ Members(b.connections) \subseteq seen.ids
    BY DEF RefusesInbox
  <2>2. Len(b.connections) # 0
    <3>1. SUFFICES ASSUME Len(b.connections) = 0 PROVE b.connections = <<>>
      BY DEF RefusesInbox
    <3> QED
      BY <3>1 DEF IsList
  <2>3. Len(b.connections) = Cardinality(Members(b.connections) \cap seen.ids)
    BY <2>1, ListCounts
  <2>4. Len(b.connections) \in 1..MaxConnections
    BY <2>2, LoaderAssumption DEF RefusesInbox, IsList
  <2> QED
    BY <2>3, <2>4 DEF RefusesInbox
<1> HIDE DEF new
<1>8. Members(new) = Members(list) \cup {b}
  BY MembersAppend DEF new
<1>9. \A e \in Members(list) :
        /\ Identifier(e.id) /\ e.token \notin ShortSecret
        /\ Len(e.connections) = Cardinality(Members(e.connections) \cap seen.ids)
        /\ Len(e.connections) \in 1..MaxConnections
  BY DEF InboxesOffend
<1>10. \A e \in Members(new) :
        /\ Identifier(e.id) /\ e.token \notin ShortSecret
        /\ Len(e.connections) = Cardinality(Members(e.connections) \cap seen.ids)
        /\ Len(e.connections) \in 1..MaxConnections
  BY <1>7, <1>8, <1>9
<1>11. ~InboxesOffend(new, seen.ids)
  BY <1>2, <1>6, <1>10 DEF InboxesOffend
<1> QED
  BY <1>11 DEF new

\* The token of an inbox that is taken is used in two roles.
LEMMA TokenOffends ==
  ASSUME NEW conns, NEW list, NEW b, IsList(conns), IsList(list), InUse(conns, seen),
         InboxNames(list, seen), b.token \in seen.tokens \cup Taken(seen)
  PROVE  ~Separated(ListUses(conns) \cup InboxUses(Append(list, b)))
<1> DEFINE n == Len(list) + 1
           uses == ListUses(conns) \cup InboxUses(Append(list, b))
<1>1. n \in Nat /\ n # 0 /\ \A i \in 1..Len(list) : i # n
  BY DEF IsList
<1>2. InboxUses(list) \subseteq uses /\ <<b.token, <<"inbox", n>>>> \in uses
  BY InboxAdds
<1>3. ASSUME NEW u \in uses, u[1] = b.token, u[2] # <<"inbox", n>>
      PROVE  ~Separated(uses)
  BY <1>2, <1>3 DEF Separated
<1>4. CASE b.token \in seen.tokens
  <2>1. PICK i \in 1..Len(list) : list[i].token = b.token
    BY <1>4 DEF InboxNames, Members
  <2>2. <<b.token, <<"inbox", i>>>> \in InboxUses(list) /\ <<"inbox", i>> # <<"inbox", n>>
    BY <1>1, <2>1 DEF InboxUses
  <2> QED
    BY <1>2, <1>3, <2>2
<1>5. CASE b.token \in Taken(seen)
  <2>1. PICK u \in ListUses(conns) : u[1] = b.token
    BY <1>5, TakenUse
  <2>2. u[2] # <<"inbox", n>>
    BY <1>1, RolePlaces DEF Own
  <2> QED
    BY <1>3, <2>1, <2>2
<1> QED
  BY <1>4, <1>5

LEMMA RefusedInboxOffends ==
  ASSUME NEW conns, NEW list, NEW b, IsList(conns), IsList(list), IsList(b.connections),
         InUse(conns, seen), InboxNames(list, seen),
         Len(list) = MaxInboxes \/ RefusesInbox(b, seen)
  PROVE  \/ InboxesOffend(Append(list, b), seen.ids)
         \/ ~Separated(ListUses(conns) \cup InboxUses(Append(list, b)))
<1> DEFINE new == Append(list, b)
<1>1. /\ Len(new) = Len(list) + 1 /\ Len(list) \in Nat
      /\ \A i \in 1..Len(list) : new[i] = list[i]
      /\ new[Len(list) + 1] = b /\ IsList(new)
  BY AppendList DEF IsList
<1>2. b \in Members(new)
  BY MembersAppend
<1>3. CASE Len(list) = MaxInboxes
  BY <1>1, <1>3, LoaderAssumption DEF InboxesOffend
<1>4. CASE b.token \in seen.tokens \cup Taken(seen)
  BY <1>4, TokenOffends
<1>5. CASE b.id \in seen.inboxes
  <2>1. PICK i \in 1..Len(list) : list[i].id = b.id
    BY <1>5 DEF InboxNames, Members
  <2>2. i \in 1..Len(new) /\ Len(new) \in 1..Len(new) /\ i # Len(new) /\ new[i].id = new[Len(new)].id
    BY <1>1, <2>1
  <2> QED
    BY <1>1, <2>2, DistinctIds DEF InboxesOffend
<1>6. CASE \/ ~Identifier(b.id) \/ b.token \in ShortSecret
           \/ b.connections = <<>> \/ Len(b.connections) > MaxConnections
           \/ ~Distinct(b.connections) \/ ~(Members(b.connections) \subseteq seen.ids)
  <2>1. b.connections = <<>> \/ Len(b.connections) > MaxConnections =>
          Len(b.connections) \notin 1..MaxConnections
    BY LoaderAssumption DEF IsList
  <2>2. ~Distinct(b.connections) \/ ~(Members(b.connections) \subseteq seen.ids) =>
          Len(b.connections) # Cardinality(Members(b.connections) \cap seen.ids)
    BY ListCounts
  <2> QED
    BY <1>2, <1>6, <2>1, <2>2 DEF InboxesOffend
<1> QED
  BY <1>3, <1>4, <1>5, <1>6 DEF RefusesInbox

-----------------------------------------------------------------------------
(* The dashboard.                                                          *)

LEMMA FewInboxes ==
  ASSUME NEW list, IsList(list), InboxNames(list, seen)
  PROVE  IsFiniteSet(seen.inboxes) /\ Cardinality(seen.inboxes) <= Len(list)
<1> DEFINE ids == [i \in 1..Len(list) |-> list[i].id]
<1>1. ids \in Surjection(1..Len(list), seen.inboxes)
  BY DEF InboxNames, Members, Surjection
<1>2. IsFiniteSet(1..Len(list)) /\ Cardinality(1..Len(list)) = Len(list)
  BY FS_Interval DEF IsList
<1> QED
  BY <1>1, <1>2, FS_Surjection

\* A list of grants is refused when it does not name inboxes of K once each; that it is
\* not too long follows.
LEMMA GrantCounts ==
  ASSUME NEW l, NEW K, IsList(l), IsFiniteSet(K), Cardinality(K) <= MaxInboxes
  PROVE  Len(l) = Cardinality(Members(l) \cap K) <=>
           Distinct(l) /\ Len(l) <= MaxInboxes /\ Members(l) \subseteq K
<1>1. Len(l) = Cardinality(Members(l) \cap K) <=> Distinct(l) /\ Members(l) \subseteq K
  BY ListCounts
<1>2. Cardinality(Members(l) \cap K) <= Cardinality(K) /\ IsFiniteSet(Members(l) \cap K)
  BY FS_Subset
<1>3. Cardinality(Members(l) \cap K) \in Nat /\ Cardinality(K) \in Nat /\ MaxInboxes \in Nat
  BY <1>2, FS_CardinalityType, LoaderAssumption
<1> QED
  BY <1>1, <1>2, <1>3

ListsIn(d) ==
  /\ IsList(d.keys) /\ IsList(d.principals)
  /\ \A p \in Members(d.principals) : IsList(p.inboxes) /\ IsList(p.replies) /\ IsList(p.deliveries)

\* What an operator may do is refused exactly when it offends.
LEMMA PrincipalVerdict ==
  ASSUME NEW p, IsList(p.inboxes), IsList(p.replies), IsList(p.deliveries),
         IsFiniteSet(seen.inboxes), Cardinality(seen.inboxes) <= MaxInboxes
  PROVE  RefusesPrincipal(p, seen) <=>
           \/ ~Identifier(p.id) \/ p.inboxes = <<>>
           \/ \E list \in {p.inboxes, p.replies, p.deliveries} :
                Len(list) # Cardinality(Members(list) \cap Members(p.inboxes) \cap seen.inboxes)
<1> DEFINE K == Members(p.inboxes) \cap seen.inboxes
<1>1. IsFiniteSet(K) /\ Cardinality(K) <= Cardinality(seen.inboxes)
  BY FS_Subset
<1>2. Cardinality(K) <= MaxInboxes
  BY <1>1, FS_CardinalityType, LoaderAssumption
<1>3. ASSUME NEW l \in {p.inboxes, p.replies, p.deliveries}
      PROVE  Len(l) = Cardinality(Members(l) \cap Members(p.inboxes) \cap seen.inboxes) <=>
               Distinct(l) /\ Len(l) <= MaxInboxes /\ Members(l) \subseteq K
  <2>1. Members(l) \cap Members(p.inboxes) \cap seen.inboxes = Members(l) \cap K
    OBVIOUS
  <2>2. IsList(l)
    BY <1>3
  <2> HIDE DEF K
  <2>3. Len(l) = Cardinality(Members(l) \cap K) <=>
          Distinct(l) /\ Len(l) <= MaxInboxes /\ Members(l) \subseteq K
    BY <1>1, <1>2, <2>2, GrantCounts
  <2> QED
    BY <2>1, <2>3
<1>4. \A l : IsList(l) => (Len(l) > MaxInboxes <=> ~(Len(l) <= MaxInboxes))
  BY LoaderAssumption DEF IsList
<1>5. RefusesReplies(p, seen) <=>
        ~(Distinct(p.replies) /\ Len(p.replies) <= MaxInboxes /\ Members(p.replies) \subseteq K)
  BY <1>4 DEF RefusesReplies, RefusesGrant
<1>6. RefusesDeliveries(p, seen) <=>
        ~(Distinct(p.deliveries) /\ Len(p.deliveries) <= MaxInboxes /\ Members(p.deliveries) \subseteq K)
  BY <1>4 DEF RefusesDeliveries, RefusesGrant
<1>7. Members(p.inboxes) \subseteq K <=> Members(p.inboxes) \subseteq seen.inboxes
  OBVIOUS
<1> HIDE DEF K
<1> QED
  BY <1>3, <1>4, <1>5, <1>6, <1>7 DEF RefusesPrincipal

\* A secret of the dashboard that is taken is used in two roles.
LEMMA DashboardSecretOffends ==
  ASSUME NEW conns, NEW list, NEW d, IsList(conns), IsList(list), d # NoDashboard, IsList(d.keys),
         InUse(conns, seen), InboxNames(list, seen),
         \/ ~Distinct(d.keys) \/ d.pepper \in Members(d.keys)
         \/ (Members(d.keys) \cup {d.pepper}) \cap (Taken(seen) \cup seen.tokens) # {}
  PROVE  ~Separated(ListUses(conns) \cup InboxUses(list) \cup DashboardUses(d))
<1> DEFINE uses == ListUses(conns) \cup InboxUses(list) \cup DashboardUses(d)
<1> SUFFICES ~Separated(uses)
  OBVIOUS
<1>1. ASSUME NEW u \in uses, NEW v \in uses, u[1] = v[1], u[2] # v[2]
      PROVE  ~Separated(uses)
  BY <1>1 DEF Separated
<1>2. /\ \A i \in 1..Len(d.keys) : <<d.keys[i], <<"key", i>>>> \in uses
      /\ <<d.pepper, <<"pepper", 0>>>> \in uses
  BY DEF DashboardUses
<1>3. ListUses(conns) \cup InboxUses(list) \subseteq uses
  OBVIOUS
<1> HIDE DEF uses
<1>4. CASE ~Distinct(d.keys)
  <2>1. PICK i \in 1..Len(d.keys), j \in 1..Len(d.keys) : d.keys[i] = d.keys[j] /\ i # j
    BY <1>4 DEF Distinct
  <2>2. <<"key", i>> # <<"key", j>>
    BY <2>1
  <2> QED
    BY <1>1, <1>2, <2>1, <2>2
<1>5. CASE d.pepper \in Members(d.keys)
  <2>1. PICK i \in 1..Len(d.keys) : d.keys[i] = d.pepper
    BY <1>5 DEF Members
  <2>2. <<"key", i>> # <<"pepper", 0>>
    OBVIOUS
  <2> QED
    BY <1>1, <1>2, <2>1, <2>2
<1>6. CASE (Members(d.keys) \cup {d.pepper}) \cap (Taken(seen) \cup seen.tokens) # {}
  <2>1. PICK x \in Members(d.keys) \cup {d.pepper} : x \in Taken(seen) \cup seen.tokens
    BY <1>6
  <2>2. PICK v \in uses : v[1] = x /\ (v[2] = <<"pepper", 0>> \/ \E i \in 1..Len(d.keys) : v[2] = <<"key", i>>)
    BY <1>2, <2>1 DEF Members
  <2>3. CASE x \in seen.tokens
    <3>1. PICK i \in 1..Len(list) : list[i].token = x
      BY <2>3 DEF InboxNames, Members
    <3>2. <<x, <<"inbox", i>>>> \in uses
      BY <1>3, <3>1 DEF InboxUses
    <3>3. v[2] # <<"inbox", i>>
      BY <2>2
    <3> QED
      BY <1>1, <2>2, <3>2, <3>3
  <2>4. CASE x \in Taken(seen)
    <3>1. PICK u \in ListUses(conns) : u[1] = x /\ u[2][1] \in {"oa", "app"} \cup Own
      BY <2>4, TakenUse, RolePlaces
    <3>2. u \in uses /\ u[2] # v[2]
      BY <1>3, <2>2, <3>1 DEF Own
    <3> QED
      BY <1>1, <2>2, <3>1, <3>2
  <2> QED
    BY <2>1, <2>3, <2>4
<1> QED
  BY <1>4, <1>5, <1>6

LEMMA DashboardVerdict ==
  ASSUME NEW conns, NEW list, NEW d, IsList(conns), IsList(list), d # NoDashboard, ListsIn(d),
         InUse(conns, seen), InboxNames(list, seen), Len(list) <= MaxInboxes
  PROVE  /\ DashboardOffends(d, seen.inboxes) => RefusesDashboard(d, seen)
         /\ RefusesDashboard(d, seen) =>
              \/ DashboardOffends(d, seen.inboxes)
              \/ ~Separated(ListUses(conns) \cup InboxUses(list) \cup DashboardUses(d))
<1>1. IsFiniteSet(seen.inboxes) /\ Cardinality(seen.inboxes) <= MaxInboxes
  BY FewInboxes, FS_CardinalityType, LoaderAssumption DEF IsList
<1>2. \A p \in Members(d.principals) :
        RefusesPrincipal(p, seen) <=>
          \/ ~Identifier(p.id) \/ p.inboxes = <<>>
          \/ \E l \in {p.inboxes, p.replies, p.deliveries} :
               Len(l) # Cardinality(Members(l) \cap Members(p.inboxes) \cap seen.inboxes)
  BY <1>1, PrincipalVerdict DEF ListsIn
<1>3. Len(d.principals) \notin 1..MaxPrincipals <=>
        d.principals = <<>> \/ Len(d.principals) > MaxPrincipals
  <2>1. IsList(d.principals)
    BY DEF ListsIn
  <2> QED
    BY <2>1, NoUses, LoaderAssumption DEF IsList
<1>4. DashboardOffends(d, seen.inboxes) =>
        \/ seen.inboxes = {} \/ ~AllowedOrigin(d.origin) \/ Len(d.keys) \notin 1..2
        \/ (Members(d.keys) \cup {d.pepper}) \cap ShortSecret # {}
        \/ RefusesPrincipals(d, seen) \/ RefusesBootstrap(d)
  BY <1>2, <1>3 DEF DashboardOffends, RefusesPrincipals, RefusesBootstrap
<1>5. RefusesPrincipals(d, seen) \/ RefusesBootstrap(d) => DashboardOffends(d, seen.inboxes)
  BY <1>2, <1>3 DEF DashboardOffends, RefusesPrincipals, RefusesBootstrap
<1>6. (Members(d.keys) \cup {d.pepper}) \cap ShortSecret # {} => DashboardSecretsTaken(d, seen)
  BY DEF DashboardSecretsTaken
<1>7. DashboardSecretsTaken(d, seen) =>
        \/ (Members(d.keys) \cup {d.pepper}) \cap ShortSecret # {}
        \/ ~Separated(ListUses(conns) \cup InboxUses(list) \cup DashboardUses(d))
  BY DashboardSecretOffends DEF DashboardSecretsTaken, ListsIn
<1>8. seen.inboxes = {} \/ Len(d.keys) \notin 1..2 \/ ~AllowedOrigin(d.origin)
        \/ (Members(d.keys) \cup {d.pepper}) \cap ShortSecret # {}
      => DashboardOffends(d, seen.inboxes)
  BY DEF DashboardOffends
<1>9. RefusesDashboard(d, seen) <=>
        \/ seen.inboxes = {} \/ Len(d.keys) \notin 1..2 \/ ~AllowedOrigin(d.origin)
        \/ DashboardSecretsTaken(d, seen) \/ RefusesPrincipals(d, seen) \/ RefusesBootstrap(d)
  BY DEF RefusesDashboard
<1> QED
  BY <1>4, <1>5, <1>6, <1>7, <1>8, <1>9

-----------------------------------------------------------------------------
(* The steps once more.                                                    *)

\* What parsing leaves: lists, and a dashboard where one is given.
FormAssumed ==
  /\ \A doc : \A b \in NextInboxes(doc) : IsList(b.connections)
  /\ \A doc : \A d \in NextDashboards(doc) : d # NoDashboard /\ ListsIn(d)

\* While the document is read the registries are exact and nothing read so far
\* offends; a split App is noticed after the last connection.
VerdictInv ==
  /\ phase \in {"connections", "inboxes", "dashboard"} =>
       /\ Named(Members(document.connections), seen)
       /\ InUse(document.connections, seen)
       /\ InboxNames(document.inboxes, seen)
       /\ Fitting(document.connections)
       /\ ~InboxesOffend(document.inboxes, seen.ids)
  /\ phase \in {"inboxes", "dashboard"} => ~ConnectionsOffend(document.connections)
  /\ VerdictIsPairwise

LEMMA VerdictStart == LoaderInit => VerdictInv
<1> SUFFICES ASSUME LoaderInit PROVE VerdictInv
  OBVIOUS
<1>1. /\ phase = "connections" /\ document.connections = <<>> /\ document.inboxes = <<>>
      /\ \A f \in Registries : seen[f] = {}
  BY DEF LoaderInit, NothingSeen, Registries
<1>2. Members(<<>>) = {} /\ ListUses(<<>>) = {} /\ Len(<<>>) = 0
  BY NoUses DEF Members
<1>3. /\ seen.ids = {} /\ seen.accounts = {} /\ seen.wabas = {} /\ seen.apps = {}
      /\ seen.channels = {} /\ seen.urls = {} /\ seen.inboxes = {} /\ seen.tokens = {}
      /\ seen.exclusive = {} /\ seen.oa = {} /\ seen.meta = {}
  BY <1>1 DEF Registries
<1>4. Named({}, seen)
  BY <1>3 DEF Named, Metas
<1>5. InUse(<<>>, seen) /\ InboxNames(<<>>, seen)
  BY <1>2, <1>3 DEF InUse, InboxNames
<1>6. Fitting(<<>>)
  BY <1>2, LoaderAssumption DEF Fitting
<1>7. ~InboxesOffend(<<>>, seen.ids)
  <2> DEFINE list == document.inboxes
  <2>1. IsList(list) /\ Len(list) = 0 /\ Members(list) = {}
    BY <1>1, <1>2, NoUses
  <2> HIDE DEF list
  <2>2. Distinct([i \in 1..Len(list) |-> list[i].id])
    <3>1. IsList(list) /\ \A i, j \in 1..Len(list) : list[i].id = list[j].id => i = j
      BY <2>1
    <3> QED
      BY <3>1, DistinctIds
  <2>3. ~InboxesOffend(list, seen.ids)
    BY <2>1, <2>2, LoaderAssumption DEF InboxesOffend
  <2> QED
    BY <1>1, <2>3 DEF list
<1> QED
  BY <1>1, <1>2, <1>4, <1>5, <1>6, <1>7 DEF VerdictInv, VerdictIsPairwise

LEMMA ConnectionVerdict == LoaderInv /\ VerdictInv /\ ReadConnection => VerdictInv'
<1> SUFFICES ASSUME LoaderInv, VerdictInv, phase = "connections",
                    NEW c \in NextConnections(document.connections),
                    document' = [document EXCEPT !.connections = Append(@, c)],
                    IF Len(document.connections) = MaxConnections \/ RefusesConnection(c, seen)
                    THEN phase' = "refused" /\ UNCHANGED seen
                    ELSE phase' = phase /\ seen' = Recorded(c, seen)
             PROVE  VerdictInv'
  BY DEF ReadConnection
<1> DEFINE list == document.connections
<1>1. /\ document'.connections = Append(list, c) /\ document'.inboxes = <<>>
      /\ document.inboxes = <<>> /\ document'.dashboard = NoDashboard
      /\ IsList(list) /\ Shape
  BY DEF LoaderInv, Shape
<1>2. /\ Named(Members(list), seen) /\ InUse(list, seen) /\ InboxNames(<<>>, seen)
      /\ Fitting(list) /\ ~InboxesOffend(<<>>, seen.ids)
  BY <1>1 DEF VerdictInv
<1>3. CASE Len(list) = MaxConnections \/ RefusesConnection(c, seen)
  <2>1. ConnectionsOffend(Append(list, c)) \/ ~Separated(ListUses(Append(list, c)))
    BY <1>1, <1>2, <1>3, RefusedEntryOffends
  <2>2. Uses(document') = ListUses(Append(list, c))
    BY <1>1, NoUses, UsesByPart
  <2>3. Offends(document')
    BY <1>1, <2>1, <2>2 DEF Offends
  <2> QED
    BY <1>3, <2>3 DEF VerdictInv, VerdictIsPairwise
<1>4. CASE Len(list) # MaxConnections /\ ~RefusesConnection(c, seen)
  <2>1. phase' = "connections" /\ seen' = Recorded(c, seen)
    BY <1>4
  <2>2. Named(Members(Append(list, c)), seen')
    BY <1>1, <1>2, <2>1, MembersAppend, NamesGrow
  <2>3. InUse(Append(list, c), seen')
    BY <1>1, <1>2, <2>1, UseGrows
  <2>4. Fitting(Append(list, c))
    BY <1>1, <1>2, <1>4, EntryFits
  <2>5. seen'.inboxes = seen.inboxes /\ seen'.tokens = seen.tokens
    BY <1>1, <2>1, RecordedNames, RecordedParts
  <2>6. InboxNames(<<>>, seen')
    BY <1>2, <2>5 DEF InboxNames
  <2>7. ~InboxesOffend(<<>>, seen'.ids)
    <3>1. Members(<<>>) = {}
      BY DEF Members
    <3> QED
      BY <1>2, <3>1 DEF InboxesOffend
  <2> QED
    BY <1>1, <2>1, <2>2, <2>3, <2>4, <2>6, <2>7 DEF VerdictInv, VerdictIsPairwise
<1> QED
  BY <1>3, <1>4

\* Uses while there is no dashboard.
LEMMA PartialUses ==
  ASSUME NEW doc, doc.dashboard = NoDashboard
  PROVE  Uses(doc) = ListUses(doc.connections) \cup InboxUses(doc.inboxes)
BY NoUses, UsesByPart

LEMMA EndConnectionsVerdict == LoaderInv /\ VerdictInv /\ EndConnections => VerdictInv'
<1> SUFFICES ASSUME LoaderInv, VerdictInv, phase = "connections", UNCHANGED <<document, seen>>,
                    phase' = IF document.connections = <<>> \/ SplitsApis(seen)
                             THEN "refused" ELSE "inboxes"
             PROVE  VerdictInv'
  BY DEF EndConnections
<1> DEFINE list == document.connections
<1>1. /\ Named(Members(list), seen) /\ InUse(list, seen) /\ InboxNames(document.inboxes, seen)
      /\ Fitting(list) /\ ~InboxesOffend(document.inboxes, seen.ids) /\ IsList(list)
  BY DEF VerdictInv, LoaderInv
<1>2. SplitsApis(seen) <=> SplitApp(list)
  BY <1>1, SplitByRegistries
<1>3. CASE phase' = "refused"
  <2>1. Len(list) \notin 1..MaxConnections \/ SplitApp(list)
    BY <1>2, <1>3
  <2>2. Offends(document')
    BY <2>1 DEF Offends, ConnectionsOffend
  <2> QED
    BY <1>3, <2>2 DEF VerdictInv, VerdictIsPairwise
<1>4. CASE phase' = "inboxes" /\ list # <<>> /\ ~SplitsApis(seen)
  <2>1. Len(list) # 0
    BY <1>1, <1>4 DEF IsList
  <2>2. Len(list) \in 1..MaxConnections
    BY <1>1, <2>1, LoaderAssumption DEF IsList, Fitting
  <2>3. ~ConnectionsOffend(list)
    BY <1>1, <1>2, <1>4, <2>2 DEF ConnectionsOffend, Fitting
  <2> QED
    BY <1>1, <1>4, <2>3 DEF VerdictInv, VerdictIsPairwise
<1> QED
  BY <1>3, <1>4

LEMMA InboxVerdict == FormAssumed /\ LoaderInv /\ VerdictInv /\ ReadInbox => VerdictInv'
<1> SUFFICES ASSUME FormAssumed, LoaderInv, VerdictInv, phase = "inboxes",
                    NEW b \in NextInboxes(document),
                    document' = [document EXCEPT !.inboxes = Append(@, b)],
                    IF Len(document.inboxes) = MaxInboxes \/ RefusesInbox(b, seen)
                    THEN phase' = "refused" /\ UNCHANGED seen
                    ELSE /\ phase' = phase
                         /\ seen' = [seen EXCEPT !.inboxes = @ \cup {b.id},
                                                 !.tokens = @ \cup {b.token}]
             PROVE  VerdictInv'
  BY DEF ReadInbox
<1> DEFINE conns == document.connections
           list == document.inboxes
<1>1. /\ document'.connections = conns /\ document'.inboxes = Append(list, b)
      /\ document'.dashboard = NoDashboard
      /\ IsList(conns) /\ IsList(list) /\ IsList(b.connections) /\ Shape
  BY DEF LoaderInv, Shape, FormAssumed
<1>2. /\ Named(Members(conns), seen) /\ InUse(conns, seen) /\ InboxNames(list, seen)
      /\ Fitting(conns) /\ ~InboxesOffend(list, seen.ids) /\ ~ConnectionsOffend(conns)
  BY DEF VerdictInv
<1>3. CASE Len(list) = MaxInboxes \/ RefusesInbox(b, seen)
  <2>1. \/ InboxesOffend(Append(list, b), seen.ids)
        \/ ~Separated(ListUses(conns) \cup InboxUses(Append(list, b)))
    BY <1>1, <1>2, <1>3, RefusedInboxOffends
  <2>2. Uses(document') = ListUses(conns) \cup InboxUses(Append(list, b))
    BY <1>1, PartialUses
  <2>3. seen.ids = {c.id : c \in Members(document'.connections)}
    BY <1>1, <1>2 DEF Named
  <2>4. Offends(document')
    BY <1>1, <2>1, <2>2, <2>3 DEF Offends
  <2> QED
    BY <1>3, <2>4 DEF VerdictInv, VerdictIsPairwise
<1>4. CASE Len(list) # MaxInboxes /\ ~RefusesInbox(b, seen)
  <2>1. /\ phase' = "inboxes" /\ seen' = [seen EXCEPT !.inboxes = @ \cup {b.id},
                                                      !.tokens = @ \cup {b.token}]
    BY <1>4
  <2>2. /\ seen'.inboxes = seen.inboxes \cup {b.id} /\ seen'.tokens = seen.tokens \cup {b.token}
        /\ \A f \in Registries \ {"inboxes", "tokens"} : seen'[f] = seen[f]
    BY <1>1, <2>1 DEF Shape, Registries
  <2>3. /\ seen'.ids = seen.ids /\ seen'.accounts = seen.accounts /\ seen'.wabas = seen.wabas
        /\ seen'.apps = seen.apps /\ seen'.channels = seen.channels /\ seen'.urls = seen.urls
        /\ seen'.exclusive = seen.exclusive /\ seen'.oa = seen.oa /\ seen'.meta = seen.meta
    BY <2>2 DEF Registries
  <2>4. Named(Members(conns), seen') /\ InUse(conns, seen')
    BY <1>2, <2>3 DEF Named, InUse
  <2>5. InboxNames(Append(list, b), seen')
    BY <1>1, <1>2, <2>2, MembersAppend DEF InboxNames
  <2>6. ~InboxesOffend(Append(list, b), seen'.ids)
    BY <1>1, <1>2, <1>4, <2>3, InboxFits
  <2> QED
    BY <1>1, <1>2, <2>1, <2>4, <2>5, <2>6 DEF VerdictInv, VerdictIsPairwise
<1> QED
  BY <1>3, <1>4

LEMMA DashboardStepVerdict ==
  FormAssumed /\ LoaderInv /\ LoaderInv' /\ VerdictInv /\ (ReadDashboard \/ NoDashboardGiven)
    => VerdictInv'
<1> SUFFICES ASSUME FormAssumed, LoaderInv, LoaderInv', VerdictInv,
                    ReadDashboard \/ NoDashboardGiven
             PROVE  VerdictInv'
  OBVIOUS
<1> DEFINE conns == document.connections
           list == document.inboxes
<1>1. phase = "dashboard" /\ phase' \in {"accepted", "refused"}
  BY DEF ReadDashboard, NoDashboardGiven
<1>2. /\ Named(Members(conns), seen) /\ InUse(conns, seen) /\ InboxNames(list, seen)
      /\ ~InboxesOffend(list, seen.ids) /\ ~ConnectionsOffend(conns)
      /\ IsList(conns) /\ IsList(list) /\ document.dashboard = NoDashboard /\ Shape
  BY <1>1 DEF VerdictInv, LoaderInv
<1>3. document'.connections = conns /\ document'.inboxes = list
  BY <1>2 DEF ReadDashboard, NoDashboardGiven, Shape
<1>4. seen.ids = {c.id : c \in Members(conns)} /\ seen.inboxes = {b.id : b \in Members(list)}
  BY <1>2 DEF Named, InboxNames
<1>5. phase' = "accepted" => Separated(Uses(document'))
  BY DEF LoaderInv, CredentialsSeparated
<1>6. CASE NoDashboardGiven
  <2>1. document'.dashboard = NoDashboard /\ phase' = "accepted"
    BY <1>2, <1>6 DEF NoDashboardGiven
  <2>2. ~Offends(document')
    BY <1>2, <1>3, <1>4, <1>5, <2>1 DEF Offends
  <2> QED
    BY <2>1, <2>2 DEF VerdictInv, VerdictIsPairwise
<1>7. CASE ReadDashboard
  <2>1. PICK d \in NextDashboards(document) :
          /\ document' = [document EXCEPT !.dashboard = d]
          /\ phase' = IF RefusesDashboard(d, seen) THEN "refused" ELSE "accepted"
    BY <1>7 DEF ReadDashboard
  <2>2. document'.dashboard = d /\ d # NoDashboard /\ ListsIn(d)
    BY <1>2, <2>1 DEF Shape, FormAssumed
  <2>3. Len(list) <= MaxInboxes
    BY <1>2, LoaderAssumption DEF InboxesOffend, IsList
  <2>4. /\ DashboardOffends(d, seen.inboxes) => RefusesDashboard(d, seen)
        /\ RefusesDashboard(d, seen) =>
             \/ DashboardOffends(d, seen.inboxes)
             \/ ~Separated(ListUses(conns) \cup InboxUses(list) \cup DashboardUses(d))
    BY <1>2, <2>2, <2>3, DashboardVerdict
  <2>5. Uses(document') = ListUses(conns) \cup InboxUses(list) \cup DashboardUses(d)
    BY <1>3, <2>2, UsesByPart
  <2>6. CASE RefusesDashboard(d, seen)
    <3>1. Offends(document')
      BY <1>3, <1>4, <2>2, <2>4, <2>5, <2>6 DEF Offends
    <3> QED
      BY <2>1, <2>6, <3>1 DEF VerdictInv, VerdictIsPairwise
  <2>7. CASE ~RefusesDashboard(d, seen)
    <3>1. phase' = "accepted"
      BY <2>1, <2>7
    <3>2. ~Offends(document')
      BY <1>2, <1>3, <1>4, <1>5, <2>2, <2>4, <2>7, <3>1 DEF Offends
    <3> QED
      BY <3>1, <3>2 DEF VerdictInv, VerdictIsPairwise
  <2> QED
    BY <2>6, <2>7
<1> QED
  BY <1>6, <1>7

LEMMA VerdictStep ==
  FormAssumed /\ LoaderInv /\ LoaderInv' /\ VerdictInv /\ [LoaderNext]_loaderVars => VerdictInv'
<1> SUFFICES ASSUME FormAssumed, LoaderInv, LoaderInv', VerdictInv, [LoaderNext]_loaderVars
             PROVE  VerdictInv'
  OBVIOUS
<1>1. CASE EndInboxes
  BY <1>1 DEF EndInboxes, VerdictInv, VerdictIsPairwise
<1>2. CASE UNCHANGED loaderVars
  BY <1>2 DEF loaderVars, VerdictInv, VerdictIsPairwise
<1> QED
  BY <1>1, <1>2, ConnectionVerdict, EndConnectionsVerdict, InboxVerdict, DashboardStepVerdict
     DEF LoaderNext

\* A document is accepted exactly when none of its entries, no two and no three of them
\* offend, whatever order they stand in: for documents of every length, every limit and
\* all secrets, if lists are lists.
THEOREM PairwiseVerdict ==
  ASSUME FormAssumed
  PROVE  LoaderSpec => []VerdictIsPairwise
<1>1. VerdictInv => VerdictIsPairwise
  BY DEF VerdictInv
<1>2. LoaderInv /\ LoaderInv' /\ VerdictInv /\ [LoaderNext]_loaderVars => VerdictInv'
  BY VerdictStep
<1> QED
  BY <1>1, <1>2, LoaderStart, LoaderStep, VerdictStart, PTL DEF LoaderSpec

-----------------------------------------------------------------------------
(* The start.                                                              *)

NothingRead == [connections |-> <<>>, inboxes |-> <<>>, dashboard |-> NoDashboard]

Reading == {"connections", "inboxes", "dashboard", "accepted", "refused"}
Later == {"registered", "composed", "built", "listening"}

\* What a document is that the loader has let through, or a process without one has.
Usable == document = NothingRead \/ ~Offends(document)

StartInv ==
  /\ phase \in {"environment", "database", "unread", "failed"} \cup Reading \cup Later
  /\ IsList(document.connections) /\ IsList(document.inboxes)
  /\ phase \in {"environment", "database"} => document = NothingRead /\ seen = NothingSeen
  /\ phase \in Reading => LoaderInv /\ VerdictInv
  /\ phase \notin Reading => Usable
  /\ phase = "accepted" => Usable
  /\ failure = None <=> phase # "failed"

\* The loader begins as it does on its own.
LEMMA LoadBegins == LoaderInit => LoaderInv /\ VerdictInv
BY LoaderStart, VerdictStart

LEMMA StartBegins == StartInit => StartInv
<1> SUFFICES ASSUME StartInit PROVE StartInv
  OBVIOUS
<1>1. phase = "environment" /\ document = NothingRead /\ seen = NothingSeen /\ failure = None
  BY DEF StartInit, NothingRead
<1>2. document.connections = <<>> /\ document.inboxes = <<>>
  BY <1>1 DEF NothingRead
<1> QED
  BY <1>1, <1>2, NoUses DEF StartInv, Reading, Later, Usable

LEMMA StartStep == FormAssumed /\ StartInv /\ [StartNext]_startVars => StartInv'
<1> SUFFICES ASSUME FormAssumed, StartInv, [StartNext]_startVars PROVE StartInv'
  OBVIOUS
<1>1. CASE Load
  <2>1. phase \in {"connections", "inboxes", "dashboard"} /\ UNCHANGED failure
    BY <1>1 DEF Load, LoaderNext, ReadConnection, EndConnections, ReadInbox, EndInboxes,
       ReadDashboard, NoDashboardGiven
  <2>2. LoaderInv /\ VerdictInv /\ [LoaderNext]_loaderVars
    BY <1>1, <2>1 DEF StartInv, Load, Reading
  <2>3. LoaderInv'
    BY <2>2, LoaderStep
  <2>4. VerdictInv'
    BY <2>2, <2>3, VerdictStep
  <2>5. phase' \in Reading /\ IsList(document'.connections) /\ IsList(document'.inboxes)
    BY <2>3 DEF LoaderInv, Reading
  <2>6. phase' = "accepted" => ~Offends(document')
    BY <2>4 DEF VerdictInv, VerdictIsPairwise
  <2>7. failure' = None
    BY <2>1 DEF StartInv
  <2> QED
    BY <2>3, <2>4, <2>5, <2>6, <2>7 DEF StartInv, Reading, Usable
<1>2. CASE CheckDatabase
  <2>1. UNCHANGED <<document, seen>> /\ phase = "database" /\ document = NothingRead
        /\ seen = NothingSeen /\ Usable' /\ failure = None
    BY <1>2 DEF CheckDatabase, StartInv, Usable, NothingRead
  <2>2. \/ phase' = "failed" /\ failure' \in {"database", "file"}
        \/ phase' \in {"connections", "unread"} /\ UNCHANGED failure
    BY <1>2 DEF CheckDatabase, Throws, Goes
  <2>3. LoaderInit' => LoaderInv' /\ VerdictInv'
    BY LoadBegins, PTL
  <2>4. phase' = "connections" => LoaderInit'
    BY <2>1 DEF LoaderInit, NothingRead
  <2> QED
    BY <2>1, <2>2, <2>3, <2>4 DEF StartInv, Reading, Later, None
<1>3. CASE ParseEnvironment \/ Register \/ Compose \/ BuildApp \/ Listen \/ UNCHANGED startVars
  <2>1. UNCHANGED <<document, seen>>
    BY <1>3 DEF ParseEnvironment, Register, Compose, BuildApp, Listen, startVars
  <2>2. \/ UNCHANGED <<phase, failure>>
        \/ /\ phase \in {"environment", "accepted", "unread", "registered", "composed", "built"}
           /\ \/ phase' = "failed" /\ failure' # None
              \/ phase' = "database" /\ phase = "environment" /\ UNCHANGED failure
              \/ phase' \in Later /\ phase # "environment" /\ UNCHANGED failure
    BY <1>3 DEF ParseEnvironment, Register, Compose, BuildApp, Listen, startVars, Throws, Goes,
       None, Later
  <2>3. LoaderInv /\ VerdictInv /\ UNCHANGED phase => LoaderInv' /\ VerdictInv'
    BY <2>1 DEF LoaderInv, VerdictInv, Shape, CredentialsSeparated, VerdictIsPairwise
  <2> QED
    BY <2>1, <2>2, <2>3 DEF StartInv, Reading, Later, Usable
<1> QED
  BY <1>1, <1>2, <1>3 DEF StartNext

\* The requests a process serves leave its start alone.
THEOREM TrafficStarts == TrafficSpec => StartSpec
<1>1. TrafficInit => StartInit
  BY DEF TrafficInit
<1>2. [TrafficNext]_vars => [StartNext]_startVars
  BY DEF TrafficNext, vars, Start, Send, Crash, Receive, Deliver, AppendNext, AppendFails,
     Acknowledge, PostMessage, TelegramAccepts, Receipt, PostFails, BesideMessage
<1> QED
  BY <1>1, <1>2, PTL DEF TrafficSpec, StartSpec

-----------------------------------------------------------------------------
(* What the loader has decided stays true while the process goes on.       *)

LEMMA UsableSeparated == Usable => Separated(Uses(document))
<1>1. CASE document = NothingRead
  <2>1. Uses(NothingRead) = {}
    BY NoUses, UsesByPart DEF NothingRead
  <2> QED
    BY <1>1, <2>1 DEF Separated
<1>2. CASE ~Offends(document)
  BY <1>2 DEF Offends
<1> QED
  BY <1>1, <1>2 DEF Usable

\* Secrets are separated, and the verdict is right, from the environment to the last
\* request, for documents of any length with any secrets.
THEOREM StartedSeparated ==
  ASSUME FormAssumed
  PROVE  StartSpec => [](CredentialsSeparated /\ VerdictIsPairwise)
<1>1. StartInv => CredentialsSeparated /\ VerdictIsPairwise
  BY UsableSeparated DEF StartInv, LoaderInv, VerdictInv, CredentialsSeparated, VerdictIsPairwise,
     Reading
<1>2. StartInv /\ [StartNext]_startVars => StartInv'
  BY StartStep
<1> QED
  BY <1>1, <1>2, StartBegins, PTL DEF StartSpec

-----------------------------------------------------------------------------
(* The registry.                                                           *)

IsPair(row) == row = <<row[1], row[2]>>

\* The table has two columns.
RowsArePairs ==
  IsPair(LegacyRow) /\ \A rows : \A earlier \in Earlier(rows) : \A row \in earlier : IsPair(row)

\* A registration names its connection and identifies it.
LEMMA OneRegistration ==
  ASSUME Usable, environment.mode = "document",
         NEW row \in Registrations, NEW other \in Registrations, other[1] = row[1]
  PROVE  other = row /\ IsPair(row)
<1>1. row \in {Registration(c) : c \in Members(document.connections)}
      /\ other \in {Registration(c) : c \in Members(document.connections)}
  BY DEF Registrations
<1>2. document # NothingRead
  BY <1>1 DEF NothingRead, Members
<1>3. /\ \A c \in Members(document.connections) : WellFormed(c)
      /\ \A i, j \in 1..Len(document.connections) :
           i # j => ~Clash(document.connections[i], document.connections[j])
  BY <1>2 DEF Usable, Offends, ConnectionsOffend
<1>4. PICK i \in 1..Len(document.connections), j \in 1..Len(document.connections) :
        row = Registration(document.connections[i]) /\ other = Registration(document.connections[j])
  BY <1>1 DEF Members
<1>5. ASSUME NEW c, WellFormed(c)
      PROVE  Registration(c)[1] = c.id /\ IsPair(Registration(c))
  BY <1>5, EntryTypes DEF Registration, IsPair, TelegramBotFeature, ZaloOaFeature, ZaloUserFeature,
     FacebookPageFeature, WhatsAppBusinessFeature
<1>6. document.connections[i].id = document.connections[j].id
  BY <1>3, <1>4, <1>5 DEF Members
<1>7. i = j
  BY <1>3, <1>6 DEF Clash
<1> QED
  BY <1>3, <1>4, <1>5, <1>7 DEF Members

Served ==
  \A row \in Registrations : row \in registry /\ \A other \in registry : other[1] = row[1] => other = row

RegistryInv == phase \in Later => Served

LEMMA RegistryStep ==
  FormAssumed /\ RowsArePairs /\ StartInv /\ RegistryInv /\ [StartNext]_startVars => RegistryInv'
<1> SUFFICES ASSUME FormAssumed, RowsArePairs, StartInv, RegistryInv, [StartNext]_startVars,
                    phase' \in Later
             PROVE  Served'
  BY DEF RegistryInv
<1>1. CASE Register
  <2>1. PICK earlier \in Earlier(Registrations) :
          ~Moves(Registrations, earlier) /\ registry' = earlier \cup Registrations
    BY <1>1 DEF Register, Throws, Later
  <2>2. Registrations' = Registrations
    BY <1>1 DEF Register, Registrations
  <2>3. ASSUME NEW row \in Registrations, NEW other \in Registrations, other[1] = row[1]
        PROVE  other = row
    <3>1. CASE environment.mode = "document"
      <4>1. Usable
        BY <1>1 DEF Register, StartInv, Reading
      <4> QED
        BY <2>3, <3>1, <4>1, OneRegistration
    <3>2. CASE environment.mode # "document"
      BY <2>3, <3>2 DEF Registrations
    <3> QED
      BY <3>1, <3>2
  <2>4. ASSUME NEW row \in Registrations PROVE IsPair(row)
    <3>1. CASE environment.mode = "document"
      <4>1. Usable
        BY <1>1 DEF Register, StartInv, Reading
      <4> QED
        BY <2>4, <3>1, <4>1, OneRegistration
    <3>2. CASE environment.mode # "document"
      BY <2>4, <3>2 DEF Registrations, RowsArePairs
    <3> QED
      BY <3>1, <3>2
  <2>5. ASSUME NEW row \in Registrations, NEW other \in earlier, other[1] = row[1]
        PROVE  other = row
    <3>1. other[2] = row[2]
      BY <2>1, <2>5 DEF Moves
    <3>2. IsPair(other)
      BY <2>1, <2>5 DEF RowsArePairs
    <3> QED
      BY <2>4, <2>5, <3>1, <3>2 DEF IsPair
  <2> QED
    BY <2>1, <2>2, <2>3, <2>5 DEF Served
<1>2. CASE ~Register
  <2>1. phase \in Later /\ UNCHANGED <<document, environment, registry>>
    BY <1>2 DEF StartNext, startVars, Later, ParseEnvironment, CheckDatabase, Load, LoaderNext,
       ReadConnection, EndConnections, ReadInbox, EndInboxes, ReadDashboard, NoDashboardGiven,
       Compose, BuildApp, Listen, Throws, Goes
  <2> QED
    BY <2>1 DEF RegistryInv, Served, Registrations
<1> QED
  BY <1>1, <1>2

\* A process that serves has all its connections registered, each with its account and
\* no other, whatever is in the table and whatever an earlier start has left.
THEOREM ServedRegistered ==
  ASSUME FormAssumed, RowsArePairs
  PROVE  StartSpec => []ServedAreRegistered
<1>1. StartInit => RegistryInv
  BY DEF StartInit, RegistryInv, Later
<1>2. StartInv /\ [StartNext]_startVars => StartInv'
  BY StartStep
<1>3. StartInv /\ RegistryInv /\ [StartNext]_startVars => RegistryInv'
  BY RegistryStep
<1>4. RegistryInv => ServedAreRegistered
  BY DEF RegistryInv, Served, ServedAreRegistered, Later
<1> QED
  BY <1>1, <1>2, <1>3, <1>4, StartBegins, PTL DEF StartSpec

-----------------------------------------------------------------------------
(* The catalogs.                                                           *)

\* The connections of a document the loader has let through.
Admitted ==
  /\ IsList(document.connections) /\ IsList(document.inboxes)
  /\ ~Offends(document)

LEMMA AdmittedEntries ==
  ASSUME Admitted
  PROVE  /\ DOMAIN document.connections = 1..Len(document.connections)
         /\ \A i \in 1..Len(document.connections) : WellFormed(document.connections[i])
         /\ \A i, j \in 1..Len(document.connections) :
              i # j => ~Clash(document.connections[i], document.connections[j])
  BY DEF Admitted, IsList, Offends, ConnectionsOffend, Members

\* A value two entries use has one role.
LEMMA OneRole ==
  ASSUME Admitted,
         NEW i \in 1..Len(document.connections), NEW j \in 1..Len(document.connections),
         NEW u \in ConnectionUses(i, document.connections[i]),
         NEW v \in ConnectionUses(j, document.connections[j]), u[1] = v[1]
  PROVE  u[2] = v[2]
<1>1. u \in Uses(document) /\ v \in Uses(document)
  BY UsesByPart DEF ListUses
<1> QED
  BY <1>1 DEF Admitted, Offends, Separated

LEMMA BeforeIs ==
  ASSUME Admitted, NEW i \in 1..Len(document.connections), NEW d
  PROVE  d \in Before(i) <=>
           \E j \in 1..Len(document.connections) :
             /\ j < i /\ document.connections[j].type = document.connections[i].type
             /\ d = document.connections[j]
  BY AdmittedEntries DEF Before, OfType

\* The bearer and the secrets of an entry of a Meta product.
MetaUses(i, c) ==
  {<<c.operator, <<"operator", i>>>>, <<c.key, <<"app", c.app>>>>, <<c.hook, <<"app", c.app>>>>}

LEMMA MetaUse ==
  ASSUME NEW i, NEW c, c.type \in Meta
  PROVE  ConnectionUses(i, c) = MetaUses(i, c)
BY DEF ConnectionUses, MetaUses, Meta

\* What an entry finds noted of the entries before it is another bearer or an App's.
LEMMA HeldUse ==
  ASSUME Admitted, NEW i \in 1..Len(document.connections), document.connections[i].type \in Meta,
         NEW x \in Held(i)
  PROVE  \E j \in 1..Len(document.connections) :
           /\ j < i /\ document.connections[j] \in Before(i)
           /\ \/ <<x, <<"operator", j>>>> \in ConnectionUses(j, document.connections[j])
              \/ <<x, <<"app", document.connections[j].app>>>>
                   \in ConnectionUses(j, document.connections[j])
<1>1. PICK d \in Before(i) : x \in {d.operator, d.key, d.hook}
  BY DEF Held
<1>2. PICK j \in 1..Len(document.connections) :
        /\ j < i /\ document.connections[j].type = document.connections[i].type
        /\ d = document.connections[j]
  BY BeforeIs
<1>3. ConnectionUses(j, d) = MetaUses(j, d)
  BY <1>2, MetaUse
<1> QED
  BY <1>1, <1>2, <1>3 DEF MetaUses

\* A catalog of a Meta product refuses no entry but one whose secret is its verify token.
LEMMA MetaAdmitted ==
  ASSUME Admitted, NEW i \in 1..Len(document.connections), document.connections[i].type \in Meta,
         MetaEntryRefused(i)
  PROVE  document.connections[i].key = document.connections[i].hook
<1> DEFINE c == document.connections[i]
<1>1. ConnectionUses(i, c) = MetaUses(i, c)
  BY MetaUse
<1>2. WellFormed(c)
  BY AdmittedEntries
<1>3. Identifier(c.id) /\ {c.operator, c.key, c.hook} \cap ShortSecret = {}
  BY <1>2 DEF WellFormed, TelegramBot, ZaloOa, ZaloUser, FacebookPage, WhatsAppBusiness, Meta
<1>4. ASSUME NEW d \in Before(i)
      PROVE  ~Clash(c, d) /\ ~Clash(d, c) /\ d.type = c.type
  BY BeforeIs, AdmittedEntries
<1>5. \A d \in Before(i) : d.id # c.id /\ d.account # c.account
  BY <1>4 DEF Clash, Account, Meta
<1>6. \A d \in Before(i) : d.app = c.app => <<d.key, d.hook>> = <<c.key, c.hook>>
  BY <1>4 DEF Clash, Meta
<1>7. ASSUME NEW x \in Held(i), NEW role, <<x, role>> \in MetaUses(i, c)
      PROVE  \E d \in Before(i) : role = <<"app", d.app>>
  <2>1. PICK j \in 1..Len(document.connections) :
           /\ j < i /\ document.connections[j] \in Before(i)
           /\ \/ <<x, <<"operator", j>>>> \in ConnectionUses(j, document.connections[j])
              \/ <<x, <<"app", document.connections[j].app>>>>
                   \in ConnectionUses(j, document.connections[j])
    BY HeldUse
  <2>2. role = <<"operator", j>> \/ role = <<"app", document.connections[j].app>>
    <3> DEFINE d == document.connections[j]
    <3>1. ASSUME NEW other, <<x, other>> \in ConnectionUses(j, d) PROVE role = other
      BY <1>1, <1>7, <3>1, OneRole
    <3> QED
      BY <2>1, <3>1
  <2>3. role # <<"operator", j>>
    BY <1>7, <2>1 DEF MetaUses
  <2> QED
    BY <2>1, <2>2, <2>3
<1>8. c.operator \notin Held(i)
  <2>1. <<c.operator, <<"operator", i>>>> \in MetaUses(i, c)
    BY DEF MetaUses
  <2> QED
    BY <1>7, <2>1
<1>9. ASSUME \A d \in Before(i) : d.app # c.app PROVE c.key \notin Held(i) /\ c.hook \notin Held(i)
  <2>1. {<<c.key, <<"app", c.app>>>>, <<c.hook, <<"app", c.app>>>>} \subseteq MetaUses(i, c)
    BY DEF MetaUses
  <2> QED
    BY <1>7, <1>9, <2>1
<1> QED
  BY <1>3, <1>5, <1>6, <1>8, <1>9 DEF MetaEntryRefused

\* The first entry of such an App is refused.
LEMMA EqualRefused ==
  ASSUME Admitted, NEW c \in Members(document.connections), c.type \in Meta, c.key = c.hook
  PROVE  \E i \in 1..Len(document.connections) :
           document.connections[i].type = c.type /\ MetaEntryRefused(i)
<1> DEFINE P == {i \in 1..Len(document.connections) :
                   document.connections[i].type = c.type /\ document.connections[i].app = c.app}
<1>1. P # {} /\ P \subseteq Nat
  BY DEF Members
<1> HIDE DEF P
<1>2. PICK i \in P : \A j \in P : ~(j < i)
  <2>1. IsWellFoundedOn({ss \in Nat \X Nat : ss[1] < ss[2]}, Nat)
    BY NatLessThanWellFounded, Zenon DEF OpToRel
  <2>2. PICK i \in P : \A j \in P : ~(<<j, i>> \in {ss \in Nat \X Nat : ss[1] < ss[2]})
    BY <1>1, <2>1, WFMin
  <2> QED
    BY <1>1, <2>2
<1>3. i \in 1..Len(document.connections)
      /\ document.connections[i].type = c.type /\ document.connections[i].app = c.app
  BY DEF P
<1>4. \A d \in Before(i) : d.app # c.app
  BY <1>2, <1>3, BeforeIs DEF P
<1>5. document.connections[i].key = document.connections[i].hook
  <2>1. PICK k \in 1..Len(document.connections) : c = document.connections[k]
    BY DEF Members
  <2>2. CASE k = i
    BY <2>1, <2>2
  <2>3. CASE k # i
    <3>1. ~Clash(document.connections[i], document.connections[k])
      BY <1>3, <2>3, AdmittedEntries
    <3>2. <<document.connections[i].key, document.connections[i].hook>> = <<c.key, c.hook>>
      BY <1>3, <2>1, <3>1 DEF Clash
    <3> QED
      BY <3>2
  <2> QED
    BY <2>2, <2>3
<1> QED
  BY <1>3, <1>4, <1>5 DEF MetaEntryRefused

-----------------------------------------------------------------------------
(* The message of a Bot.                                                   *)

\* How far a message has come: it is taken once at most, and before its receipt.
MessageInv ==
  \/ message.step \in {"idle", "posted"} /\ message.accepted = 0 /\ message.answer = 0
  \/ message.step = "accepted" /\ message.accepted = 1 /\ message.answer = 0
  \/ message.step = "answered" /\ message.accepted = 1 /\ message.answer \in {200, 502}
  \/ message.step = "answered" /\ message.accepted = 0 /\ message.answer \in {400, 502}

MessageFields == DOMAIN message = {"from", "step", "accepted", "answer"}

LEMMA MessageStep == MessageInv /\ MessageFields /\ [TrafficNext]_vars => MessageInv' /\ MessageFields'
<1> SUFFICES ASSUME MessageInv, MessageFields, [TrafficNext]_vars PROVE MessageInv' /\ MessageFields'
  OBVIOUS
<1>1. CASE PostMessage
  <2>1. PICK c \in ServedConnections("telegram_bot"), blank \in BOOLEAN :
          message' = [NoMessage EXCEPT !.from = c.id,
                                       !.step = IF blank THEN "answered" ELSE "posted",
                                       !.answer = IF blank THEN 400 ELSE 0]
    BY <1>1 DEF PostMessage
  <2> QED
    BY <2>1 DEF MessageInv, MessageFields, NoMessage
<1>2. CASE TelegramAccepts
  BY <1>2 DEF TelegramAccepts, MessageInv, MessageFields
<1>3. CASE Receipt
  BY <1>3 DEF Receipt, MessageInv, MessageFields
<1>4. CASE PostFails
  BY <1>4 DEF PostFails, AfterFailure, MessageInv, MessageFields
<1>5. CASE UNCHANGED message
  BY <1>5 DEF MessageInv, MessageFields
<1> QED
  BY <1>1, <1>2, <1>3, <1>4, <1>5 DEF TrafficNext, vars, trafficVars, Start, Send, Crash, Receive,
     Deliver, AppendNext, AppendFails, Acknowledge

\* One request is one message at most, and a receipt is given for a message Telegram
\* has taken, whatever fails, and however late Telegram takes it.
THEOREM ReceiptsTrue == TrafficSpec => []ReceiptsAreTrue
<1>1. TrafficInit => MessageInv /\ MessageFields
  BY DEF TrafficInit, NoMessage, MessageInv, MessageFields
<1>2. MessageInv => ReceiptsAreTrue
  BY DEF MessageInv, ReceiptsAreTrue
<1> QED
  BY <1>1, <1>2, MessageStep, PTL DEF TrafficSpec

\* The lists of a document are lists.
FormInv ==
  /\ \A b \in Members(document.inboxes) : IsList(b.connections)
  /\ document.dashboard # NoDashboard => ListsIn(document.dashboard)

LEMMA FormStep == FormAssumed /\ StartInv /\ FormInv /\ [StartNext]_startVars => FormInv'
<1> SUFFICES ASSUME FormAssumed, StartInv, FormInv, [StartNext]_startVars PROVE FormInv'
  OBVIOUS
<1>1. CASE Load /\ ReadInbox
  <2>1. PICK b \in NextInboxes(document) : document' = [document EXCEPT !.inboxes = Append(@, b)]
    BY <1>1 DEF ReadInbox
  <2>2. LoaderInv
    BY <1>1 DEF ReadInbox, StartInv, Reading
  <2>3. /\ document'.inboxes = Append(document.inboxes, b)
        /\ document'.dashboard = document.dashboard
    BY <2>1, <2>2 DEF LoaderInv, Shape
  <2>4. Members(document'.inboxes) = Members(document.inboxes) \cup {b} /\ IsList(b.connections)
    BY <2>3, MembersAppend DEF FormAssumed, StartInv
  <2> QED
    BY <2>3, <2>4 DEF FormInv
<1>2. CASE Load /\ ReadDashboard
  <2>1. PICK d \in NextDashboards(document) : document' = [document EXCEPT !.dashboard = d]
    BY <1>2 DEF ReadDashboard
  <2>2. LoaderInv
    BY <1>2 DEF ReadDashboard, StartInv, Reading
  <2>3. document'.inboxes = document.inboxes /\ document'.dashboard = d /\ ListsIn(d)
    BY <2>1, <2>2 DEF LoaderInv, Shape, FormAssumed
  <2> QED
    BY <2>3 DEF FormInv
<1>3. CASE Load /\ ReadConnection
  <2>1. PICK c \in NextConnections(document.connections) :
          document' = [document EXCEPT !.connections = Append(@, c)]
    BY <1>3 DEF ReadConnection
  <2>2. LoaderInv
    BY <1>3 DEF ReadConnection, StartInv, Reading
  <2>3. document'.inboxes = document.inboxes /\ document'.dashboard = document.dashboard
    BY <2>1, <2>2 DEF LoaderInv, Shape
  <2> QED
    BY <2>3 DEF FormInv
<1>4. CASE UNCHANGED document
  BY <1>4 DEF FormInv
<1> QED
  BY <1>1, <1>2, <1>3, <1>4 DEF StartNext, startVars, ParseEnvironment, CheckDatabase, Load, LoaderNext,
     EndConnections, EndInboxes, NoDashboardGiven, Register, Compose, BuildApp, Listen

\* What a Bot or a bridge is called with.
LEMMA BearerUses ==
  ASSUME NEW i, NEW c
  PROVE  /\ <<c.operator, <<"operator", i>>>> \in ConnectionUses(i, c)
         /\ c.type = "telegram_bot" => <<c.hook, <<"hook", i>>>> \in ConnectionUses(i, c)
         /\ c.type = "zalo_user" => <<c.key, <<"bridge", i>>>> \in ConnectionUses(i, c)
BY DEF ConnectionUses

\* The other catalogs refuse nothing.
LEMMA TelegramAdmitted == ASSUME Admitted PROVE ~TelegramBotsRefused
<1> SUFFICES ASSUME NEW i \in OfType("telegram_bot"),
                    LET c == document.connections[i]
                        credentials == UNION {{d.operator, d.hook} : d \in Before(i)} IN
                    \/ ~Identifier(c.id) \/ c.operator \in ShortSecret \/ c.hook \notin WebhookSecret
                    \/ \E d \in Before(i) : d.id = c.id
                    \/ c.operator \in credentials \/ c.hook \in credentials
             PROVE  FALSE
  BY DEF TelegramBotsRefused
<1> DEFINE c == document.connections[i]
<1>1. i \in 1..Len(document.connections) /\ c.type = "telegram_bot" /\ WellFormed(c)
  BY AdmittedEntries DEF OfType
<1>2. Identifier(c.id) /\ c.operator \notin ShortSecret /\ c.hook \in WebhookSecret
  BY <1>1 DEF WellFormed, TelegramBot, ZaloOa, ZaloUser, FacebookPage, WhatsAppBusiness
<1>3. PICK d \in Before(i) : d.id = c.id \/ {d.operator, d.hook} \cap {c.operator, c.hook} # {}
  BY <1>2
<1>4. PICK j \in 1..Len(document.connections) :
        j < i /\ d.type = "telegram_bot" /\ d = document.connections[j]
  BY <1>1, BeforeIs
<1>5. d.id # c.id
  BY <1>1, <1>4, AdmittedEntries DEF Clash
<1>6. PICK x : x \in {d.operator, d.hook} /\ x \in {c.operator, c.hook}
  BY <1>3, <1>5
<1>7. PICK mine \in {<<"operator", j>>, <<"hook", j>>} : <<x, mine>> \in ConnectionUses(j, d)
  BY <1>4, <1>6, BearerUses
<1>8. PICK other \in {<<"operator", i>>, <<"hook", i>>} : <<x, other>> \in ConnectionUses(i, c)
  BY <1>1, <1>6, BearerUses
<1>9. mine = other
  BY <1>1, <1>4, <1>7, <1>8, OneRole
<1> QED
  BY <1>4, <1>7, <1>8, <1>9

LEMMA ZaloOaAdmitted == ASSUME Admitted PROVE ~ZaloOasRefused
<1> SUFFICES ASSUME NEW i \in OfType("zalo_oa"),
                    LET c == document.connections[i] IN
                    \/ ~Identifier(c.id) \/ c.operator \in ShortSecret
                    \/ \E d \in Before(i) :
                         \/ d.id = c.id \/ d.operator = c.operator
                         \/ d.app = c.app /\ d.account = c.account
             PROVE  FALSE
  BY DEF ZaloOasRefused
<1> DEFINE c == document.connections[i]
<1>1. i \in 1..Len(document.connections) /\ c.type = "zalo_oa" /\ WellFormed(c)
  BY AdmittedEntries DEF OfType
<1>2. PICK d \in Before(i) : d.id = c.id \/ d.operator = c.operator
                             \/ (d.app = c.app /\ d.account = c.account)
  BY <1>1 DEF WellFormed
<1>3. PICK j \in 1..Len(document.connections) :
        j < i /\ d.type = "zalo_oa" /\ d = document.connections[j]
  BY <1>1, BeforeIs
<1>4. ~Clash(d, c)
  BY <1>1, <1>3, AdmittedEntries
<1>5. d.operator = c.operator
  BY <1>1, <1>2, <1>3, <1>4 DEF Clash, Account
<1>6. /\ <<d.operator, <<"operator", j>>>> \in ConnectionUses(j, d)
      /\ <<c.operator, <<"operator", i>>>> \in ConnectionUses(i, c)
  BY DEF ConnectionUses
<1>7. <<"operator", j>> = <<"operator", i>>
  BY <1>1, <1>3, <1>5, <1>6, OneRole
<1> QED
  BY <1>3, <1>7

LEMMA ZaloUserAdmitted == ASSUME Admitted PROVE ~ZaloUsersRefused
<1> SUFFICES ASSUME NEW i \in OfType("zalo_user"),
                    LET c == document.connections[i] IN
                    \/ ~Identifier(c.id) \/ {c.operator, c.key} \cap ShortSecret # {}
                    \/ \E d \in Before(i) :
                         \/ d.id = c.id \/ d.account = c.account
                         \/ {d.operator, d.key} \cap {c.operator, c.key} # {}
             PROVE  FALSE
  BY DEF ZaloUsersRefused
<1> DEFINE c == document.connections[i]
<1>1. i \in 1..Len(document.connections) /\ c.type = "zalo_user" /\ WellFormed(c)
  BY AdmittedEntries DEF OfType
<1>2. Identifier(c.id) /\ {c.operator, c.key} \cap ShortSecret = {}
  BY <1>1 DEF WellFormed, TelegramBot, ZaloOa, ZaloUser, FacebookPage, WhatsAppBusiness
<1>3. PICK d \in Before(i) : d.id = c.id \/ d.account = c.account
                             \/ {d.operator, d.key} \cap {c.operator, c.key} # {}
  BY <1>2
<1>4. PICK j \in 1..Len(document.connections) :
        j < i /\ d.type = "zalo_user" /\ d = document.connections[j]
  BY <1>1, BeforeIs
<1>5. ~Clash(d, c)
  BY <1>1, <1>4, AdmittedEntries
<1>6. PICK x : x \in {d.operator, d.key} /\ x \in {c.operator, c.key}
  BY <1>1, <1>3, <1>4, <1>5 DEF Clash, Account
<1>7. PICK mine \in {<<"operator", j>>, <<"bridge", j>>} : <<x, mine>> \in ConnectionUses(j, d)
  BY <1>4, <1>6, BearerUses
<1>8. PICK other \in {<<"operator", i>>, <<"bridge", i>>} : <<x, other>> \in ConnectionUses(i, c)
  BY <1>1, <1>6, BearerUses
<1>9. mine = other
  BY <1>1, <1>4, <1>7, <1>8, OneRole
<1> QED
  BY <1>4, <1>7, <1>8, <1>9

LEMMA InboxesAdmitted == ASSUME Admitted, FormInv PROVE ~InboxesRefused
<1> DEFINE list == document.inboxes
           known == {c.id : c \in Members(document.connections)}
<1>1. /\ Len(list) <= MaxInboxes /\ Distinct([i \in 1..Len(list) |-> list[i].id])
      /\ \A b \in Members(list) :
           /\ Identifier(b.id) /\ b.token \notin ShortSecret
           /\ Len(b.connections) = Cardinality(Members(b.connections) \cap known)
           /\ Len(b.connections) \in 1..MaxConnections
  <2>1. ~InboxesOffend(list, known) /\ Len(list) \in Nat
    BY DEF Admitted, Offends, IsList
  <2> HIDE DEF list, known
  <2>2. Distinct([i \in 1..Len(list) |-> list[i].id]) /\ ~(Len(list) > MaxInboxes)
    BY <2>1, Zenon DEF InboxesOffend
  <2>3. Len(list) <= MaxInboxes
    BY <2>1, <2>2, LoaderAssumption
  <2>4. ASSUME NEW b \in Members(list)
        PROVE  /\ Identifier(b.id) /\ b.token \notin ShortSecret
               /\ Len(b.connections) = Cardinality(Members(b.connections) \cap known)
               /\ Len(b.connections) \in 1..MaxConnections
    BY <2>1, <2>4, Zenon DEF InboxesOffend
  <2> QED
    BY <2>2, <2>3, <2>4
<1>2. \A b \in Members(list) : Distinct(b.connections)
  BY <1>1, ListCounts DEF FormInv
<1>3. ASSUME NEW i \in 1..Len(list), NEW j \in 1..(i - 1)
      PROVE  list[j].id # list[i].id /\ list[j].token # list[i].token
  <2>1. j \in 1..Len(list) /\ j # i
    BY DEF Admitted, IsList
  <2>2. list[j].id # list[i].id
    BY <1>1, <2>1, DistinctIds DEF Admitted
  <2>3. {<<list[j].token, <<"inbox", j>>>>, <<list[i].token, <<"inbox", i>>>>} \subseteq Uses(document)
    BY <2>1, UsesByPart DEF InboxUses
  <2>4. list[j].token # list[i].token
    BY <2>1, <2>3 DEF Admitted, Offends, Separated
  <2> QED
    BY <2>2, <2>4
<1>4. \A i \in 1..Len(list) : list[i] \in Members(list)
  BY DEF Members
<1>5. Len(list) \in Nat
  BY DEF Admitted, IsList
<1>6. ASSUME NEW i \in 1..Len(list), NEW j \in 1..(i - 1)
      PROVE  ~(list[j].id = list[i].id \/ list[j].token = list[i].token)
  BY <1>3
<1>7. ~(Len(list) > MaxInboxes)
  BY <1>1, <1>5, LoaderAssumption
<1>8. InboxesRefused <=>
        \/ Len(list) > MaxInboxes
        \/ \E i \in 1..Len(list) :
             \/ ~Identifier(list[i].id) \/ list[i].token \in ShortSecret
             \/ Len(list[i].connections) \notin 1..MaxConnections \/ ~Distinct(list[i].connections)
             \/ \E j \in 1..(i - 1) : list[j].id = list[i].id \/ list[j].token = list[i].token
  BY DEF InboxesRefused
<1> HIDE DEF list
<1> QED
  BY <1>1, <1>2, <1>4, <1>6, <1>7, <1>8

LEMMA DashboardAdmitted ==
  ASSUME Admitted, FormInv, document.dashboard # NoDashboard
  PROVE  ~DashboardRefused
<1> DEFINE d == document.dashboard
           known == {b.id : b \in Members(document.inboxes)}
<1>1. ~DashboardOffends(d, known) /\ ListsIn(d)
  BY DEF Admitted, Offends, FormInv
<1>2. known = InboxIds /\ Members(d.principals) = Principals
  BY DEF InboxIds, Principals
<1> HIDE DEF d, known
<1>3. /\ Distinct(PrincipalIds(d))
      /\ d.bootstrap \in Members(PrincipalIds(d)) \cup {None}
  BY <1>1, Zenon DEF DashboardOffends
<1>4. ASSUME NEW p \in Members(d.principals)
      PROVE  ~PrincipalRefused(p)
  <2>1. \A list \in {p.inboxes, p.replies, p.deliveries} :
          Len(list) = Cardinality(Members(list) \cap Members(p.inboxes) \cap known)
    BY <1>1, <1>4, Zenon DEF DashboardOffends
  <2>2. ASSUME NEW list \in {p.inboxes, p.replies, p.deliveries}
        PROVE  Members(list) \subseteq Members(p.inboxes) \cap known
    <3> DEFINE K == Members(p.inboxes) \cap known
    <3>1. Members(list) \cap Members(p.inboxes) \cap known = Members(list) \cap K
      OBVIOUS
    <3>2. IsList(list)
      BY <1>1, <1>4 DEF ListsIn
    <3> HIDE DEF K
    <3>3. Members(list) \subseteq K
      BY <2>1, <3>1, <3>2, ListCounts
    <3> QED
      BY <3>3 DEF K
  <2> QED
    BY <1>2, <2>2 DEF PrincipalRefused, ReplyInboxes, DeliveryInboxes
<1> QED
  BY <1>2, <1>3, <1>4 DEF DashboardRefused, d

\* An App whose secret is its verify token.
EqualSecrets == \E c \in Members(document.connections) : c.type \in Meta /\ c.key = c.hook

LEMMA CatalogsDecide ==
  ASSUME Usable, IsList(document.connections), IsList(document.inboxes), FormInv
  PROVE  /\ CatalogsRefuse <=> EqualSecrets
         /\ document.dashboard # NoDashboard => ~DashboardRefused
<1>1. CASE document = NothingRead
  <2>1. \A type : OfType(type) = {}
    BY <1>1 DEF OfType, NothingRead
  <2>2. ~InboxesRefused
    <3>1. document.inboxes = <<>>
      BY <1>1 DEF NothingRead
    <3> QED
      BY <3>1, LoaderAssumption DEF InboxesRefused
  <2>3. ~CatalogsRefuse
    BY <2>1, <2>2 DEF CatalogsRefuse, FacebookPagesRefused, WhatsAppBusinessesRefused,
       TelegramBotsRefused, ZaloOasRefused, ZaloUsersRefused
  <2>4. Members(document.connections) = {} /\ document.dashboard = NoDashboard
    BY <1>1 DEF NothingRead, Members
  <2> QED
    BY <2>3, <2>4 DEF EqualSecrets
<1>2. CASE ~Offends(document)
  <2>1. Admitted
    BY <1>2 DEF Admitted
  <2>2. ASSUME NEW i \in 1..Len(document.connections), document.connections[i].type \in Meta,
               MetaEntryRefused(i)
        PROVE  EqualSecrets
    BY <2>1, <2>2, MetaAdmitted DEF EqualSecrets, Members
  <2>3. ASSUME NEW i \in OfType("whatsapp_business"), NEW d \in Before(i)
        PROVE  ~(d.waba = document.connections[i].waba /\ d.app # document.connections[i].app)
    <3>1. i \in 1..Len(document.connections)
          /\ document.connections[i].type = "whatsapp_business"
      BY <2>1, AdmittedEntries DEF OfType
    <3>2. ~Clash(d, document.connections[i]) /\ d.type = "whatsapp_business"
      BY <2>1, <3>1, AdmittedEntries, BeforeIs
    <3> QED
      BY <3>1, <3>2 DEF Clash
  <2>4. CatalogsRefuse => EqualSecrets
    <3>1. ~(TelegramBotsRefused \/ ZaloOasRefused \/ ZaloUsersRefused \/ InboxesRefused)
      BY <2>1, TelegramAdmitted, ZaloOaAdmitted, ZaloUserAdmitted, InboxesAdmitted
    <3>2. CatalogsRefuse =>
            \E i \in OfType("facebook_page") \cup OfType("whatsapp_business") : MetaEntryRefused(i)
      BY <2>3, <3>1, Zenon DEF CatalogsRefuse, FacebookPagesRefused, WhatsAppBusinessesRefused
    <3>3. \A i \in OfType("facebook_page") \cup OfType("whatsapp_business") :
            i \in 1..Len(document.connections) /\ document.connections[i].type \in Meta
      BY <2>1, AdmittedEntries DEF OfType, Meta
    <3> QED
      BY <2>2, <3>2, <3>3
  <2>5. EqualSecrets => CatalogsRefuse
    <3> SUFFICES ASSUME NEW c \in Members(document.connections), c.type \in Meta, c.key = c.hook
                 PROVE  CatalogsRefuse
      BY DEF EqualSecrets
    <3>1. PICK i \in 1..Len(document.connections) :
            document.connections[i].type = c.type /\ MetaEntryRefused(i)
      BY <2>1, EqualRefused
    <3>2. i \in OfType("facebook_page") \/ i \in OfType("whatsapp_business")
      BY <2>1, <3>1, AdmittedEntries DEF OfType, Meta
    <3> QED
      BY <3>1, <3>2, Zenon DEF CatalogsRefuse, FacebookPagesRefused, WhatsAppBusinessesRefused
  <2> QED
    BY <2>1, <2>4, <2>5, DashboardAdmitted
<1> QED
  BY <1>1, <1>2 DEF Usable

CatalogInv ==
  /\ failure = "catalog" => EqualSecrets
  /\ phase \in {"built", "listening"} => ~EqualSecrets

LEMMA CatalogStep ==
  StartInv /\ FormInv /\ CatalogInv /\ [StartNext]_startVars => CatalogInv'
<1> SUFFICES ASSUME StartInv, FormInv, CatalogInv, [StartNext]_startVars PROVE CatalogInv'
  OBVIOUS
<1>1. CASE BuildApp
  <2>1. phase = "composed" /\ UNCHANGED document /\ failure = None
        /\ IF CatalogsRefuse THEN Throws("catalog") ELSE Goes("built")
    BY <1>1 DEF BuildApp, StartInv
  <2>2. CatalogsRefuse <=> EqualSecrets
    BY <2>1, CatalogsDecide DEF StartInv, Reading
  <2> QED
    BY <2>1, <2>2 DEF CatalogInv, EqualSecrets, Throws, Goes, None
<1>2. CASE Compose
  <2>1. phase = "registered" /\ UNCHANGED document /\ failure = None
    BY <1>2 DEF Compose, StartInv
  <2>2. document.dashboard # NoDashboard => ~DashboardRefused
    BY <2>1, CatalogsDecide DEF StartInv, Reading
  <2>3. failure' # "catalog" /\ phase' \in {"failed", "composed"}
    BY <1>2, <2>1, <2>2 DEF Compose, Throws, Goes, None
  <2> QED
    BY <2>3 DEF CatalogInv
<1>3. CASE Listen
  BY <1>3 DEF Listen, CatalogInv, EqualSecrets, Throws, Goes, StartInv
<1>4. CASE UNCHANGED startVars
  BY <1>4 DEF startVars, CatalogInv, EqualSecrets
<1>5. CASE ParseEnvironment \/ CheckDatabase \/ Load \/ Register
  <2>1. failure = None /\ phase' \notin {"built", "listening"}
    BY <1>5 DEF ParseEnvironment, CheckDatabase, Load, LoaderNext, ReadConnection, EndConnections,
       ReadInbox, EndInboxes, ReadDashboard, NoDashboardGiven, Register, StartInv, Throws, Goes
  <2>2. failure' # "catalog"
    BY <1>5, <2>1 DEF ParseEnvironment, CheckDatabase, Load, Register, Throws, Goes, None
  <2> QED
    BY <2>1, <2>2 DEF CatalogInv
<1> QED
  BY <1>1, <1>2, <1>3, <1>4, <1>5 DEF StartNext

\* The catalogs and the dashboard check refuse nothing the loader has let through but an
\* App whose secret is its verify token, and that always: for documents of any length.
THEOREM CatalogsAlike ==
  ASSUME FormAssumed
  PROVE  StartSpec => []CatalogsAgree
<1>1. StartInit => FormInv /\ CatalogInv
  <2> SUFFICES ASSUME StartInit PROVE FormInv /\ CatalogInv
    OBVIOUS
  <2>1. document.inboxes = <<>> /\ document.dashboard = NoDashboard
        /\ failure = None /\ phase = "environment"
    BY DEF StartInit
  <2>2. Members(document.inboxes) = {}
    BY <2>1 DEF Members
  <2> QED
    BY <2>1, <2>2 DEF FormInv, CatalogInv, None
<1>2. StartInv /\ [StartNext]_startVars => StartInv'
  BY StartStep
<1>3. StartInv /\ FormInv /\ [StartNext]_startVars => FormInv'
  BY FormStep
<1>4. CatalogInv => CatalogsAgree
  BY DEF CatalogInv, CatalogsAgree, EqualSecrets
<1> QED
  BY <1>1, <1>2, <1>3, <1>4, StartBegins, CatalogStep, PTL DEF StartSpec

-----------------------------------------------------------------------------
(* Webhooks.                                                               *)

Routes == Meta \cup {"meta", "zalo_oa", "telegram_bot", "zalo_user"}

\* What the routes parse: other than those of Meta, a webhook carries one event of
\* its own product.
WellSent ==
  \A doc : \A e \in Traffic(doc) :
    /\ e.route \in Routes
    /\ e.route \notin Meta \cup {"meta"} => e.object = e.route /\ Len(e.entries) = 1

\* The Apps a batch may be of are those of its accounts, and there is one of them.
LEMMA PageAppIs ==
  ASSUME NEW e, NEW t, NEW a, <<t, a>> \in PageApp(e)
  PROVE  /\ t = "facebook_page" /\ e.object = "page"
         /\ \A x \in Members(e.entries) : x.account \in PageIds(e)
<1>1. t = "facebook_page" /\ a \in AppByPageIds(PageIds(e))
  BY DEF PageApp
<1>2. PageIds(e) # {}
  BY <1>1 DEF AppByPageIds
<1> QED
  BY <1>1, <1>2 DEF PageIds

LEMMA WabaAppIs ==
  ASSUME NEW e, NEW t, NEW a, <<t, a>> \in WabaApp(e)
  PROVE  /\ t = "whatsapp_business" /\ e.object = "whatsapp_business_account"
         /\ \A x \in Members(e.entries) : x.waba \in WabaIds(e)
<1>1. t = "whatsapp_business" /\ a \in AppByWabaIds(WabaIds(e))
  BY DEF WabaApp
<1>2. WabaIds(e) # {}
  BY <1>1 DEF AppByWabaIds
<1> QED
  BY <1>1, <1>2 DEF WabaIds

\* A selected connection: its type, its secret, and how it was found.
LEMMA Selected ==
  ASSUME NEW e, e.route \in Routes, NEW c, Selects(e, c)
  PROVE  \/ <<c.type, c.app>> \in PageApp(e) /\ c.key = e.key
         \/ <<c.type, c.app>> \in WabaApp(e) /\ c.key = e.key
         \/ e.route = "zalo_oa" /\ ZaloOaRoute(e, c)
         \/ e.route = "telegram_bot" /\ TelegramBotRoute(e, c)
         \/ e.route = "zalo_user" /\ ZaloUserRoute(e, c)
<1>1. CASE e.route = "facebook_page"
  BY <1>1 DEF Selects, FacebookPageRoute
<1>2. CASE e.route = "whatsapp_business"
  BY <1>2 DEF Selects, WhatsAppBusinessRoute
<1>3. CASE e.route = "meta"
  BY <1>3 DEF Selects, MetaRoute, SharedApp
<1>4. CASE e.route \in {"zalo_oa", "telegram_bot", "zalo_user"}
  BY <1>4 DEF Selects
<1> QED
  BY <1>1, <1>2, <1>3, <1>4 DEF Routes, Meta

\* An event goes to the account it is for, with the secret of that account.
LEMMA Addressed ==
  ASSUME NEW e, e.route \in Routes, e.route \notin Meta \cup {"meta"} => e.object = e.route,
         NEW i \in Features(e), NEW x \in Events(e, document.connections[i])
  PROVE  /\ document.connections[i] \in Owners(e, x)
         /\ Secret(document.connections[i]) = e.key /\ x \in Members(e.entries)
<1> DEFINE c == document.connections[i]
<1>1. /\ \A type : c.type = type => c \in ServedConnections(type)
      /\ Selects(e, c) /\ x \in Members(e.entries) /\ Event(x, c)
  BY DEF Features, Events, ServedConnections, OfType
<1> HIDE DEF c
<1>2. CASE <<c.type, c.app>> \in PageApp(e) /\ c.key = e.key
  <2>1. c.type = "facebook_page" /\ e.object = "page"
    BY <1>2, PageAppIs
  <2>2. x.account = c.account
    BY <1>1, <2>1 DEF Event, FacebookPageEvent
  <2> QED
    BY <1>1, <1>2, <2>1, <2>2 DEF Owners, Product, Secret, c
<1>3. CASE <<c.type, c.app>> \in WabaApp(e) /\ c.key = e.key
  <2>1. c.type = "whatsapp_business" /\ e.object = "whatsapp_business_account"
    BY <1>3, WabaAppIs
  <2>2. x.account = c.account
    BY <1>1, <2>1 DEF Event, WhatsAppBusinessEvent
  <2> QED
    BY <1>1, <1>3, <2>1, <2>2 DEF Owners, Product, Secret, c
<1>4. CASE e.route = "zalo_oa" /\ ZaloOaRoute(e, c)
  <2>1. c.type = "zalo_oa" /\ e.object = "zalo_oa" /\ c.key = e.key
    BY <1>4 DEF ZaloOaRoute, ZaloOaMatches, Meta
  <2>2. x.account = c.account /\ x.app = c.app
    BY <1>1, <2>1 DEF Event, ZaloOaEvent
  <2> QED
    BY <1>1, <2>1, <2>2 DEF Owners, Product, Secret, c
<1>5. CASE e.route = "telegram_bot" /\ TelegramBotRoute(e, c)
  <2>1. c.type = "telegram_bot" /\ e.object = "telegram_bot" /\ c.hook = e.key /\ c.id = e.to
    BY <1>5 DEF TelegramBotRoute, Meta
  <2> QED
    BY <1>1, <2>1 DEF Owners, Product, Secret, c
<1>6. CASE e.route = "zalo_user" /\ ZaloUserRoute(e, c)
  <2>1. c.type = "zalo_user" /\ e.object = "zalo_user" /\ c.key = e.key
    BY <1>6 DEF ZaloUserRoute, Meta
  <2>2. x.account = c.account
    BY <1>1, <2>1 DEF Event, ZaloUserEvent
  <2> QED
    BY <1>1, <2>1, <2>2 DEF Owners, Product, Secret, c
<1> QED
  BY <1>1, <1>2, <1>3, <1>4, <1>5, <1>6, Selected DEF c

\* What one connection stores of a webhook.
Rows(e, i) == {<<document.connections[i].id, x>> : x \in Events(e, document.connections[i])}

\* A worker is idle, or serves a webhook that is not refused and has stored what it does
\* not have to append any more.
Flow(w) ==
  \/ serving[w] = Idle
  \/ \E e \in Members(sent) : \E todo \in SUBSET Appends(e) :
       /\ serving[w] = [envelope |-> e, todo |-> todo] /\ ~Refuses(e)
       /\ \A i \in Appends(e) \ todo : Rows(e, i) \subseteq stored

Acked == \A e \in acked : e \in Members(sent) /\ ~Refuses(e) /\ \A i \in Appends(e) : Rows(e, i) \subseteq stored
Stored == \A row \in stored : \E e \in Members(sent) : \E i \in Appends(e) : row \in Rows(e, i)

FlowInv ==
  /\ IsList(sent) /\ (Members(sent) # {} => phase = "listening")
  /\ Members(sent) \subseteq Traffic(document)
  /\ serving = [w \in Workers |-> serving[w]] /\ \A w \in Workers : Flow(w)
  /\ Acked /\ Stored

LEMMA FlowBegins == TrafficInit => FlowInv
<1> SUFFICES ASSUME TrafficInit PROVE FlowInv
  OBVIOUS
<1>1. sent = <<>> /\ acked = {} /\ stored = {} /\ serving = [w \in Workers |-> Idle]
  BY DEF TrafficInit
<1>2. IsList(sent) /\ Members(sent) = {}
  BY <1>1, NoUses DEF Members
<1> QED
  BY <1>1, <1>2 DEF FlowInv, Flow, Acked, Stored

\* What a webhook is to be stored under follows from the document.
LEMMA SameRows ==
  ASSUME document' = document, NEW e
  PROVE  /\ Appends(e)' = Appends(e) /\ (Refuses(e)' <=> Refuses(e))
         /\ \A i : Rows(e, i)' = Rows(e, i)
<1>1. \A type : ServedConnections(type)' = ServedConnections(type)
  BY DEF ServedConnections, OfType
<1>2. PageApp(e)' = PageApp(e) /\ WabaApp(e)' = WabaApp(e)
  BY <1>1 DEF PageApp, WabaApp, AppByPageIds, AppByWabaIds
<1>3. SharedApp(e)' = SharedApp(e)
  BY <1>2 DEF SharedApp
<1>4. \A c : Selects(e, c)' <=> Selects(e, c)
  BY <1>2, <1>3 DEF Selects, FacebookPageRoute, WhatsAppBusinessRoute, MetaRoute
<1>5. Features(e)' = Features(e)
  BY <1>4 DEF Features
<1>6. Appends(e)' = Appends(e)
  BY <1>5 DEF Appends
<1> QED
  BY <1>5, <1>6 DEF Refuses, Rows

\* More may be stored and sent.
LEMMA FlowKept ==
  ASSUME document' = document, Members(sent) \subseteq Members(sent'), stored \subseteq stored',
         NEW w \in Workers, Flow(w), serving'[w] = serving[w]
  PROVE  Flow(w)'
<1>1. CASE serving[w] = Idle
  BY <1>1 DEF Flow, Idle
<1>2. CASE serving[w] # Idle
  <2>1. PICK e \in Members(sent) : \E todo \in SUBSET Appends(e) :
          /\ serving[w] = [envelope |-> e, todo |-> todo] /\ ~Refuses(e)
          /\ \A i \in Appends(e) \ todo : Rows(e, i) \subseteq stored
    BY <1>2 DEF Flow
  <2>0. PICK todo \in SUBSET Appends(e) :
          /\ serving[w] = [envelope |-> e, todo |-> todo] /\ ~Refuses(e)
          /\ \A i \in Appends(e) \ todo : Rows(e, i) \subseteq stored
    BY <2>1
  <2>2. Appends(e)' = Appends(e) /\ (Refuses(e)' <=> Refuses(e)) /\ \A i : Rows(e, i)' = Rows(e, i)
    BY SameRows
  <2>3. \A i \in Appends(e)' \ todo : Rows(e, i)' \subseteq stored'
    BY <2>0, <2>2
  <2> QED
    BY <2>0, <2>2, <2>3 DEF Flow
<1> QED
  BY <1>1, <1>2

LEMMA AckedKept ==
  ASSUME document' = document, Members(sent) \subseteq Members(sent'), stored \subseteq stored',
         Acked, NEW e \in acked
  PROVE  e \in Members(sent') /\ ~Refuses(e)' /\ \A i \in Appends(e)' : Rows(e, i)' \subseteq stored'
BY SameRows DEF Acked

LEMMA StoredKept ==
  ASSUME document' = document, Members(sent) \subseteq Members(sent'), Stored, NEW row \in stored
  PROVE  \E e \in Members(sent') : \E i \in Appends(e)' : row \in Rows(e, i)'
<1>1. PICK e \in Members(sent) : \E i \in Appends(e) : row \in Rows(e, i)
  BY DEF Stored
<1>2. Appends(e)' = Appends(e) /\ \A i : Rows(e, i)' = Rows(e, i)
  BY SameRows
<1> QED
  BY <1>1, <1>2

\* A process that serves has left its start behind.
LEMMA StartOver == phase = "listening" /\ [StartNext]_startVars => UNCHANGED startVars
BY DEF StartNext, startVars, ParseEnvironment, CheckDatabase, Load, LoaderNext, ReadConnection,
   EndConnections, ReadInbox, EndInboxes, ReadDashboard, NoDashboardGiven, Register, Compose,
   BuildApp, Listen

\* The next append is one of those left.
LEMMA TurnIsLeft ==
  ASSUME IsList(document.connections), NEW w \in Workers, NEW e, NEW todo \in SUBSET Appends(e),
         serving[w] = [envelope |-> e, todo |-> todo], todo # {}
  PROVE  Turn(w) \in todo /\ Batch(w) = Rows(e, Turn(w))
<1>1. todo \subseteq Nat
  BY DEF Appends, Features, IsList
<1>2. PICK i \in todo : \A j \in todo : i <= j
  <2>1. IsWellFoundedOn({ss \in Nat \X Nat : ss[1] < ss[2]}, Nat)
    BY NatLessThanWellFounded, Zenon DEF OpToRel
  <2>2. PICK i \in todo : \A j \in todo : ~(<<j, i>> \in {ss \in Nat \X Nat : ss[1] < ss[2]})
    BY <1>1, <2>1, WFMin
  <2>3. \A j \in todo : ~(j < i)
    BY <1>1, <2>2
  <2>4. ASSUME NEW j \in todo PROVE i <= j
    <3>1. i \in Int /\ j \in Int
      BY <1>1
    <3> QED
      BY <2>3, <3>1
  <2> QED
    BY <2>4
<1>3. serving[w].todo = todo /\ serving[w].envelope = e
  OBVIOUS
<1>4. Turn(w) = CHOOSE k \in todo : \A j \in todo : k <= j
  BY <1>3 DEF Turn
<1>5. Turn(w) \in todo
  BY <1>2, <1>4
<1> QED
  BY <1>3, <1>5 DEF Batch, Rows

\* A step of the traffic: the document stays, no webhook is unsent, nothing is unstored.
Onward ==
  /\ document' = document /\ phase' = phase /\ Members(sent) \subseteq Members(sent')
  /\ stored \subseteq stored'

\* What is left to show of such a step.
LEMMA FlowGoesOn ==
  ASSUME FlowInv, Onward, IsList(sent'), phase = "listening",
         Members(sent') \subseteq Traffic(document),
         serving' = [w \in Workers |-> serving'[w]],
         \A w \in Workers : serving'[w] = serving[w] \/ Flow(w)',
         \A e \in acked' \ acked :
           e \in Members(sent') /\ ~Refuses(e) /\ \A i \in Appends(e) : Rows(e, i) \subseteq stored',
         \A row \in stored' \ stored :
           \E e \in Members(sent') : \E i \in Appends(e) : row \in Rows(e, i)
  PROVE  FlowInv'
<1>1. document' = document /\ Members(sent) \subseteq Members(sent') /\ stored \subseteq stored'
      /\ phase' = phase
  BY DEF Onward
<1>2. ASSUME NEW w \in Workers PROVE Flow(w)'
  <2>1. CASE serving'[w] = serving[w]
    BY <1>1, <2>1, FlowKept DEF FlowInv
  <2> QED
    BY <2>1
<1>3. ASSUME NEW e \in acked'
      PROVE  e \in Members(sent') /\ ~Refuses(e)' /\ \A i \in Appends(e)' : Rows(e, i)' \subseteq stored'
  <2>1. CASE e \in acked
    BY <1>1, <2>1, AckedKept DEF FlowInv
  <2>2. CASE e \notin acked
    <3>1. Appends(e)' = Appends(e) /\ (Refuses(e)' <=> Refuses(e)) /\ \A i : Rows(e, i)' = Rows(e, i)
      BY <1>1, SameRows
    <3> QED
      BY <1>3, <2>2, <3>1
  <2> QED
    BY <2>1, <2>2
<1>4. ASSUME NEW row \in stored'
      PROVE  \E e \in Members(sent') : \E i \in Appends(e)' : row \in Rows(e, i)'
  <2>1. CASE row \in stored
    BY <1>1, <2>1, StoredKept DEF FlowInv
  <2>2. CASE row \notin stored
    <3>1. PICK e \in Members(sent') : \E i \in Appends(e) : row \in Rows(e, i)
      BY <1>4, <2>2
    <3>2. Appends(e)' = Appends(e) /\ \A i : Rows(e, i)' = Rows(e, i)
      BY <1>1, SameRows
    <3> QED
      BY <3>1, <3>2
  <2> QED
    BY <2>1, <2>2
<1> QED
  BY <1>1, <1>2, <1>3, <1>4 DEF FlowInv, Acked, Stored

\* Nothing is served before the process listens.
LEMMA NothingBefore ==
  ASSUME FlowInv, phase # "listening"
  PROVE  Members(sent) = {} /\ acked = {} /\ stored = {} /\ \A w \in Workers : serving[w] = Idle
BY DEF FlowInv, Acked, Stored, Flow

LEMMA StartFlows == FlowInv /\ Start => FlowInv'
<1> SUFFICES ASSUME FlowInv, StartNext, UNCHANGED trafficVars PROVE FlowInv'
  BY DEF Start
<1>1. UNCHANGED <<sent, acked, settled, serving, stored>>
  BY DEF trafficVars
<1>2. CASE phase = "listening"
  <2>1. UNCHANGED <<document, phase>>
    BY <1>2, StartOver DEF startVars
  <2> QED
    BY <1>1, <1>2, <2>1, FlowGoesOn DEF Onward, FlowInv
<1>3. CASE phase # "listening"
  <2>1. Members(sent') = {} /\ acked' = {} /\ stored' = {} /\ \A w \in Workers : serving'[w] = Idle
    BY <1>1, <1>3, NothingBefore
  <2> QED
    BY <1>1, <2>1 DEF FlowInv, Flow, Acked, Stored, Idle
<1> QED
  BY <1>2, <1>3

LEMMA SendFlows == FlowInv /\ Send => FlowInv'
<1> SUFFICES ASSUME FlowInv, Send PROVE FlowInv'
  OBVIOUS
<1>1. phase = "listening" /\ UNCHANGED <<document, phase, acked, serving, stored>>
  BY DEF Send, startVars
<1>2. PICK e \in Traffic(document) : sent' = Append(sent, e)
  BY DEF Send
<1>3. IsList(sent') /\ Members(sent') = Members(sent) \cup {e}
  BY <1>2, AppendList, MembersAppend DEF FlowInv
<1> QED
  BY <1>1, <1>2, <1>3, FlowGoesOn DEF Onward, FlowInv

LEMMA DeliverFlows ==
  ASSUME FlowInv, NEW w \in Workers, NEW e \in Members(sent), Deliver(w, e)
  PROVE  FlowInv'
<1>1. /\ serving' = [serving EXCEPT ![w] = [envelope |-> e, todo |-> Appends(e)]] /\ ~Refuses(e)
      /\ UNCHANGED <<document, phase, sent, acked, stored>>
  BY DEF Deliver, startVars
<1>2. phase = "listening"
  BY DEF FlowInv
<1>3. serving' = [v \in Workers |-> serving'[v]] /\ \A v \in Workers \ {w} : serving'[v] = serving[v]
  BY <1>1 DEF FlowInv
<1>4. Flow(w)'
  <2>1. Appends(e)' = Appends(e) /\ (Refuses(e)' <=> Refuses(e))
    BY <1>1, SameRows
  <2>2. serving'[w] = [envelope |-> e, todo |-> Appends(e)']
    BY <1>1, <2>1 DEF FlowInv
  <2> QED
    BY <1>1, <2>1, <2>2 DEF Flow
<1> QED
  BY <1>1, <1>2, <1>3, <1>4, FlowGoesOn DEF Onward, FlowInv

\* A worker that has begun.
LEMMA Serving ==
  ASSUME FlowInv, NEW w \in Workers, serving[w] # Idle
  PROVE  /\ phase = "listening"
         /\ \E e \in Members(sent) : \E todo \in SUBSET Appends(e) :
              /\ serving[w] = [envelope |-> e, todo |-> todo] /\ ~Refuses(e)
              /\ \A i \in Appends(e) \ todo : Rows(e, i) \subseteq stored
BY DEF FlowInv, Flow

LEMMA AppendFlows ==
  ASSUME IsList(document.connections), FlowInv, NEW w \in Workers, AppendNext(w) \/ AppendFails(w)
  PROVE  FlowInv'
<1>1. serving[w].todo # {} /\ UNCHANGED <<document, phase, sent, acked>>
  BY DEF AppendNext, AppendFails, startVars
<1>2. phase = "listening" /\ serving[w] # Idle
  BY <1>1, Serving DEF Idle
<1>3. PICK e \in Members(sent) : \E todo \in SUBSET Appends(e) :
        /\ serving[w] = [envelope |-> e, todo |-> todo] /\ ~Refuses(e)
        /\ \A i \in Appends(e) \ todo : Rows(e, i) \subseteq stored
  BY <1>2, Serving
<1>4. PICK todo \in SUBSET Appends(e) :
        /\ serving[w] = [envelope |-> e, todo |-> todo] /\ ~Refuses(e)
        /\ \A i \in Appends(e) \ todo : Rows(e, i) \subseteq stored
  BY <1>3
<1>5. todo # {}
  BY <1>1, <1>4
<1>6. Turn(w) \in todo /\ Batch(w) = Rows(e, Turn(w))
  BY <1>4, <1>5, TurnIsLeft
<1>7. \/ /\ serving' = [serving EXCEPT ![w].todo = @ \ {Turn(w)}]
         /\ stored' = stored \cup Batch(w)
      \/ /\ serving' = [serving EXCEPT ![w] = Idle]
         /\ stored' \in {stored, stored \cup Batch(w)}
  BY DEF AppendNext, AppendFails, Stop
<1>8. stored \subseteq stored' /\ \A row \in stored' \ stored : row \in Rows(e, Turn(w))
  BY <1>6, <1>7
<1>9. serving' = [v \in Workers |-> serving'[v]] /\ \A v \in Workers \ {w} : serving'[v] = serving[v]
  BY <1>7 DEF FlowInv
<1>10. Flow(w)'
  <2>1. CASE serving' = [serving EXCEPT ![w] = Idle]
    <3>1. serving'[w] = Idle
      BY <2>1 DEF FlowInv
    <3> QED
      BY <3>1 DEF Flow, Idle
  <2>2. CASE /\ serving' = [serving EXCEPT ![w].todo = @ \ {Turn(w)}]
             /\ stored' = stored \cup Batch(w)
    <3> DEFINE left == todo \ {Turn(w)}
    <3>1. serving'[w] = [envelope |-> e, todo |-> left]
      BY <1>4, <2>2 DEF FlowInv
    <3>2. Appends(e)' = Appends(e) /\ (Refuses(e)' <=> Refuses(e)) /\ \A i : Rows(e, i)' = Rows(e, i)
      BY <1>1, SameRows
    <3>3. \A i \in Appends(e)' \ left : Rows(e, i)' \subseteq stored'
      BY <1>4, <1>6, <2>2, <3>2
    <3>4. left \in SUBSET Appends(e)' /\ e \in Members(sent')
      BY <1>1, <3>2
    <3> HIDE DEF left
    <3> QED
      BY <1>4, <3>1, <3>2, <3>3, <3>4 DEF Flow
  <2> QED
    BY <1>7, <2>1, <2>2
<1>11. \A row \in stored' \ stored :
         \E f \in Members(sent') : \E i \in Appends(f) : row \in Rows(f, i)
  BY <1>1, <1>6, <1>8
<1> QED
  BY <1>1, <1>2, <1>8, <1>9, <1>10, <1>11, FlowGoesOn DEF Onward, FlowInv

LEMMA AcknowledgeFlows ==
  ASSUME FlowInv, NEW w \in Workers, Acknowledge(w)
  PROVE  FlowInv'
<1>1. /\ serving[w] # Idle /\ serving[w].todo = {}
      /\ acked' = acked \cup {serving[w].envelope} /\ serving' = [serving EXCEPT ![w] = Idle]
      /\ UNCHANGED <<document, phase, sent, stored>>
  BY DEF Acknowledge, startVars
<1>2. PICK e \in Members(sent) : \E todo \in SUBSET Appends(e) :
        /\ serving[w] = [envelope |-> e, todo |-> todo] /\ ~Refuses(e)
        /\ \A i \in Appends(e) \ todo : Rows(e, i) \subseteq stored
  BY <1>1, Serving
<1>3. acked' = acked \cup {e} /\ ~Refuses(e) /\ \A i \in Appends(e) : Rows(e, i) \subseteq stored
  BY <1>1, <1>2
<1>4. phase = "listening"
  BY <1>1, Serving
<1>5. /\ serving' = [v \in Workers |-> serving'[v]] /\ serving'[w] = Idle
      /\ \A v \in Workers \ {w} : serving'[v] = serving[v]
  BY <1>1 DEF FlowInv
<1>6. Flow(w)'
  BY <1>5 DEF Flow, Idle
<1> QED
  BY <1>1, <1>3, <1>4, <1>5, <1>6, FlowGoesOn DEF Onward, FlowInv

LEMMA CrashFlows == FlowInv /\ Crash => FlowInv'
<1> SUFFICES ASSUME FlowInv, Crash PROVE FlowInv'
  OBVIOUS
<1>1. /\ phase = "listening" /\ serving' = [w \in Workers |-> Idle]
      /\ UNCHANGED <<document, phase, sent, acked, stored>>
  BY DEF Crash, startVars
<1>2. \A w \in Workers : Flow(w)'
  BY <1>1 DEF Flow, Idle
<1> QED
  BY <1>1, <1>2, FlowGoesOn DEF Onward, FlowInv

LEMMA FlowStep ==
  IsList(document.connections) /\ FlowInv /\ [TrafficNext]_vars => FlowInv'
<1> SUFFICES ASSUME IsList(document.connections), FlowInv, [TrafficNext]_vars PROVE FlowInv'
  OBVIOUS
<1>1. ASSUME NEW i \in 1..MaxEnvelopes, Receive(i) PROVE FlowInv'
  <2>1. PICK w \in Workers : Deliver(w, sent[i]) /\ i <= Len(sent)
    BY <1>1 DEF Receive
  <2>2. sent[i] \in Members(sent)
    BY <2>1, TrafficAssumption DEF FlowInv, IsList, Members
  <2> QED
    BY <2>1, <2>2, DeliverFlows
<1>2. ASSUME NEW w \in Workers, AppendNext(w) \/ AppendFails(w) \/ Acknowledge(w) PROVE FlowInv'
  BY <1>2, AppendFlows, AcknowledgeFlows
<1>3. CASE PostMessage \/ TelegramAccepts \/ Receipt \/ PostFails \/ UNCHANGED vars
  <2>1. UNCHANGED <<phase, document, sent, acked, serving, stored>>
    BY <1>3 DEF PostMessage, TelegramAccepts, Receipt, PostFails, BesideMessage, vars, startVars,
       trafficVars
  <2>2. CASE phase = "listening"
    BY <2>1, <2>2, FlowGoesOn DEF Onward, FlowInv
  <2>3. CASE phase # "listening"
    <3>1. Members(sent') = {} /\ acked' = {} /\ stored' = {} /\ \A w \in Workers : serving'[w] = Idle
      BY <2>1, <2>3, NothingBefore
    <3> QED
      BY <2>1, <3>1 DEF FlowInv, Flow, Acked, Stored, Idle
  <2> QED
    BY <2>2, <2>3
<1> QED
  BY <1>1, <1>2, <1>3, StartFlows, SendFlows, CrashFlows DEF TrafficNext

\* The process has begun as it should, and its traffic flows as it should.
LEMMA TrafficFlows ==
  ASSUME FormAssumed
  PROVE  TrafficSpec => [](StartInv /\ FlowInv)
<1>1. TrafficInit => StartInv /\ FlowInv
  BY StartBegins, FlowBegins DEF TrafficInit
<1>2. StartInv /\ FlowInv /\ [TrafficNext]_vars => StartInv' /\ FlowInv'
  <2> SUFFICES ASSUME StartInv, FlowInv, [TrafficNext]_vars PROVE StartInv' /\ FlowInv'
    OBVIOUS
  <2>1. [StartNext]_startVars
    BY DEF TrafficNext, vars, Start, Send, Crash, Receive, Deliver, AppendNext, AppendFails,
       Acknowledge, PostMessage, TelegramAccepts, Receipt, PostFails, BesideMessage
  <2>2. IsList(document.connections)
    BY DEF StartInv
  <2> QED
    BY <2>1, <2>2, StartStep, FlowStep
<1> QED
  BY <1>1, <1>2, PTL DEF TrafficSpec

\* An event is stored under the connection of the account it was sent to, and whoever
\* sent it had the secret of that connection, for any document, webhooks and workers.
THEOREM StoredAddressed ==
  ASSUME FormAssumed, WellSent
  PROVE  TrafficSpec => []StoredIsAddressed
<1>1. StartInv /\ FlowInv => StoredIsAddressed
  <2> SUFFICES ASSUME FlowInv, NEW row \in stored
               PROVE  \E e \in Members(sent) :
                        row[2] \in Members(e.entries)
                        /\ \E c \in Owners(e, row[2]) : c.id = row[1] /\ Secret(c) = e.key
    BY DEF StoredIsAddressed
  <2>1. PICK e \in Members(sent) : \E i \in Appends(e) : row \in Rows(e, i)
    BY DEF FlowInv, Stored
  <2>2. PICK i \in Appends(e) : row \in Rows(e, i)
    BY <2>1
  <2>3. PICK x \in Events(e, document.connections[i]) : row = <<document.connections[i].id, x>>
    BY <2>2 DEF Rows
  <2>4. e.route \in Routes /\ (e.route \notin Meta \cup {"meta"} => e.object = e.route)
    BY DEF WellSent, FlowInv
  <2>5. i \in Features(e)
    BY DEF Appends
  <2>6. document.connections[i] \in Owners(e, x) /\ Secret(document.connections[i]) = e.key
        /\ x \in Members(e.entries)
    BY <2>4, <2>5, Addressed
  <2>7. row[1] = document.connections[i].id /\ row[2] = x
    BY <2>3
  <2> QED
    BY <2>6, <2>7
<1> QED
  BY <1>1, TrafficFlows, PTL

-----------------------------------------------------------------------------
(* An acknowledged webhook is stored.                                      *)

\* Meta reports a number under the WABA it is configured with.
NumbersKept ==
  \A doc : \A e \in Traffic(doc) :
    e.object = "whatsapp_business_account" =>
      \A c \in Members(doc.connections), x \in Members(e.entries) :
        c.type = "whatsapp_business" /\ x.account = c.account => x.waba = c.waba

\* The Apps of some connections are one App when they count as one.
LEMMA OneApp ==
  ASSUME IsList(document.connections), NEW found \in SUBSET Members(document.connections),
         Cardinality({c.app : c \in found}) = 1, NEW b \in found, NEW c \in found
  PROVE  b.app = c.app
<1> DEFINE list == document.connections
           every == {list[i].app : i \in 1..Len(list)}
           apps == {d.app : d \in found}
<1>1. [i \in 1..Len(list) |-> list[i].app] \in Surjection(1..Len(list), every)
  BY DEF Surjection
<1>2. IsFiniteSet(1..Len(list))
  BY FS_Interval DEF IsList
<1>3. IsFiniteSet(every)
  <2> HIDE DEF every
  <2> QED
    BY <1>1, <1>2, FS_Surjection
<1>4. apps \subseteq every
  BY DEF Members
<1>5. IsFiniteSet(apps) /\ Cardinality(apps) = 1 /\ b.app \in apps /\ c.app \in apps
  <2>1. Cardinality(apps) = 1 /\ b.app \in apps /\ c.app \in apps
    OBVIOUS
  <2> HIDE DEF apps, every
  <2> QED
    BY <1>3, <1>4, <2>1, FS_Subset
<1> HIDE DEF apps
<1>6. \E y : apps = {y}
  BY <1>5, FS_Singleton
<1> QED
  BY <1>5, <1>6

\* A route of Meta selects by the App and its secret.
LEMMA SelectedWithApp ==
  ASSUME NEW e, e.route \in Routes, NEW b, NEW c, Selects(e, b), b.type \in Meta,
         c.type = b.type, c.app = b.app, c.key = b.key
  PROVE  Selects(e, c)
<1>1. CASE e.route = "facebook_page"
  BY <1>1 DEF Selects, FacebookPageRoute
<1>2. CASE e.route = "whatsapp_business"
  BY <1>2 DEF Selects, WhatsAppBusinessRoute
<1>3. CASE e.route = "meta"
  BY <1>3 DEF Selects, MetaRoute
<1>4. CASE e.route \in {"zalo_oa", "telegram_bot", "zalo_user"}
  BY <1>4 DEF Selects, ZaloOaRoute, ZaloOaMatches, TelegramBotRoute, ZaloUserRoute, Meta
<1> QED
  BY <1>1, <1>2, <1>3, <1>4 DEF Routes, Meta

LEMMA PageAppHolds ==
  ASSUME IsList(document.connections), NEW e, NEW b \in ServedConnections("facebook_page"),
         NEW c \in ServedConnections("facebook_page"),
         <<b.type, b.app>> \in PageApp(e), c.account \in PageIds(e)
  PROVE  c.app = b.app
<1> DEFINE found == {d \in ServedConnections("facebook_page") : d.account \in PageIds(e)}
<1>1. b.app \in AppByPageIds(PageIds(e))
  BY DEF PageApp
<1>2. b.app \in {d.app : d \in found} /\ Cardinality({d.app : d \in found}) = 1
  BY <1>1 DEF AppByPageIds
<1>3. c \in found /\ found \in SUBSET Members(document.connections)
  BY DEF ServedConnections, OfType, Members, IsList
<1>4. PICK d \in found : d.app = b.app
  BY <1>2
<1> HIDE DEF found
<1> QED
  BY <1>2, <1>3, <1>4, OneApp

LEMMA WabaAppHolds ==
  ASSUME IsList(document.connections), NEW e, NEW b \in ServedConnections("whatsapp_business"),
         NEW c \in ServedConnections("whatsapp_business"),
         <<b.type, b.app>> \in WabaApp(e), c.waba \in WabaIds(e)
  PROVE  c.app = b.app
<1> DEFINE found == {d \in ServedConnections("whatsapp_business") : d.waba \in WabaIds(e)}
<1>1. b.app \in AppByWabaIds(WabaIds(e))
  BY DEF WabaApp
<1>2. b.app \in {d.app : d \in found} /\ Cardinality({d.app : d \in found}) = 1
  BY <1>1 DEF AppByWabaIds
<1>3. c \in found /\ found \in SUBSET Members(document.connections)
  BY DEF ServedConnections, OfType, Members, IsList
<1>4. PICK d \in found : d.app = b.app
  BY <1>2
<1> HIDE DEF found
<1> QED
  BY <1>2, <1>3, <1>4, OneApp

\* Whoever an event of a webhook is for, the webhook is appended for him, if it is for
\* anybody: the loader lets no two connections have one account, and one App one secret.
LEMMA OwnersServed ==
  ASSUME Admitted, WellSent, NumbersKept, NEW e \in Traffic(document), ~Refuses(e),
         NEW x \in Members(e.entries), IsText(x), NEW c \in Owners(e, x)
  PROVE  \E i \in Appends(e) : c = document.connections[i] /\ x \in Events(e, c)
<1> DEFINE list == document.connections
<1>1. PICK k \in 1..Len(list) : c = list[k] /\ c.type = Product(e)
  BY AdmittedEntries DEF Owners, ServedConnections, OfType
<1>2. c \in ServedConnections(c.type)
  BY <1>1, AdmittedEntries DEF ServedConnections, OfType
<1>3. IF c.type = "telegram_bot" THEN c.id = e.to
      ELSE c.account = x.account /\ (c.type = "zalo_oa" => c.app = x.app)
  BY DEF Owners
<1>4. /\ e.route \in Routes
      /\ e.route \notin Meta \cup {"meta"} => e.object = e.route /\ Len(e.entries) = 1
  BY DEF WellSent
<1>5. PICK j \in Features(e) : e.route = "zalo_user" => j \in Appends(e)
  BY DEF Refuses, Appends
<1> DEFINE b == list[j]
<1>6. j \in 1..Len(list) /\ Selects(e, b) /\ b \in ServedConnections(b.type)
  BY AdmittedEntries DEF Features, ServedConnections, OfType
<1>7. k = j \/ (~Clash(b, c) /\ ~Clash(c, b))
  BY <1>1, <1>6, AdmittedEntries
<1>8. ASSUME Selects(e, c), Event(x, c)
      PROVE  \E i \in Appends(e) : c = document.connections[i] /\ x \in Events(e, c)
  <2>1. k \in Features(e)
    BY <1>1, <1>8, AdmittedEntries DEF Features
  <2>2. x \in Events(e, c)
    BY <1>8 DEF Events
  <2> QED
    BY <1>1, <2>1, <2>2 DEF Appends
<1>9. ASSUME b.type = c.type, c.type \in Meta, c.app = b.app, Event(x, c)
      PROVE  \E i \in Appends(e) : c = document.connections[i] /\ x \in Events(e, c)
  <2>1. c.key = b.key
    BY <1>1, <1>7, <1>9 DEF Clash
  <2>2. Selects(e, c)
    BY <1>4, <1>6, <1>9, <2>1, SelectedWithApp
  <2> QED
    BY <1>8, <1>9, <2>2
<1>10. Admitted /\ IsList(list)
  BY DEF Admitted
<1>11. c \in Members(list)
  BY <1>1 DEF Members
<1> HIDE DEF b
<1>12. CASE <<b.type, b.app>> \in PageApp(e)
  <2>1. b.type = "facebook_page" /\ e.object = "page" /\ x.account \in PageIds(e)
    BY <1>12, PageAppIs
  <2>2. c.type = "facebook_page" /\ c.account = x.account
    BY <1>1, <1>3, <2>1 DEF Product
  <2>3. c.app = b.app
    BY <1>2, <1>6, <1>10, <1>12, <2>1, <2>2, PageAppHolds
  <2>4. Event(x, c)
    BY <2>2 DEF Event, FacebookPageEvent
  <2> QED
    BY <1>9, <2>1, <2>2, <2>3, <2>4 DEF Meta
<1>13. CASE <<b.type, b.app>> \in WabaApp(e)
  <2>1. /\ b.type = "whatsapp_business" /\ e.object = "whatsapp_business_account"
        /\ x.waba \in WabaIds(e)
    BY <1>13, WabaAppIs
  <2>2. c.type = "whatsapp_business" /\ c.account = x.account
    BY <1>1, <1>3, <2>1 DEF Product
  <2>3. x.waba = c.waba
    BY <1>11, <2>1, <2>2 DEF NumbersKept
  <2>4. c.app = b.app
    BY <1>2, <1>6, <1>10, <1>13, <2>1, <2>2, <2>3, WabaAppHolds
  <2>5. Event(x, c)
    BY <2>2, <2>3 DEF Event, WhatsAppBusinessEvent
  <2> QED
    BY <1>9, <2>1, <2>2, <2>4, <2>5 DEF Meta
<1>14. CASE e.route = "zalo_oa" /\ ZaloOaRoute(e, b)
  <2>1. e.object = "zalo_oa" /\ x = e.entries[1]
    BY <1>4, <1>14 DEF Meta, Members
  <2>2. c.type = "zalo_oa" /\ c.account = x.account /\ c.app = x.app
    BY <1>1, <1>3, <2>1 DEF Product
  <2>3. b.type = "zalo_oa" /\ b.account = x.account /\ b.app = x.app
    BY <1>14, <2>1 DEF ZaloOaRoute, ZaloOaMatches
  <2>4. Clash(b, c)
    BY <2>2, <2>3 DEF Clash, Account
  <2>5. b = c
    BY <1>1, <1>7, <2>4 DEF b
  <2>6. Event(x, c)
    BY <2>2 DEF Event, ZaloOaEvent
  <2> QED
    BY <1>6, <1>8, <2>5, <2>6
<1>15. CASE e.route = "telegram_bot" /\ TelegramBotRoute(e, b)
  <2>1. e.object = "telegram_bot" /\ b.type = "telegram_bot" /\ b.id = e.to
    BY <1>4, <1>15 DEF Meta, TelegramBotRoute
  <2>2. c.type = "telegram_bot" /\ c.id = b.id
    BY <1>1, <1>3, <2>1 DEF Product
  <2>3. Clash(b, c)
    BY <2>2 DEF Clash
  <2>4. b = c
    BY <1>1, <1>7, <2>3 DEF b
  <2>5. Event(x, c)
    BY <2>2 DEF Event, TelegramBotEvent
  <2> QED
    BY <1>6, <1>8, <2>4, <2>5
<1>16. CASE e.route = "zalo_user" /\ ZaloUserRoute(e, b)
  <2>1. e.object = "zalo_user" /\ b.type = "zalo_user" /\ x = e.entries[1]
    BY <1>4, <1>16 DEF Meta, ZaloUserRoute, Members
  <2>2. c.type = "zalo_user" /\ c.account = x.account
    BY <1>1, <1>3, <2>1 DEF Product
  <2>3. PICK y \in Members(e.entries) : Event(y, b)
    BY <1>5, <1>16 DEF Appends, Events, b
  <2>4. y = x
    BY <1>4, <1>16, <2>1 DEF Meta, Members
  <2>5. b.account = x.account
    BY <2>1, <2>3, <2>4 DEF Event, ZaloUserEvent
  <2>6. Clash(b, c)
    BY <2>1, <2>2, <2>5 DEF Clash, Account
  <2>7. b = c
    BY <1>1, <1>7, <2>6 DEF b
  <2>8. Event(x, c)
    BY <2>2 DEF Event, ZaloUserEvent
  <2> QED
    BY <1>6, <1>8, <2>7, <2>8
<1> QED
  BY <1>4, <1>6, <1>12, <1>13, <1>14, <1>15, <1>16, Selected

\* Once a webhook is acknowledged, each of its texts for a configured account is stored,
\* whatever fails between its appends and whoever serves it besides: for any document,
\* any webhooks that mix accounts, products and kinds, and any number of workers.
THEOREM AcknowledgedStored ==
  ASSUME FormAssumed, WellSent, NumbersKept
  PROVE  TrafficSpec => []AcknowledgedIsStored
<1>1. StartInv /\ FlowInv => AcknowledgedIsStored
  <2> SUFFICES ASSUME StartInv, FlowInv, NEW e \in acked, NEW x \in Members(e.entries), IsText(x),
                      NEW c \in Owners(e, x)
               PROVE  <<c.id, x>> \in stored
    BY DEF AcknowledgedIsStored
  <2>1. /\ e \in Members(sent) /\ ~Refuses(e) /\ \A i \in Appends(e) : Rows(e, i) \subseteq stored
        /\ phase = "listening" /\ e \in Traffic(document)
    BY DEF FlowInv, Acked
  <2>2. Admitted
    <3>1. document # NothingRead
      BY DEF Owners, ServedConnections, OfType, NothingRead
    <3>2. Usable /\ IsList(document.connections) /\ IsList(document.inboxes)
      BY <2>1 DEF StartInv, Reading
    <3> QED
      BY <3>1, <3>2 DEF Usable, Admitted
  <2>3. PICK i \in Appends(e) : c = document.connections[i] /\ x \in Events(e, c)
    BY <2>1, <2>2, OwnersServed
  <2>4. <<c.id, x>> \in Rows(e, i)
    BY <2>3 DEF Rows
  <2> QED
    BY <2>1, <2>4
<1> QED
  BY <1>1, TrafficFlows, PTL
=============================================================================
