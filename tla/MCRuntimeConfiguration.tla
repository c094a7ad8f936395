------------------------ MODULE MCRuntimeConfiguration ------------------------
(***************************************************************************)
(* Small documents.  Secrets are numbers, used in the order in which they   *)
(* appear, which loses nothing: 0 is too short, 1, 2, ... have the form of  *)
(* a webhook secret, 11, 12, ... that of a Bot token.                       *)
(***************************************************************************)
EXTENDS RuntimeConfiguration

MCShortSecret == {0}
MCWebhookSecret == 1..10
MCBotToken == 11..20

Used(doc) == {u[1] : u \in Uses(doc)} \ {0}
Fresh(used, form) == CHOOSE n \in form \ used : \A m \in form \ used : n <= m
Any(used) == used \cup {Fresh(used, MCWebhookSecret), Fresh(used, MCBotToken)}

Named(n) == [name |-> n, octets |-> <<>>]
Hub == Named("hub.example")

\* Both sides of each boundary of the reserved blocks.
Literals ==
  {<<0, 0, 0>>, <<0, 255, 255>>, <<1, 0, 0>>, <<9, 255, 255>>, <<10, 0, 0>>, <<10, 255, 255>>,
   <<11, 0, 0>>, <<100, 63, 255>>, <<100, 64, 0>>, <<100, 65, 0>>, <<100, 127, 255>>,
   <<100, 128, 0>>, <<126, 255, 255>>, <<127, 0, 0>>, <<127, 255, 255>>, <<128, 0, 0>>,
   <<169, 253, 255>>, <<169, 254, 0>>, <<169, 254, 255>>, <<169, 255, 0>>, <<172, 15, 255>>,
   <<172, 16, 0>>, <<172, 31, 255>>, <<172, 32, 0>>, <<191, 255, 255>>, <<192, 0, 0>>,
   <<192, 0, 1>>, <<192, 0, 2>>, <<192, 0, 3>>, <<192, 167, 255>>, <<192, 168, 0>>,
   <<192, 168, 255>>, <<192, 169, 0>>, <<198, 17, 255>>, <<198, 18, 0>>, <<198, 19, 255>>,
   <<198, 20, 0>>, <<198, 50, 255>>, <<198, 51, 100>>, <<198, 52, 0>>, <<203, 0, 112>>,
   <<203, 0, 113>>, <<203, 0, 114>>, <<223, 255, 255>>, <<224, 0, 0>>, <<255, 255, 255>>}

Hosts ==
  {Named(n) : n \in {"hub.example", "hub.lan", "localhost", "2001:4860::1", "fd00::1"}}
  \cup {[name |-> "", octets |-> o] : o \in Literals}

Url(path, host) == [path |-> path, host |-> host]
OwnPath(c) ==
  CASE c.type = "telegram_bot" -> "telegram-bot/" \o c.id
    [] c.type = "zalo_oa" -> "zalo-oa" [] c.type = "zalo_user" -> "zalo-user"
    [] c.type = "facebook_page" -> "facebook-page"
    [] c.type = "whatsapp_business" -> "whatsapp-business"

Types == {"telegram_bot", "zalo_oa", "zalo_user"} \cup Meta
Entry(type, id, n) ==
  [type |-> type, id |-> id, account |-> n, app |-> "A", waba |-> n, url |-> NoUrl,
   operator |-> 0, key |-> 0, hook |-> 0]

\* An entry with any secrets, in use or new.
Triples(used) ==
  UNION {UNION {{<<o, k, h>> : h \in Any(used \cup {o, k})} : k \in Any(used \cup {o})} :
           o \in Any(used)}
Hookless == {"zalo_oa", "zalo_user"}
WithSecrets(c, used) ==
  {[c EXCEPT !.operator = s[1], !.key = s[2], !.hook = IF c.type \in Hookless THEN 0 ELSE s[3]] :
     s \in Triples(used)}

\* An entry none of whose secrets was used before.
FreshSecrets(c, used) ==
  LET a == Fresh(used, MCWebhookSecret)
      b == Fresh(used \cup {a}, MCWebhookSecret)
      k == IF c.type = "telegram_bot" THEN Fresh(used, MCBotToken) ELSE b
  IN  [c EXCEPT !.operator = a, !.key = k,
                !.hook = IF c.type \in Hookless THEN 0
                         ELSE IF c.type = "telegram_bot" THEN b
                         ELSE Fresh(used \cup {a, b}, MCWebhookSecret)]

\* One part of an entry goes wrong, or its URL is one of a few.
Variants(c) ==
  {[c EXCEPT !.id = i] : i \in {"", ".", ".."}}
  \cup {[c EXCEPT !.operator = 0], [c EXCEPT !.key = 0], [c EXCEPT !.hook = 0]}
  \cup {[c EXCEPT !.url = Url(path, Hub)] : path \in {OwnPath(c), "meta", "telegram-bot/c9"}}
  \cup {[c EXCEPT !.url = Url(OwnPath(c), h)] : h \in IF c.type = "zalo_oa" THEN Hosts ELSE {}}

FirstEntries ==
  UNION {WithSecrets(Entry(t, "c1", 1), {}) \cup Variants(FreshSecrets(Entry(t, "c1", 1), {})) :
           t \in Types}

\* The same App with its secrets, or an entry with new ones.
SameOrFresh(c, first, used) ==
  {FreshSecrets(c, used), [FreshSecrets(c, used) EXCEPT !.key = first.key, !.hook = first.hook]}

\* A second entry collides in its secrets, or else in what it names.
SecondEntries(list) ==
  LET first == list[1]
      used == UNION {{c.operator, c.key, c.hook} : c \in Members(list)} \ {0}
      identities ==
        {[Entry(t, i, n) EXCEPT !.app = a, !.waba = w] :
           t \in Types, i \in {"c1", "c2"}, n \in 1..2, a \in {"A", "B"}, w \in 1..2}
  IN  IF first.url # NoUrl /\ first.url.host # Hub THEN {}
      ELSE UNION {WithSecrets(Entry(t, "c2", 2), used) : t \in Types}
           \cup UNION {SameOrFresh(c, first, used) : c \in identities}
           \cup UNION {{[d EXCEPT !.url = Url(path, h)] :
                          path \in {OwnPath(d), "meta"}, h \in {Hub, Named("hub2.example")}} :
                        d \in UNION {SameOrFresh([Entry(t, "c2", 2) EXCEPT !.app = a], first, used) :
                                       t \in Meta, a \in {"A", "B"}}}

MCNextConnections(list) ==
  CASE Len(list) = 0 -> FirstEntries
    [] Len(list) = 1 -> SecondEntries(list)
    [] OTHER -> {FreshSecrets(Entry("zalo_user", "c3", 3), {})}

Inbox(id, token, list) == [id |-> id, token |-> token, connections |-> list]

MCNextInboxes(doc) ==
  LET used == Used(doc)
      new == Fresh(used, MCWebhookSecret)
      all == [i \in 1..Len(doc.connections) |-> doc.connections[i].id]
      n == Len(doc.inboxes)
  IN  IF Len(doc.connections) > 1
      THEN {Inbox("b1", t, all) : t \in used \cup {new}}
      ELSE IF n = 0
      THEN {Inbox("b1", t, all) : t \in Any(used) \cup {0}}
           \cup {Inbox(i, new, all) : i \in {"", ".", ".."}}
           \cup {Inbox("b1", new, l) : l \in {<<>>, <<"c9">>, <<"c1">>, <<"c1", "c1">>,
                                              all \o <<"c9">>}}
      ELSE {Inbox("b2", t, <<"c1">>) : t \in Any(used)} \cup {Inbox("b1", new, <<"c1">>)}

Principal(id, read, reply, deliver) ==
  [id |-> id, inboxes |-> read, replies |-> reply, deliveries |-> deliver]

\* Operators: up to three, who may be the bootstrap one, and lists of grants.
Operators ==
  LET p == Principal("p1", <<"b1">>, <<>>, <<>>)
      q == Principal("p2", <<"b1">>, <<"b1">>, <<"b1">>)
  IN
  {<<>>, <<p>>, <<p, q>>, <<p, q, [p EXCEPT !.id = "p3"]>>, <<p, p>>,
   <<[p EXCEPT !.id = "."]>>}
  \cup {<<[p EXCEPT !.inboxes = l]>> : l \in {<<>>, <<"b2">>, <<"b1", "b1">>, <<"b1", "b2">>}}
  \cup {<<[p EXCEPT !.replies = l]>> : l \in {<<"b2">>, <<"b1", "b1">>, <<"b1">>}}
  \cup {<<[p EXCEPT !.deliveries = l]>> : l \in {<<"b2">>, <<"b1", "b1">>, <<"b1">>}}

Origin(scheme, name, port) == [scheme |-> scheme, host |-> Named(name), port |-> port]

MCNextDashboards(doc) ==
  LET used == Used(doc)
      k == Fresh(used, MCWebhookSecret)
      pepper == Fresh(used \cup {k}, MCWebhookSecret)
      base == [keys |-> <<k>>, pepper |-> pepper, origin |-> Origin("https", "hub.example", ""),
               principals |-> <<Principal("p1", <<"b1">>, <<"b1">>, <<>>)>>, bootstrap |-> "p1"]
      any == Any(used \cup {k}) \cup {0}
  IN  IF Len(doc.connections) > 1 \/ Len(doc.inboxes) > 1
      THEN {[base EXCEPT !.keys = <<a>>] : a \in any}
      ELSE {[base EXCEPT !.keys = <<a>>, !.pepper = b] : a \in any, b \in any}
      \cup {[base EXCEPT !.keys = <<k, a>>] : a \in any}
      \cup {[base EXCEPT !.keys = l] : l \in {<<>>, <<k, pepper + 1, pepper + 2>>}}
      \cup {[base EXCEPT !.principals = l, !.bootstrap = b] :
              l \in Operators, b \in {None, "p1", "p2"}}
      \cup {[base EXCEPT !.origin = o] :
              o \in {Origin("http", "hub.example", ""), Origin("https", "hub.lan", ""),
                     Origin("http", "localhost", ""), Origin("http", "localhost", "0"),
                     Origin("https", "fd00::1", "")}}
=============================================================================
