------------------------------- MODULE MCServer -------------------------------
(***************************************************************************)
(* Processes that start with the documents of MCRuntimeConfiguration, and  *)
(* webhooks for those that serve two connections.                          *)
(***************************************************************************)
EXTENDS HubTraffic, MCRuntimeConfiguration

MCSettings ==
  [production : BOOLEAN, source : {"none", "set", "wrong"}, postgres : {"none", "set", "wrong"},
   google : {"none", "set", "wrong"}, files : SUBSET {"absolute", "relative"},
   telegram : BOOLEAN, shared : BOOLEAN,
   bot : [{"token", "operator", "secret", "url"} -> {"none", "set", "wrong"}]]

MCLegacyRow == <<"telegram", <<"telegram_bot", 1>>>>

\* Nothing, a row of the start before this one, or the first id with another account.
MCEarlier(rows) ==
  IF rows = {} THEN {{}}
  ELSE {{}, rows, {<<(CHOOSE r \in rows : TRUE)[1], <<"telegram_bot", 9>>>>}}

\* Two connections whose secrets are new or those of their App, and nothing else.
Serves(doc) ==
  /\ doc.dashboard = NoDashboard /\ doc.inboxes = <<>> /\ Len(doc.connections) = 2
  /\ LET c == doc.connections[1]
         d == doc.connections[2] IN
     /\ c = FreshSecrets(Entry(c.type, "c1", 1), {})
     /\ \E waba \in 1..2, app \in {"A", "B"} :
          d \in SameOrFresh([Entry(d.type, "c2", 2) EXCEPT !.app = app, !.waba = waba], c,
                            {c.operator, c.key, c.hook} \ {0})
     /\ \/ c.type = d.type
        \/ c.type = "facebook_page" /\ d.type = "whatsapp_business" /\ c.app = d.app
        \/ c.type = "telegram_bot" /\ d.type = "zalo_user" /\ d.app = "A" /\ d.waba = 1
     /\ c.type \notin Meta => d.app = "A" /\ d.waba = 1
     /\ c.type = "facebook_page" => d.waba = 1

Text(c, n) == [account |-> c.account, app |-> c.app, waba |-> c.waba, kind |-> "text", event |-> n]
Of(c, kind) == [Text(c, 9) EXCEPT !.kind = kind]
Object(c) ==
  CASE c.type = "facebook_page" -> "page"
    [] c.type = "whatsapp_business" -> "whatsapp_business_account"
    [] OTHER -> c.type

Envelope(route, c, entries) ==
  [route |-> route, to |-> c.id, object |-> Object(c), key |-> Secret(c), entries |-> entries]

\* A batch for both connections, for one of them, with an entry that is no text,
\* with a text that cannot be stored, with an account that is not configured, and
\* one with the secret of the other.
MCTraffic(doc) ==
  IF ~Serves(doc) THEN {}
  ELSE LET c == doc.connections[1]
           d == doc.connections[2]
           both == IF c.type = d.type THEN <<Text(c, 1), Text(d, 2)>> ELSE <<Text(c, 1)>>
           foreign == [Text(d, 3) EXCEPT !.account = 7]
       IN  IF c.type \in Meta
           THEN {Envelope(c.type, c, both), Envelope("meta", d, <<Text(d, 3)>>),
                 Envelope("meta", d, <<Text(d, 3), foreign>>),
                 Envelope("meta", c, <<Of(c, "unstorable")>> \o both),
                 Envelope("meta", c, <<Text(c, 1), Of(c, "broken")>>),
                 [Envelope("meta", c, <<Text(c, 1), Of(c, "other")>>) EXCEPT !.key = d.hook]}
           ELSE {Envelope(c.type, c, <<Text(c, 1)>>), Envelope(d.type, d, <<Text(d, 2)>>),
                 Envelope(c.type, c, <<Of(c, "other")>>), Envelope(d.type, d, <<foreign>>),
                 Envelope(d.type, d, <<Of(d, "unstorable")>>),
                 [Envelope(c.type, c, <<Text(c, 1)>>) EXCEPT !.key = Secret(d)]}

MCWorkers == {1, 2}
=============================================================================
