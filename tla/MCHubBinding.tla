---------------------------- MODULE MCHubBinding ----------------------------
(***************************************************************************)
(* Two processes started and restarted with three configurations of one    *)
(* connection id (two Telegram Bots and an account of another channel),    *)
(* over an empty database and over what older versions can have left.      *)
(***************************************************************************)
EXTENDS HubLedger

CONSTANTS c1, e1, e2, o1, t1, i1, p1, bot1, bot2, page1

MCConn == {c1}
MCEvent == {e1, e2}
MCAccount == {bot1, bot2, page1}
MCChannelOf == [a \in MCAccount |-> IF a = page1 THEN "other" ELSE "telegram_bot"]

MCConfig == {[accounts |-> [c \in MCConn |-> a], scope |-> [i \in {i1} |-> {c1}]] :
               a \in MCAccount}

MCBatches ==
  {<<[conn |-> c1, event |-> e, chat |-> ch]>> : e \in {e1, e2}, ch \in {"private", "none"}}

OldEvent(chat, channel, a) ==
  [id |-> 1, conn |-> c1, event |-> e1, channel |-> channel, chat |-> chat, account |-> a]
OldRow(channel, a) == [channel |-> channel, account |-> a]

\* Before registration existed; before Bot fingerprints, without and with
\* history; registered with a fingerprint and history.
MCLegacyDatabases ==
  {EmptyDatabase,
   [EmptyDatabase EXCEPT !.events = {OldEvent("unknown", "telegram_bot", NoAccount)}],
   [EmptyDatabase EXCEPT !.registry[c1] = OldRow("telegram_bot", NoAccount)],
   [EmptyDatabase EXCEPT !.registry[c1] = OldRow("telegram_bot", NoAccount),
                         !.events = {OldEvent("unknown", "telegram_bot", NoAccount)}],
   [EmptyDatabase EXCEPT !.registry[c1] = OldRow("other", page1),
                         !.events = {OldEvent("none", "other", page1)}]}
=============================================================================
