---------------------------- MODULE MCHubReplies ----------------------------
(***************************************************************************)
(* Reply commands and delivery authorizations over a Telegram connection   *)
(* c1 and a Page c2.  A second configuration narrows the scope of inbox    *)
(* i1, so a restart changes the scope that an operation is retried under;  *)
(* a third gives c1 to another Bot.  The requests retry one operation id   *)
(* with every one of its inputs changed in turn.                           *)
(***************************************************************************)
EXTENDS HubLedger, TLC

CONSTANTS c1, c2, e1, e2, o1, t1, t2, i1, i2, p1, p2, bot1, bot2, page1

MCConn == {c1, c2}
MCAccount == {bot1, bot2, page1}
MCChannelOf == [a \in MCAccount |-> IF a = page1 THEN "other" ELSE "telegram_bot"]
MCAccounts == [c \in MCConn |-> IF c = c1 THEN bot1 ELSE page1]

Wide == [accounts |-> MCAccounts,
         scope |-> [i \in {i1, i2} |-> IF i = i1 THEN {c1, c2} ELSE {c1}]]
Narrow == [Wide EXCEPT !.scope[i1] = {c1}]
Moved == [Wide EXCEPT !.accounts[c1] = bot2]
MCConfig == {Wide, Narrow, Moved}
MCOneConfig == {Wide}

Delivered(c, e, ch) == [conn |-> c, event |-> e, chat |-> ch]
MCBatches ==
  {<<Delivered(c1, e1, "group")>>,
   <<Delivered(c2, e1, "none"), Delivered(c1, e1, "private")>>}

Reply == [kind |-> "create", inbox |-> i1, authority |-> Bearer, conn |-> c1,
          event |-> e1, op |-> o1, text |-> t1]
MCReplies ==
  {Reply, [Reply EXCEPT !.authority = p1], [Reply EXCEPT !.text = t2],
   [Reply EXCEPT !.inbox = i2], [Reply EXCEPT !.conn = c2]}

Approval == [kind |-> "authorize", command |-> 1, inbox |-> i1, principal |-> p1]
MCOneApproval == {Approval}

\* Two events and two commands, none of which replaces another.
MCTwoBatches == {<<Delivered(c1, e1, "private")>>, <<Delivered(c2, e1, "none")>>}
MCTwoReplies == {Reply, [Reply EXCEPT !.conn = c2]}

MCEmpty == {EmptyDatabase}

\* A command of the Page older than migration 0011: it has no authorization.
PageRow == [channel |-> "other", account |-> page1]
MCLegacyDatabases ==
  {EmptyDatabase,
   [EmptyDatabase EXCEPT
      !.registry[c2] = PageRow,
      !.events = {[id |-> 1, conn |-> c2, event |-> e1, channel |-> "other",
                   chat |-> "none", account |-> page1]},
      !.commands = {[id |-> 1, conn |-> c2, event |-> e1, op |-> o1,
                     text |-> t1, channel |-> "other"]}]}

Symmetry == Permutations(Server)
=============================================================================
