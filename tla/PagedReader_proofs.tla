-------------------------- MODULE PagedReader_proofs --------------------------
(***************************************************************************)
(* A walk shows the table as it was when its first statement ran.  The     *)
(* invariant says what the cursor in hand determines: what was taken are   *)
(* the rows of its scope up to its snapshot, since rows that come lie      *)
(* above, and what is left of them are those below its position.           *)
(***************************************************************************)
EXTENDS PagedReader, Limiter_proofs

\* Nothing is a beginning of any list.
LEMMA EmptyBegins ==
  ASSUME NEW rows PROVE Begins(<<>>, rows) /\ Range(<<>>) = {}
<1>1. DOMAIN <<>> = {}
  OBVIOUS
<1> QED
  BY <1>1 DEF Begins, Descending, Range

\* The first rows of what is left continue a beginning, and what is left then lies
\* below the last of them.
LEMMA PageExtends ==
  ASSUME NEW R, \A r \in R : r.id \in Int, NEW taken \in SUBSET R,
         NEW s \in Seq(R), Begins(s, taken),
         NEW p \in Seq(R), Begins(p, taken \ Range(s)), NEW k \in 0..Len(p)
  PROVE  /\ s \o SubSeq(p, 1, k) \in Seq(R) /\ Begins(s \o SubSeq(p, 1, k), taken)
         /\ k = Len(p) => Range(s \o SubSeq(p, 1, k)) = Range(s) \cup Range(p)
         /\ k # 0 => \A r \in taken :
                       r \notin Range(s \o SubSeq(p, 1, k)) <=> r.id < p[k].id
<1> DEFINE got == SubSeq(p, 1, k)
           all == s \o got
<1>1. /\ got \in Seq(R) /\ Len(got) = k /\ \A i \in 1..k : got[i] = p[i]
      /\ all \in Seq(R) /\ Len(all) = Len(s) + k
      /\ \A i \in 1..Len(s) : all[i] = s[i]
      /\ \A i \in 1..k : all[Len(s) + i] = p[i]
      /\ \A i \in 1..(Len(s) + k) : i \in 1..Len(s) \/ \E j \in 1..k : i = Len(s) + j
      /\ Range(s) = {s[i] : i \in 1..Len(s)} /\ Range(p) = {p[i] : i \in 1..Len(p)}
      /\ Range(all) = Range(s) \cup {p[i] : i \in 1..k}
  <2>1. Len(s) \in Nat /\ Len(p) \in Nat /\ k \in Nat /\ k <= Len(p)
    OBVIOUS
  <2>2. got \in Seq(R) /\ Len(got) = k /\ \A i \in 1..k : got[i] = p[i]
    <3>1. 1 \in Int /\ k \in Int /\ \A i \in 1..k : p[i] \in R
      BY <2>1
    <3>2. /\ SubSeq(p, 1, k) \in Seq(R)
          /\ Len(SubSeq(p, 1, k)) = IF 1 <= k THEN k - 1 + 1 ELSE 0
          /\ \A i \in 1..(k - 1 + 1) : SubSeq(p, 1, k)[i] = p[1 + i - 1]
      BY <3>1, SubSeqProperties
    <3> QED
      BY <2>1, <3>2
  <2> HIDE DEF got
  <2>3. /\ all \in Seq(R) /\ Len(all) = Len(s) + k
        /\ \A i \in 1..(Len(s) + k) : all[i] = IF i <= Len(s) THEN s[i] ELSE got[i - Len(s)]
    BY <2>1, <2>2, ConcatProperties
  <2> HIDE DEF all
  <2>4. \A i \in 1..Len(s) : all[i] = s[i]
    BY <2>1, <2>3
  <2>5. \A i \in 1..k : all[Len(s) + i] = p[i]
    <3> TAKE i \in 1..k
    <3>1. Len(s) + i \in 1..(Len(s) + k) /\ ~(Len(s) + i <= Len(s)) /\ Len(s) + i - Len(s) = i
      BY <2>1
    <3> QED
      BY <2>2, <2>3, <3>1
  <2>6. ASSUME NEW i \in 1..(Len(s) + k) PROVE i \in 1..Len(s) \/ \E j \in 1..k : i = Len(s) + j
    <3>1. CASE i <= Len(s)
      BY <2>1, <3>1
    <3>2. CASE ~(i <= Len(s))
      <4>1. i - Len(s) \in 1..k /\ i = Len(s) + (i - Len(s))
        BY <2>1, <3>2
      <4> QED
        BY <4>1
    <3> QED
      BY <3>1, <3>2
  <2>7. Range(s) = {s[i] : i \in 1..Len(s)} /\ Range(p) = {p[i] : i \in 1..Len(p)}
    <3>1. DOMAIN s = 1..Len(s) /\ DOMAIN p = 1..Len(p)
      OBVIOUS
    <3> QED
      BY <3>1 DEF Range
  <2>8. Range(all) = Range(s) \cup {p[i] : i \in 1..k}
    <3>1. Range(all) = {all[i] : i \in 1..(Len(s) + k)}
      <4>1. DOMAIN all = 1..(Len(s) + k)
        BY <2>3
      <4> QED
        BY <4>1 DEF Range
    <3>2. ASSUME NEW i \in 1..(Len(s) + k) PROVE all[i] \in Range(s) \cup {p[j] : j \in 1..k}
      <4>1. CASE i \in 1..Len(s)
        BY <2>4, <2>7, <4>1
      <4>2. CASE \E j \in 1..k : i = Len(s) + j
        BY <2>5, <4>2
      <4> QED
        BY <2>6, <4>1, <4>2
    <3>3. ASSUME NEW i \in 1..Len(s) PROVE s[i] \in {all[j] : j \in 1..(Len(s) + k)}
      <4>1. i \in 1..(Len(s) + k)
        BY <2>1
      <4> QED
        BY <2>4, <4>1
    <3>4. ASSUME NEW i \in 1..k PROVE p[i] \in {all[j] : j \in 1..(Len(s) + k)}
      <4>1. Len(s) + i \in 1..(Len(s) + k)
        BY <2>1
      <4> QED
        BY <2>5, <4>1
    <3> QED
      BY <2>7, <3>1, <3>2, <3>3, <3>4
  <2> QED
    BY <2>2, <2>3, <2>4, <2>5, <2>6, <2>7, <2>8
<1> HIDE DEF all, got
<1>2. /\ Len(s) \in Nat /\ Len(p) \in Nat /\ k \in Nat /\ k <= Len(p)
      /\ DOMAIN s = 1..Len(s) /\ DOMAIN p = 1..Len(p) /\ DOMAIN all = 1..(Len(s) + k)
  BY <1>1
<1>3. /\ \A i, j \in 1..Len(s) : i < j => s[i].id > s[j].id
      /\ \A i, j \in 1..Len(p) : i < j => p[i].id > p[j].id
      /\ \A i \in 1..Len(s) : s[i] \in taken
      /\ \A i \in 1..Len(p) : p[i] \in taken \ Range(s)
      /\ \A r \in taken \ Range(s), i \in 1..Len(s) : r.id < s[i].id
      /\ \A r \in (taken \ Range(s)) \ Range(p), i \in 1..Len(p) : r.id < p[i].id
  BY <1>1, <1>2 DEF Begins, Descending
<1>4. \A i \in 1..k : i \in 1..Len(p) /\ p[i] \in taken \ Range(s)
  BY <1>2, <1>3
<1>5. Range(all) \subseteq taken
  BY <1>1, <1>3, <1>4
<1>6. ASSUME NEW i \in 1..(Len(s) + k), NEW j \in 1..(Len(s) + k), i < j
      PROVE  all[i].id > all[j].id
  <2>1. CASE i \in 1..Len(s) /\ j \in 1..Len(s)
    BY <1>1, <1>3, <1>6, <2>1
  <2>2. CASE i \in 1..Len(s) /\ \E b \in 1..k : j = Len(s) + b
    <3>1. PICK b \in 1..k : j = Len(s) + b
      BY <2>2
    <3>2. all[i] = s[i] /\ all[j] = p[b] /\ p[b].id < s[i].id
      BY <1>1, <1>3, <1>4, <2>2, <3>1
    <3>3. p[b].id \in Int /\ s[i].id \in Int
      BY <1>3, <1>4, <2>2
    <3> QED
      BY <3>2, <3>3
  <2>3. CASE \E a \in 1..k : i = Len(s) + a
    <3>1. PICK a \in 1..k : i = Len(s) + a
      BY <2>3
    <3>2. PICK b \in 1..k : j = Len(s) + b
      <4>1. j \notin 1..Len(s)
        BY <1>2, <1>6, <3>1
      <4> QED
        BY <1>1, <4>1
    <3>3. a < b /\ a \in 1..Len(p) /\ b \in 1..Len(p)
      BY <1>2, <1>4, <1>6, <3>1, <3>2
    <3> QED
      BY <1>1, <1>3, <3>1, <3>2, <3>3
  <2> QED
    BY <1>1, <2>1, <2>2, <2>3
<1>7. ASSUME NEW r \in taken \ Range(all), NEW j \in 1..k PROVE r.id < p[j].id
  <2>1. r \in taken \ Range(s) /\ j \in 1..Len(p)
    BY <1>1, <1>4
  <2>2. CASE r \notin Range(p)
    BY <1>3, <2>1, <2>2
  <2>3. CASE r \in Range(p)
    <3>1. PICK n \in 1..Len(p) : r = p[n]
      BY <1>1, <2>3
    <3>2. n \notin 1..k
      BY <1>1, <1>7, <3>1
    <3>3. j < n
      BY <1>2, <3>2
    <3>4. p[j].id > p[n].id /\ p[j].id \in Int /\ p[n].id \in Int
      BY <1>3, <2>1, <3>3
    <3> QED
      BY <3>1, <3>4
  <2> QED
    BY <2>2, <2>3
<1>8. ASSUME NEW r \in taken \ Range(all), NEW i \in 1..(Len(s) + k) PROVE r.id < all[i].id
  <2>1. CASE i \in 1..Len(s)
    BY <1>1, <1>3, <2>1
  <2>2. CASE \E j \in 1..k : i = Len(s) + j
    BY <1>1, <1>7, <2>2
  <2> QED
    BY <1>1, <2>1, <2>2
<1>9. Begins(all, taken)
  BY <1>2, <1>5, <1>6, <1>8 DEF Begins, Descending
<1>10. ASSUME k # 0 PROVE \A r \in taken : r \notin Range(all) <=> r.id < p[k].id
  <2>1. k \in 1..k
    BY <1>2, <1>10
  <2>2. ASSUME NEW r \in Range(all) PROVE ~(r.id < p[k].id)
    <3>1. PICK i \in 1..(Len(s) + k) : r = all[i]
      BY <1>1, <1>2 DEF Range
    <3>2. /\ Len(s) + k \in 1..(Len(s) + k) /\ all[Len(s) + k] = p[k]
          /\ i = Len(s) + k \/ i < Len(s) + k
      BY <1>1, <1>2, <2>1
    <3>3. r.id \in Int /\ p[k].id \in Int
      BY <1>4, <1>5, <2>1
    <3> QED
      BY <1>6, <3>1, <3>2, <3>3
  <2> QED
    BY <1>7, <2>1, <2>2
<1>11. k = Len(p) => Range(all) = Range(s) \cup Range(p)
  BY <1>1
<1> QED
  BY <1>1, <1>9, <1>10, <1>11 DEF all, got

-----------------------------------------------------------------------------
(* The invariant.                                                          *)

Row == Events!Row

Walk == [at : {"none", "walking", "ended"}, view : View \cup {{}}, taken : SUBSET Row,
         seen : Seq(Row)]
Handler == [at : {"idle", "snapshot", "page"}, view : View \cup {{}}, limit : Nat,
            cursor : Cursor \cup {NoCursor}, snapshot : Nat]

Typed ==
  /\ events \in SUBSET Row
  /\ commands \in SUBSET Row
  /\ config \in Config
  /\ walk \in Walk /\ handler \in Handler /\ held \in Cursor \cup {NoCursor}

\* The connections a walk of view v is about, when its cursor is c.
ScopeIn(v, c) == IF v.route = "connection" THEN {v.owner} ELSE c.scope

\* Some row is at n or above, so that no row that comes is below.
Reached(v, n) == \E r \in TableOf(v) : n <= r.id

UpTo(v, scope, n) == {r \in TableOf(v) : r.conn \in scope /\ r.id <= n}

\* A cursor of view v, as far as its binding depends on the view alone.
Owned(v, c) ==
  /\ c.form = IF v.route = "connection" THEN "connection" ELSE "inbox"
  /\ c.version = IF v.route = "history" THEN 1 ELSE 2
  /\ c.owner = v.owner

\* The cursor in hand says what was taken and how much of it is left.
Carried ==
  /\ Owned(walk.view, held)
  /\ Reached(walk.view, held.snapshot)
  /\ walk.taken = UpTo(walk.view, ScopeIn(walk.view, held), held.snapshot)
  /\ walk.taken \ Range(walk.seen) = {r \in walk.taken : r.id < held.before}

WalkInv ==
  /\ walk.at = "walking" =>
       /\ walk.view \in View
       /\ held = NoCursor => walk.seen = <<>>
       /\ held # NoCursor => Carried
  /\ WalkIsSnapshot

\* A request is one of the walk, and the page it reads is what is left of it.
HandlerInv ==
  /\ handler.at = "idle" => handler = Idle
  /\ handler.at # "idle" =>
       /\ walk.at = "walking" /\ handler.view = walk.view /\ handler.cursor = held
       /\ handler.limit \in Limit
  /\ handler.at = "snapshot" => held = NoCursor
  /\ handler.at = "page" =>
       /\ Reached(walk.view, handler.snapshot)
       /\ walk.taken = UpTo(walk.view, ScopeOf(walk.view), handler.snapshot)
       /\ held # NoCursor => handler.snapshot = held.snapshot

ReaderInv == Typed /\ WalkInv /\ HandlerInv

LEMMA RowIds == \A r \in Row : r.id \in 1..MaxId /\ r.id \in Int /\ r.id \in Nat
  BY ReaderAssumption DEF Row, Events!Row

LEMMA ReaderStarts == Init => ReaderInv
<1> SUFFICES ASSUME Init PROVE ReaderInv
  OBVIOUS
<1>1. Typed
  <2>1. <<>> \in Seq(Row)
    OBVIOUS
  <2> QED
    BY <2>1 DEF Init, Typed, Walk, Handler, NoWalk, Idle
<1> QED
  BY <1>1 DEF Init, ReaderInv, WalkInv, HandlerInv, WalkIsSnapshot, NoWalk, Idle

\* Rows that come lie above all that is there.
LEMMA WriteKeeps ==
  ASSUME ReaderInv, Write PROVE ReaderInv'
<1>1. /\ events' \in SUBSET Row /\ commands' \in SUBSET Row
      /\ events \subseteq events' /\ commands \subseteq commands'
      /\ \A r \in events' \ events, old \in events : old.id < r.id
      /\ \A r \in commands' \ commands, old \in commands : old.id < r.id
      /\ UNCHANGED <<config, restarts, handler, held, walk, reply>>
  BY DEF Write, ReaderInv, Typed, Events!Next, Events!Append, Commands!Next, Commands!Append,
         Row, Events!Row, Commands!Row
<1>2. ASSUME NEW v \in View, NEW n \in Nat, Reached(v, n)
      PROVE  Reached(v, n)' /\ \A scope : UpTo(v, scope, n)' = UpTo(v, scope, n)
  <2>1. PICK old \in TableOf(v) : n <= old.id
    BY <1>2 DEF Reached
  <2>2. /\ TableOf(v) \subseteq TableOf(v)' /\ TableOf(v)' \subseteq Row
        /\ \A r \in TableOf(v)' \ TableOf(v) : old.id < r.id
    BY <1>1, <2>1 DEF TableOf
  <2>3. \A r \in TableOf(v)' \ TableOf(v) : ~(r.id <= n)
    BY <2>1, <2>2, RowIds
  <2> QED
    BY <2>1, <2>2, <2>3 DEF Reached, UpTo
<1>3. Typed'
  BY <1>1 DEF ReaderInv, Typed
<1>4. WalkInv'
  <2>1. WalkIsSnapshot'
    BY <1>1 DEF ReaderInv, WalkInv, WalkIsSnapshot
  <2>2. ASSUME walk.at = "walking", held # NoCursor PROVE Carried'
    <3>1. Carried /\ walk.view \in View /\ held.snapshot \in Nat
      BY <2>2, ReaderAssumption DEF ReaderInv, WalkInv, Typed, Cursor
    <3> QED
      BY <1>1, <1>2, <3>1 DEF Carried, Owned, ScopeIn
  <2> QED
    BY <1>1, <2>1, <2>2 DEF ReaderInv, WalkInv
<1>5. HandlerInv'
  <2>1. ASSUME handler.at = "page"
        PROVE  /\ Reached(walk.view, handler.snapshot)'
               /\ (walk.taken = UpTo(walk.view, ScopeOf(walk.view), handler.snapshot))'
    <3>1. /\ Reached(walk.view, handler.snapshot) /\ walk.view \in View /\ handler.snapshot \in Nat
          /\ walk.taken = UpTo(walk.view, ScopeOf(walk.view), handler.snapshot)
      BY <2>1 DEF ReaderInv, WalkInv, HandlerInv, Typed, Handler
    <3> QED
      BY <1>1, <1>2, <3>1 DEF ScopeOf
  <2> QED
    BY <1>1, <2>1 DEF ReaderInv, HandlerInv
<1> QED
  BY <1>3, <1>4, <1>5 DEF ReaderInv

\* A request that is let in is the one the client made.
LEMMA Arrives ==
  ASSUME ReaderInv, NEW v \in View, NEW c \in Cursor \cup {NoCursor}, Arrive(v, c)
  PROVE  /\ handler = Idle /\ UNCHANGED <<events, commands, config>>
         /\ \/ reply' = "rejected" /\ handler' = Idle
            \/ /\ reply' = "none" /\ Accepts(v, c)
               /\ handler' \in Handler /\ handler'.view = v /\ handler'.cursor = c
               /\ handler'.limit \in Limit
               /\ handler'.at = IF c = NoCursor THEN "snapshot" ELSE "page"
               /\ c # NoCursor => handler'.snapshot = c.snapshot
<1>1. handler = Idle /\ UNCHANGED <<events, commands, config>>
  BY DEF Arrive, tables
<1>2. CASE reply' = "rejected" /\ UNCHANGED handler
  BY <1>1, <1>2
<1>3. CASE /\ reply' = "none" /\ Accepts(v, c)
           /\ \E n \in Limit :
                handler' = [at |-> IF c = NoCursor THEN "snapshot" ELSE "page",
                            view |-> v, limit |-> n, cursor |-> c,
                            snapshot |-> IF c = NoCursor THEN 0 ELSE c.snapshot]
  <2>1. PICK n \in Limit :
          handler' = [at |-> IF c = NoCursor THEN "snapshot" ELSE "page",
                      view |-> v, limit |-> n, cursor |-> c,
                      snapshot |-> IF c = NoCursor THEN 0 ELSE c.snapshot]
    BY <1>3
  <2>2. n \in Nat /\ (IF c = NoCursor THEN 0 ELSE c.snapshot) \in Nat
    BY ReaderAssumption DEF Cursor
  <2>3. handler' \in Handler
    BY <2>1, <2>2 DEF Handler
  <2> QED
    BY <1>1, <1>3, <2>1, <2>3
<1> QED
  BY <1>1, <1>2, <1>3 DEF Arrive

LEMMA OpenKeeps ==
  ASSUME ReaderInv, NEW v \in View, Open(v) PROVE ReaderInv'
<1>1. /\ Arrive(v, NoCursor) /\ held' = NoCursor
      /\ walk' = [at |-> "walking", view |-> v, taken |-> {}, seen |-> <<>>]
  BY DEF Open, NoWalk
<1>2. /\ UNCHANGED <<events, commands, config>>
      /\ \/ handler' = Idle
         \/ /\ handler' \in Handler /\ handler'.view = v /\ handler'.cursor = NoCursor
            /\ handler'.limit \in Limit /\ handler'.at = "snapshot"
  BY <1>1, Arrives
<1>3. Typed'
  <2>1. <<>> \in Seq(Row) /\ Idle \in Handler
    BY DEF Idle, Handler
  <2> QED
    BY <1>1, <1>2, <2>1 DEF ReaderInv, Typed, Walk, Row
<1>4. WalkInv'
  BY <1>1, EmptyBegins DEF WalkInv, WalkIsSnapshot
<1>5. HandlerInv'
  BY <1>1, <1>2 DEF HandlerInv, Idle
<1> QED
  BY <1>3, <1>4, <1>5 DEF ReaderInv

\* The cursor goes with the scope of the view it is presented to.
LEMMA FollowKeeps ==
  ASSUME ReaderInv, Follow PROVE ReaderInv'
<1>1. /\ walk.at = "walking" /\ walk.view \in View /\ held \in Cursor \cup {NoCursor}
      /\ Arrive(walk.view, held) /\ held' = held
      /\ walk' = IF reply' = "rejected" THEN NoWalk ELSE walk
  BY DEF Follow, ReaderInv, WalkInv, Typed
<1>2. handler = Idle /\ UNCHANGED <<events, commands, config>>
  BY <1>1, Arrives
<1>3. CASE reply' = "rejected" /\ handler' = Idle
  <2>1. walk' = NoWalk /\ NoWalk \in Walk
    BY <1>1, <1>3 DEF NoWalk, Walk
  <2> QED
    BY <1>1, <1>2, <1>3, <2>1
    DEF ReaderInv, Typed, WalkInv, WalkIsSnapshot, HandlerInv, NoWalk, Idle, Row
<1>4. CASE /\ reply' = "none" /\ Accepts(walk.view, held)
           /\ handler' \in Handler /\ handler'.view = walk.view /\ handler'.cursor = held
           /\ handler'.limit \in Limit
           /\ handler'.at = IF held = NoCursor THEN "snapshot" ELSE "page"
           /\ held # NoCursor => handler'.snapshot = held.snapshot
  <2>1. UNCHANGED <<events, commands, config, walk, held>>
    BY <1>1, <1>2, <1>4
  <2>2. Typed' /\ WalkInv'
    BY <1>4, <2>1 DEF ReaderInv, Typed, WalkInv, WalkIsSnapshot, Carried, Owned, Reached, UpTo,
                      ScopeIn, TableOf, Row
  <2>3. ASSUME held # NoCursor
        PROVE  /\ Reached(walk.view, held.snapshot)
               /\ walk.taken = UpTo(walk.view, ScopeOf(walk.view), held.snapshot)
    <3>1. Carried
      BY <1>1, <2>3 DEF ReaderInv, WalkInv
    <3>2. held = EncodeCursor(walk.view, held.before, held.snapshot)
      BY <1>4, <2>3 DEF Accepts
    <3>3. walk.view.route # "connection" => held.scope = ScopeOf(walk.view)
      BY <3>2 DEF EncodeCursor, Binding
    <3>4. ScopeIn(walk.view, held) = ScopeOf(walk.view)
      BY <3>3 DEF ScopeIn, ScopeOf
    <3> QED
      BY <3>1, <3>4 DEF Carried
  <2>4. HandlerInv'
    BY <1>1, <1>4, <2>1, <2>3 DEF HandlerInv, Reached, UpTo, ScopeOf, TableOf
  <2> QED
    BY <2>2, <2>4 DEF ReaderInv
<1> QED
  BY <1>1, <1>3, <1>4, Arrives

\* A cursor is turned away wherever it does not belong.
LEMMA StrayKeeps ==
  ASSUME ReaderInv, NEW v \in View, Stray(v) PROVE ReaderInv' /\ reply' = "rejected"
<1>1. /\ walk.at = "walking" /\ held # NoCursor /\ v # walk.view /\ walk.view \in View
      /\ held \in Cursor \cup {NoCursor} /\ Arrive(v, held) /\ UNCHANGED <<held, walk>>
  BY DEF Stray, ReaderInv, WalkInv, Typed
<1>2. Owned(walk.view, held)
  BY <1>1 DEF ReaderInv, WalkInv, Carried
<1>3. ~Accepts(v, held)
  <2> SUFFICES ASSUME Accepts(v, held) PROVE FALSE
    OBVIOUS
  <2>1. held = EncodeCursor(v, held.before, held.snapshot)
    BY <1>1 DEF Accepts
  <2>2. Owned(v, held)
    BY <2>1 DEF EncodeCursor, Binding, Owned
  <2>3. v.route = walk.view.route /\ v.owner = walk.view.owner
    BY <1>1, <1>2, <2>2 DEF Owned, View
  <2> QED
    BY <1>1, <2>3 DEF View
<1>4. reply' = "rejected" /\ UNCHANGED <<events, commands, config, handler>>
  BY <1>1, <1>3 DEF Arrive, tables
<1> QED
  BY <1>1, <1>4 DEF ReaderInv, Typed, WalkInv, WalkIsSnapshot, Carried, Owned, Reached, UpTo,
                    ScopeIn, ScopeOf, TableOf, HandlerInv, Row

\* The identity column is bounded, so rows have a highest id.
LEMMA Highest ==
  ASSUME NEW rows \in SUBSET Row, rows # {}
  PROVE  /\ MaximumId(rows) \in 1..MaxId
         /\ \A r \in rows : r.id <= MaximumId(rows)
         /\ \E r \in rows : r.id = MaximumId(rows)
<1> DEFINE bounds == {n \in Nat : \A r \in rows : r.id <= n}
<1>1. \A r \in rows : r.id \in 1..MaxId /\ r.id \in Nat
  BY RowIds
<1>2. PICK n \in bounds : \A k \in bounds : n <= k
  <2>1. MaxId \in bounds
    BY <1>1, ReaderAssumption
  <2>2. bounds \in SUBSET Nat /\ bounds # {}
    BY <2>1
  <2> HIDE DEF bounds
  <2> QED
    BY <2>2, LeastNumber
<1>3. n \in Nat /\ \A r \in rows : r.id <= n
  OBVIOUS
<1>4. \E r \in rows : r.id = n
  <2> SUFFICES ASSUME \A r \in rows : r.id # n PROVE FALSE
    OBVIOUS
  <2>1. PICK old \in rows : TRUE
    OBVIOUS
  <2>2. \A r \in rows : r.id <= n - 1
    BY <1>1, <1>3
  <2>3. n - 1 \in Nat
    BY <1>1, <1>3, <2>1, <2>2
  <2>4. n - 1 \in bounds
    BY <2>2, <2>3
  <2> QED
    BY <1>2, <1>3, <2>4
<1>5. n \in {r.id : r \in rows} /\ \A r \in rows : r.id <= n
  BY <1>3, <1>4
<1>6. MaximumId(rows) \in {r.id : r \in rows} /\ \A r \in rows : r.id <= MaximumId(rows)
  BY <1>5 DEF MaximumId
<1> QED
  BY <1>1, <1>6

LEMMA SnapshotKeeps ==
  ASSUME ReaderInv, ReadSnapshot PROVE ReaderInv'
<1> DEFINE v == walk.view
           scope == InScope(v)
<1>1. /\ handler.at = "snapshot" /\ handler.view = v /\ walk.at = "walking" /\ v \in View
      /\ held = NoCursor /\ handler.cursor = NoCursor /\ handler.limit \in Limit
      /\ handler \in Handler /\ walk \in Walk
      /\ UNCHANGED <<events, commands, config>>
  <2>1. handler.at = "snapshot" /\ UNCHANGED <<events, commands, config>>
    BY DEF ReadSnapshot, Respond, tables
  <2> QED
    BY <2>1 DEF ReaderInv, HandlerInv, WalkInv, Typed
<1>2. scope \in SUBSET Row /\ <<>> \in Seq(Row)
  BY DEF ReaderInv, Typed, InScope, TableOf
<1>3. CASE scope = {}
  <2>1. /\ handler' = Idle /\ held' = NoCursor
        /\ walk' = [walk EXCEPT !.at = "ended", !.taken = {}, !.seen = <<>>]
    BY <1>1, <1>3 DEF ReadSnapshot, Respond
  <2>2. walk' \in Walk /\ walk'.at = "ended" /\ walk'.taken = {} /\ walk'.seen = <<>>
    BY <1>1, <1>2, <2>1 DEF Walk
  <2>3. Idle \in Handler
    BY DEF Idle, Handler
  <2> QED
    BY <1>1, <2>1, <2>2, <2>3, EmptyBegins
    DEF ReaderInv, Typed, WalkInv, WalkIsSnapshot, HandlerInv, Idle, Row
<1>4. CASE scope # {}
  <2> DEFINE n == MaximumId(scope)
  <2>1. /\ handler' = [handler EXCEPT !.at = "page", !.snapshot = n]
        /\ walk' = [walk EXCEPT !.taken = scope, !.seen = <<>>] /\ held' = held
    BY <1>1, <1>4 DEF ReadSnapshot, tables
  <2>2. n \in 1..MaxId /\ (\A r \in scope : r.id <= n) /\ \E r \in scope : r.id = n
    BY <1>2, <1>4, Highest
  <2> HIDE DEF n
  <2>3. n \in Nat /\ n \in Int
    BY <2>2, ReaderAssumption
  <2>4. /\ handler' \in Handler /\ handler'.at = "page" /\ handler'.snapshot = n
        /\ handler'.view = v /\ handler'.cursor = NoCursor /\ handler'.limit \in Limit
    BY <1>1, <2>1, <2>3 DEF Handler
  <2>5. /\ walk' \in Walk /\ walk'.at = "walking" /\ walk'.view = v
        /\ walk'.taken = scope /\ walk'.seen = <<>>
    BY <1>1, <1>2, <2>1 DEF Walk
  <2>6. Typed'
    BY <1>1, <2>1, <2>4, <2>5 DEF ReaderInv, Typed, Row
  <2>7. WalkInv'
    BY <1>1, <2>1, <2>5, EmptyBegins DEF WalkInv, WalkIsSnapshot
  <2>8. Reached(v, n) /\ scope = UpTo(v, ScopeOf(v), n)
    BY <2>2, <2>3 DEF Reached, UpTo, InScope
  <2>9. HandlerInv'
    BY <1>1, <2>1, <2>4, <2>5, <2>8 DEF HandlerInv, Reached, UpTo, ScopeOf, TableOf
  <2> QED
    BY <2>6, <2>7, <2>9 DEF ReaderInv
<1> QED
  BY <1>3, <1>4

\* The page of a request is the first rows of what is left of its walk.
LEMMA PageIsLeft ==
  ASSUME ReaderInv, handler.at = "page"
  PROVE  PageRows(handler) = walk.taken \ Range(walk.seen)
<1>1. /\ walk.at = "walking" /\ handler.view = walk.view /\ handler.cursor = held
      /\ walk.taken = UpTo(walk.view, ScopeOf(walk.view), handler.snapshot)
      /\ held = NoCursor => walk.seen = <<>>
      /\ held # NoCursor => Carried
  BY DEF ReaderInv, HandlerInv, WalkInv
<1>2. walk.taken = {r \in InScope(walk.view) : r.id <= handler.snapshot}
  BY <1>1 DEF UpTo, InScope
<1>3. CASE held = NoCursor
  <2>1. PageRows(handler) = walk.taken
    BY <1>1, <1>2, <1>3 DEF PageRows
  <2>2. Range(walk.seen) = {}
    BY <1>1, <1>3, EmptyBegins
  <2> QED
    BY <2>1, <2>2
<1>4. CASE held # NoCursor
  <2>1. PageRows(handler) = {r \in walk.taken : r.id < held.before}
    BY <1>1, <1>2, <1>4 DEF PageRows
  <2> QED
    BY <1>1, <1>4, <2>1 DEF Carried
<1> QED
  BY <1>3, <1>4

\* What the statement of a page answers.
LEMMA PageIs ==
  ASSUME ReaderInv, handler.at = "page", NEW rows \in Query(handler)
  PROVE  /\ rows \in Seq(Row) /\ Len(rows) \in 0..(handler.limit + 1)
         /\ \A i \in 1..Len(rows) : rows[i] \in PageRows(handler)
         /\ Begins(rows, walk.taken \ Range(walk.seen))
         /\ Len(rows) <= handler.limit => Range(rows) = walk.taken \ Range(walk.seen)
         /\ Parses(handler, rows)
<1> DEFINE left == PageRows(handler)
<1>1. left = walk.taken \ Range(walk.seen) /\ left \subseteq Row /\ handler.limit \in Nat
  BY PageIsLeft DEF ReaderInv, Typed, Walk, Handler
<1>2. PICK n \in 0..(handler.limit + 1) : rows \in [1..n -> left]
  BY DEF Query
<1>3. Begins(rows, left) /\ (Len(rows) <= handler.limit => Range(rows) = left)
  BY DEF Query
<1>4. \A r \in left : r.id <= handler.snapshot /\ (handler.cursor # NoCursor => r.id < handler.cursor.before)
  BY DEF PageRows
<1> HIDE DEF left
<1>5. rows \in Seq(Row) /\ Len(rows) = n /\ DOMAIN rows = 1..n
  BY <1>1, <1>2
<1>6. \A i \in 1..n : rows[i] \in left
  BY <1>2
<1>7. Parses(handler, rows)
  BY <1>4, <1>5, <1>6 DEF Parses
<1> QED
  BY <1>1, <1>3, <1>5, <1>6, <1>7 DEF left

LEMMA PageKeeps ==
  ASSUME ReaderInv, ReadPage PROVE ReaderInv' /\ reply' = "page"
<1> DEFINE v == walk.view
           limit == handler.limit
           left == walk.taken \ Range(walk.seen)
<1>1. /\ handler.at = "page" /\ handler.view = v /\ walk.at = "walking" /\ v \in View
      /\ limit \in Nat /\ limit # 0 /\ handler.snapshot \in Nat
      /\ walk \in Walk /\ walk.seen \in Seq(Row) /\ walk.taken \in SUBSET Row
      /\ Begins(walk.seen, walk.taken)
      /\ Reached(v, handler.snapshot)
      /\ walk.taken = UpTo(v, ScopeOf(v), handler.snapshot)
  BY ReaderAssumption
  DEF ReadPage, ReaderInv, HandlerInv, WalkInv, WalkIsSnapshot, Typed, Walk, Handler
<1>2. PICK rows \in Query(handler) :
        IF Parses(handler, rows)
        THEN /\ Respond(NextCursor(handler, rows))
             /\ walk' = [walk EXCEPT
                  !.at = IF NextCursor(handler, rows) = NoCursor THEN "ended" ELSE "walking",
                  !.seen = @ \o Selected(handler, rows)]
        ELSE /\ handler' = Idle /\ reply' = "failed"
             /\ UNCHANGED <<tables, config, restarts, held, walk>>
  BY DEF ReadPage
<1>3. /\ rows \in Seq(Row) /\ Len(rows) \in 0..(limit + 1)
      /\ \A i \in 1..Len(rows) : rows[i] \in PageRows(handler)
      /\ Begins(rows, left)
      /\ Len(rows) <= limit => Range(rows) = left
      /\ Parses(handler, rows)
  BY <1>1, PageIs
<1> DEFINE k == IF Len(rows) > limit THEN limit ELSE Len(rows)
           all == walk.seen \o SubSeq(rows, 1, k)
           next == NextCursor(handler, rows)
<1>4. /\ k \in 0..Len(rows) /\ Len(rows) \in Nat
      /\ Len(rows) <= limit => k = Len(rows)
      /\ ~(Len(rows) <= limit) => k = limit /\ k \in 1..Len(rows) /\ k # 0
  BY <1>1, <1>3
<1>5. /\ handler' = Idle /\ reply' = "page" /\ held' = next
      /\ UNCHANGED <<events, commands, config>>
      /\ walk' = [walk EXCEPT !.at = IF next = NoCursor THEN "ended" ELSE "walking", !.seen = all]
  BY <1>2, <1>3 DEF Respond, Selected, tables
<1>6. next = IF Len(rows) <= limit THEN NoCursor
             ELSE EncodeCursor(v, rows[limit].id, handler.snapshot)
  BY <1>1 DEF NextCursor
<1> HIDE DEF k, next
<1>7. /\ all \in Seq(Row) /\ Begins(all, walk.taken)
      /\ k = Len(rows) => Range(all) = Range(walk.seen) \cup Range(rows)
      /\ k # 0 => \A r \in walk.taken : r \notin Range(all) <=> r.id < rows[k].id
  <2>1. \A r \in Row : r.id \in Int
    BY RowIds
  <2>2. all = walk.seen \o SubSeq(rows, 1, k)
    OBVIOUS
  <2>3. rows \in Seq(Row) /\ Begins(rows, walk.taken \ Range(walk.seen)) /\ k \in 0..Len(rows)
    BY <1>3, <1>4
  <2>4. walk.taken \in SUBSET Row /\ walk.seen \in Seq(Row) /\ Begins(walk.seen, walk.taken)
    BY <1>1
  <2> HIDE DEF all, left, v, limit
  <2>5. ASSUME NEW taken \in SUBSET Row, NEW s \in Seq(Row), Begins(s, taken),
               NEW p \in Seq(Row), Begins(p, taken \ Range(s)), NEW n \in 0..Len(p)
        PROVE  /\ s \o SubSeq(p, 1, n) \in Seq(Row) /\ Begins(s \o SubSeq(p, 1, n), taken)
               /\ n = Len(p) => Range(s \o SubSeq(p, 1, n)) = Range(s) \cup Range(p)
               /\ n # 0 => \A r \in taken :
                             r \notin Range(s \o SubSeq(p, 1, n)) <=> r.id < p[n].id
    BY <2>1, <2>5, PageExtends, ZenonT(40)
  <2>6. /\ walk.seen \o SubSeq(rows, 1, k) \in Seq(Row)
        /\ Begins(walk.seen \o SubSeq(rows, 1, k), walk.taken)
        /\ k = Len(rows)
           => Range(walk.seen \o SubSeq(rows, 1, k)) = Range(walk.seen) \cup Range(rows)
        /\ k # 0 => \A r \in walk.taken :
                      r \notin Range(walk.seen \o SubSeq(rows, 1, k)) <=> r.id < rows[k].id
    BY <2>3, <2>4, <2>5, ZenonT(40)
  <2> QED
    BY <2>2, <2>6, ZenonT(40)
<1> HIDE DEF all
<1>8. /\ walk' \in Walk /\ walk'.at = IF next = NoCursor THEN "ended" ELSE "walking"
      /\ walk'.view = v /\ walk'.taken = walk.taken /\ walk'.seen = all
  BY <1>1, <1>5, <1>7 DEF Walk
<1>9. Idle \in Handler
  BY DEF Idle, Handler
<1>10. CASE Len(rows) <= limit
  <2>1. next = NoCursor /\ k = Len(rows) /\ Range(rows) = left
    BY <1>3, <1>4, <1>6, <1>10
  <2>2. Range(all) = walk.taken
    BY <1>1, <1>7, <2>1 DEF Begins
  <2> QED
    BY <1>5, <1>7, <1>8, <1>9, <2>1, <2>2
    DEF ReaderInv, Typed, WalkInv, WalkIsSnapshot, HandlerInv, Idle, Row
<1>11. CASE ~(Len(rows) <= limit)
  <2> DEFINE last == rows[limit]
  <2>1. next = EncodeCursor(v, last.id, handler.snapshot) /\ k = limit /\ limit \in 1..Len(rows)
    BY <1>4, <1>6, <1>11
  <2>2. last \in Row /\ last.id \in 1..MaxId /\ last.id <= handler.snapshot
    <3>1. last \in PageRows(handler) /\ last \in Row
      BY <1>3, <2>1
    <3> QED
      BY <3>1, RowIds DEF PageRows
  <2> HIDE DEF last
  <2>3. handler.snapshot \in 1..MaxId
    <3>1. PICK r \in TableOf(v) : handler.snapshot <= r.id
      BY <1>1 DEF Reached
    <3>2. r.id \in 1..MaxId
      BY RowIds DEF ReaderInv, Typed, TableOf
    <3> QED
      BY <1>1, <2>2, <3>1, <3>2, ReaderAssumption
  <2>4. /\ next.before = last.id /\ next.snapshot = handler.snapshot
        /\ Owned(v, next)
        /\ v.route # "connection" => next.scope = ScopeOf(v)
    BY <2>1 DEF EncodeCursor, Binding, Owned
  <2>5. next \in Cursor /\ next # NoCursor
    <3>1. Binding(v).scope \in SUBSET Conn
      <4>1. config \in [Inbox -> SUBSET Conn]
        BY ReaderAssumption DEF ReaderInv, Typed
      <4> QED
        BY <1>1, <4>1 DEF Binding, ScopeOf, View
    <3>2. /\ Binding(v).form \in {"inbox", "connection"} /\ Binding(v).version \in {1, 2}
          /\ Binding(v).owner \in Inbox \cup Conn
      BY <1>1 DEF Binding, View
    <3> QED
      BY <2>1, <2>2, <2>3, <3>1, <3>2, CursorAssumption DEF EncodeCursor, Cursor
  <2>6. ScopeIn(v, next) = ScopeOf(v)
    BY <2>4 DEF ScopeIn, ScopeOf
  <2>7. walk.taken \ Range(all) = {r \in walk.taken : r.id < next.before}
    BY <1>4, <1>7, <1>11, <2>1, <2>4 DEF last
  <2>8. Carried'
    BY <1>1, <1>5, <1>8, <2>4, <2>6, <2>7 DEF Carried, Owned, Reached, UpTo, ScopeIn, TableOf
  <2>9. WalkInv'
    BY <1>1, <1>5, <1>7, <1>8, <2>5, <2>8 DEF WalkInv, WalkIsSnapshot
  <2> QED
    BY <1>5, <1>8, <1>9, <2>5, <2>9 DEF ReaderInv, Typed, HandlerInv, Idle, Row
<1> QED
  BY <1>5, <1>10, <1>11

\* The table as it was, from the highest id down: the invariant of a walk.
LEMMA ReaderStep ==
  ASSUME ReaderInv, [Next]_vars PROVE ReaderInv'
<1>1. CASE GiveUp
  <2>1. /\ handler = Idle /\ walk' = NoWalk /\ held' = NoCursor
        /\ UNCHANGED <<events, commands, config, handler>>
    BY <1>1 DEF GiveUp, tables
  <2>2. NoWalk \in Walk
    BY DEF NoWalk, Walk
  <2> QED
    BY <2>1, <2>2
    DEF ReaderInv, Typed, WalkInv, WalkIsSnapshot, HandlerInv, NoWalk, Idle, Row
<1>2. ASSUME NEW cfg \in Config, Restart(cfg) PROVE ReaderInv'
  <2>1. handler' = Idle /\ config' = cfg /\ UNCHANGED <<events, commands, held, walk>>
    BY <1>2 DEF Restart, tables
  <2>2. Idle \in Handler
    BY DEF Idle, Handler
  <2>3. Typed' /\ HandlerInv'
    BY <2>1, <2>2 DEF ReaderInv, Typed, HandlerInv, Idle, Row
  <2>4. WalkInv'
    BY <2>1 DEF ReaderInv, WalkInv, WalkIsSnapshot, Carried, Owned, Reached, UpTo, ScopeIn, TableOf
  <2> QED
    BY <2>3, <2>4 DEF ReaderInv
<1>3. CASE UNCHANGED vars
  BY <1>3 DEF vars, ReaderInv, Typed, WalkInv, WalkIsSnapshot, Carried, Owned, Reached, UpTo,
              ScopeIn, ScopeOf, TableOf, HandlerInv, Row
<1> QED
  BY <1>1, <1>2, <1>3, WriteKeeps, OpenKeeps, FollowKeeps, StrayKeeps, SnapshotKeeps, PageKeeps
  DEF Next

\* A walk shows the table as it was when its first statement ran.
THEOREM WalkSnapshot == Spec => []WalkIsSnapshot
<1>1. ReaderInv => WalkIsSnapshot
  BY DEF ReaderInv, WalkInv
<1> QED
  BY <1>1, ReaderStarts, ReaderStep, PTL DEF Spec

-----------------------------------------------------------------------------
(* The statement of a page always has an answer.                            *)

\* A beginning of a list that leaves rows out goes on with the highest of them.
LEMMA GoesOn ==
  ASSUME NEW rows \in SUBSET Row, Events!UniqueIds(rows), NEW n \in Nat,
         NEW s \in [1..n -> rows], Begins(s, rows), Range(s) # rows
  PROVE  \E t \in [1..(n + 1) -> rows] : Begins(t, rows)
<1>1. \A r \in rows : r \in Row /\ r.id \in Int
  BY RowIds
<1>2. /\ \A i \in 1..n : s[i] \in rows
      /\ \A i, j \in 1..n : i < j => s[i].id > s[j].id
      /\ \A r \in rows \ Range(s), i \in 1..n : r.id < s[i].id
      /\ Range(s) = {s[i] : i \in 1..n} /\ Range(s) \subseteq rows
  BY DEF Begins, Descending, Range
<1>3. PICK top \in rows \ Range(s) : \A r \in rows \ Range(s) : r.id <= top.id
  <2>1. rows \ Range(s) \in SUBSET Row /\ rows \ Range(s) # {}
    BY <1>2
  <2> QED
    BY <2>1, Highest
<1> DEFINE t == [i \in 1..(n + 1) |-> IF i = n + 1 THEN top ELSE s[i]]
<1>4. /\ \A i \in 1..(n + 1) : i = n + 1 \/ i \in 1..n
      /\ \A i \in 1..n : i \in 1..(n + 1) /\ i # n + 1
      /\ n + 1 \in 1..(n + 1) /\ n + 1 \notin 1..n
      /\ \A i \in 1..(n + 1) : ~(n + 1 < i)
  OBVIOUS
<1>5. /\ DOMAIN t = 1..(n + 1) /\ t[n + 1] = top /\ \A i \in 1..n : t[i] = s[i]
      /\ t \in [1..(n + 1) -> rows]
  BY <1>2, <1>3, <1>4
<1> HIDE DEF t
<1>6. \A i \in 1..(n + 1) : t[i] \in rows
  BY <1>5
<1>7. Range(t) \subseteq rows /\ Range(s) \subseteq Range(t) /\ top \in Range(t)
  <2>1. Range(t) = {t[i] : i \in 1..(n + 1)}
    BY <1>5 DEF Range
  <2> QED
    BY <1>2, <1>4, <1>5, <1>6, <2>1
<1>8. Descending(t)
  <2> SUFFICES ASSUME NEW i \in 1..(n + 1), NEW j \in 1..(n + 1), i < j PROVE t[i].id > t[j].id
    BY <1>5 DEF Descending
  <2>1. i \in 1..n
    BY <1>4
  <2>2. CASE j \in 1..n
    BY <1>2, <1>5, <2>1, <2>2
  <2>3. CASE j = n + 1
    <3>1. t[i] = s[i] /\ t[j] = top /\ top.id < s[i].id
      BY <1>2, <1>3, <1>5, <2>1, <2>3
    <3>2. top.id \in Int /\ s[i].id \in Int
      BY <1>1, <1>2, <1>3, <2>1
    <3> QED
      BY <3>1, <3>2
  <2> QED
    BY <1>4, <2>2, <2>3
<1>9. ASSUME NEW r \in rows \ Range(t), NEW i \in 1..(n + 1) PROVE r.id < t[i].id
  <2>1. r \in rows \ Range(s) /\ r # top
    BY <1>7
  <2>2. CASE i \in 1..n
    BY <1>2, <1>5, <2>1, <2>2
  <2>3. CASE i = n + 1
    <3>1. r.id <= top.id /\ r.id # top.id /\ r.id \in Int /\ top.id \in Int
      BY <1>1, <1>3, <2>1 DEF Events!UniqueIds
    <3>2. t[i] = top
      BY <1>5, <2>3
    <3> QED
      BY <3>1, <3>2
  <2> QED
    BY <1>4, <2>2, <2>3
<1>10. Begins(t, rows)
  BY <1>5, <1>7, <1>8, <1>9 DEF Begins
<1> QED
  BY <1>5, <1>10

\* ORDER BY and LIMIT always answer: the longest beginning they may return is theirs.
LEMMA ListExists ==
  ASSUME NEW rows \in SUBSET Row, Events!UniqueIds(rows), NEW limit \in Nat
  PROVE  \E n \in 0..(limit + 1) : \E s \in [1..n -> rows] :
            Begins(s, rows) /\ (Len(s) <= limit => Range(s) = rows)
<1> DEFINE Fits(n) == \E s \in [1..n -> rows] : Begins(s, rows)
           short == {d \in Nat : d <= limit + 1 /\ Fits(limit + 1 - d)}
<1>1. Fits(0)
  <2>1. <<>> \in [1..0 -> rows]
    OBVIOUS
  <2> QED
    BY <2>1, EmptyBegins
<1>2. PICK d \in short : \A e \in short : d <= e
  <2>1. limit + 1 \in Nat /\ limit + 1 - (limit + 1) = 0
    OBVIOUS
  <2> HIDE DEF Fits
  <2>2. limit + 1 \in short
    BY <1>1, <2>1
  <2>3. short \in SUBSET Nat /\ short # {}
    BY <2>2
  <2> HIDE DEF short
  <2> QED
    BY <2>3, LeastNumber
<1> DEFINE n == limit + 1 - d
<1>3. d \in Nat /\ d <= limit + 1 /\ Fits(n)
  OBVIOUS
<1>4. PICK s \in [1..n -> rows] : Begins(s, rows)
  BY <1>3
<1>5. n \in 0..(limit + 1) /\ n \in Nat
  BY <1>3
<1>6. Len(s) = n
  BY <1>5
<1>7. n <= limit => Range(s) = rows
  <2> SUFFICES ASSUME n <= limit, Range(s) # rows PROVE FALSE
    OBVIOUS
  <2>1. Fits(n + 1)
    <3> HIDE DEF n
    <3> QED
      BY <1>4, <1>5, GoesOn
  <2> HIDE DEF Fits
  <2>2. d - 1 \in Nat /\ d - 1 <= limit + 1 /\ limit + 1 - (d - 1) = n + 1
    BY <1>3
  <2>3. d - 1 \in short
    BY <2>1, <2>2
  <2>4. d <= d - 1
    BY <1>2, <2>3
  <2> QED
    BY <1>3, <2>4
<1> HIDE DEF n
<1> QED
  BY <1>4, <1>5, <1>6, <1>7

\* No two rows of a table have the same id.
DistinctInv == Typed /\ Events!UniqueIds(events) /\ Events!UniqueIds(commands)

LEMMA DistinctKept ==
  ASSUME ReaderInv, DistinctInv, [Next]_vars PROVE DistinctInv'
<1>1. Typed'
  BY ReaderStep DEF ReaderInv
<1>2. CASE Write
  <2>1. CASE Events!Next /\ UNCHANGED commands
    <3>1. PICK new \in SUBSET Row : Events!Append(new)
      BY <2>1 DEF Events!Next, Row
    <3>2. /\ events' = events \cup new /\ commands' = commands
          /\ \A r \in new, old \in events : old.id < r.id
          /\ \A r, q \in new : r.id = q.id => r = q
          /\ \A r, q \in events : r.id = q.id => r = q
      BY <2>1, <3>1 DEF Events!Append, Events!UniqueIds, DistinctInv
    <3>3. \A r \in new \cup events : r.id \in Int
      BY <3>1, RowIds DEF DistinctInv, Typed
    <3>4. \A r \in new, old \in events : old.id # r.id
      BY <3>2, <3>3
    <3>5. Events!UniqueIds(events')
      BY <3>2, <3>4 DEF Events!UniqueIds
    <3> QED
      BY <1>1, <3>2, <3>5 DEF DistinctInv
  <2>2. CASE Commands!Next /\ UNCHANGED events
    <3>1. PICK new \in SUBSET Row : Commands!Append(new)
      BY <2>2 DEF Commands!Next, Commands!Row, Events!Row, Row
    <3>2. /\ commands' = commands \cup new /\ events' = events
          /\ \A r \in new, old \in commands : old.id < r.id
          /\ \A r, q \in new : r.id = q.id => r = q
          /\ \A r, q \in commands : r.id = q.id => r = q
      BY <2>2, <3>1 DEF Commands!Append, Commands!UniqueIds, Events!UniqueIds, DistinctInv
    <3>3. \A r \in new \cup commands : r.id \in Int
      BY <3>1, RowIds DEF DistinctInv, Typed
    <3>4. \A r \in new, old \in commands : old.id # r.id
      BY <3>2, <3>3
    <3>5. Events!UniqueIds(commands')
      BY <3>2, <3>4 DEF Events!UniqueIds
    <3> QED
      BY <1>1, <3>2, <3>5 DEF DistinctInv
  <2> QED
    BY <1>2, <2>1, <2>2 DEF Write
<1>3. CASE ~Write
  <2>1. UNCHANGED <<events, commands>>
    BY <1>3 DEF Next, vars, tables, Open, Stray, Follow, Arrive, GiveUp, ReadSnapshot, ReadPage,
                Respond, Restart
  <2> QED
    BY <1>1, <2>1 DEF DistinctInv
<1> QED
  BY <1>2, <1>3

\* The statement of a page answers in every state, with rows its parsers accept: no
\* page is lost to the reader itself.
THEOREM PagesAnswer ==
  Spec => [](handler.at = "page" =>
               /\ Query(handler) # {}
               /\ \A rows \in Query(handler) : Parses(handler, rows))
<1> DEFINE Answers == handler.at = "page" =>
                        /\ Query(handler) # {}
                        /\ \A rows \in Query(handler) : Parses(handler, rows)
<1>1. ReaderInv /\ DistinctInv => Answers
  <2> SUFFICES ASSUME ReaderInv, DistinctInv, handler.at = "page" PROVE Answers
    OBVIOUS
  <2>1. /\ PageRows(handler) \in SUBSET Row /\ handler.limit \in Nat
        /\ Events!UniqueIds(PageRows(handler))
    BY DEF ReaderInv, DistinctInv, Typed, Handler, PageRows, InScope, TableOf, Events!UniqueIds
  <2>2. PICK n \in 0..(handler.limit + 1) : \E s \in [1..n -> PageRows(handler)] :
          Begins(s, PageRows(handler)) /\ (Len(s) <= handler.limit => Range(s) = PageRows(handler))
    BY <2>1, ListExists
  <2>3. Query(handler) # {}
    BY <2>2 DEF Query
  <2>4. \A rows \in Query(handler) : Parses(handler, rows)
    BY PageIs
  <2> QED
    BY <2>3, <2>4
<1>2. Init => DistinctInv
  BY ReaderStarts DEF Init, ReaderInv, DistinctInv, Events!UniqueIds
<1> HIDE DEF Answers
<1>3. Spec => []Answers
  BY <1>1, <1>2, ReaderStarts, ReaderStep, DistinctKept, PTL DEF Spec
<1> QED
  BY <1>3 DEF Answers
=============================================================================
