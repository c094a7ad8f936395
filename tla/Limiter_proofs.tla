----------------------------- MODULE Limiter_proofs -----------------------------
(***************************************************************************)
(* What a throttle knows although it forgets: times are noted in the order *)
(* in which they pass, so what is filtered out is a beginning of the list, *)
(* and what is left counts all that has passed since.                      *)
(***************************************************************************)
EXTENDS Limiter, TLAPS, WellFoundedInduction, SequenceTheorems

\* Times in their order, none of them to come.
Ordered(l, now) ==
  /\ l \in Seq(Int)
  /\ \A i \in 1..Len(l) : l[i] <= now
  /\ \A i, j \in 1..Len(l) : i <= j => l[i] <= l[j]

\* The last times of a list, of which the others are old.
Covers(kept, all, moment) ==
  \E d \in 0..Len(all) :
    /\ Len(kept) = Len(all) - d /\ \A i \in 1..Len(kept) : kept[i] = all[d + i]
    /\ \A i \in 1..d : all[i] <= moment

LEMMA LeastNumber ==
  ASSUME NEW S \in SUBSET Nat, S # {}
  PROVE  \E n \in S : \A k \in S : n <= k
<1>1. IsWellFoundedOn({ss \in Nat \X Nat : ss[1] < ss[2]}, Nat)
  BY NatLessThanWellFounded, Zenon DEF OpToRel
<1>2. PICK n \in S : \A k \in S : ~(<<k, n>> \in {ss \in Nat \X Nat : ss[1] < ss[2]})
  BY <1>1, WFMin
<1>3. \A k \in S : ~(k < n)
  BY <1>2
<1>4. ASSUME NEW k \in S PROVE n <= k
  <2>1. n \in Int /\ k \in Int
    OBVIOUS
  <2> QED
    BY <1>3, <2>1
<1> QED
  BY <1>4

\* What is old in a list of times is a beginning of it.
LEMMA OldFirst ==
  ASSUME NEW l, NEW now, Ordered(l, now), NEW moment \in Int
  PROVE  \E k \in 0..Len(l) :
           /\ \A i \in 1..k : l[i] <= moment
           /\ \A i \in (k + 1)..Len(l) : l[i] > moment
<1> DEFINE new == {i \in 1..Len(l) : l[i] > moment}
<1>1. Len(l) \in Nat /\ \A i \in 1..Len(l) : l[i] \in Int
  BY DEF Ordered
<1>2. CASE new = {}
  <2>1. \A i \in 1..Len(l) : l[i] <= moment
    BY <1>1, <1>2
  <2>2. Len(l) \in 0..Len(l) /\ \A i \in (Len(l) + 1)..Len(l) : l[i] > moment
    BY <1>1
  <2> QED
    BY <2>1, <2>2
<1>3. CASE new # {}
  <2>1. PICK n \in new : \A k \in new : n <= k
    <3>1. new \in SUBSET Nat
      BY <1>1
    <3> HIDE DEF new
    <3> QED
      BY <1>3, <3>1, LeastNumber
  <2> DEFINE k == n - 1
  <2>2. n \in 1..Len(l) /\ l[n] > moment /\ k \in 0..Len(l)
    BY <1>1
  <2>3. ASSUME NEW i \in 1..k PROVE l[i] <= moment
    BY <1>1, <2>1, <2>2
  <2>4. ASSUME NEW i \in (k + 1)..Len(l) PROVE l[i] > moment
    <3>1. l[n] <= l[i]
      BY <1>1, <2>2 DEF Ordered
    <3> QED
      BY <1>1, <2>2, <3>1
  <2> QED
    BY <2>2, <2>3, <2>4
<1> QED
  BY <1>2, <1>3

\* What a throttle keeps is the end of its list.
LEMMA AfterIsEnd ==
  ASSUME NEW l, l \in Seq(Int), NEW moment \in Int, NEW k \in 0..Len(l),
         \A i \in 1..k : l[i] <= moment, \A i \in (k + 1)..Len(l) : l[i] > moment
  PROVE  After(l, moment) = SubSeq(l, k + 1, Len(l))
<1> DEFINE n == Len(l)
           Next(f, i) == IF i = 0 THEN <<>>
                         ELSE IF l[i] > moment THEN Append(f[i - 1], l[i])
                         ELSE f[i - 1]
           end == [i \in 0..n |-> SubSeq(l, k + 1, i)]
           f == CHOOSE g : g = [i \in 0..n |-> Next(g, i)]
<1>1. n \in Nat /\ k \in 0..n /\ \A i \in 1..n : l[i] \in Int
  OBVIOUS
<1>2. ASSUME NEW i \in 0..n PROVE SubSeq(l, k + 1, i) = Next(end, i)
  <2>1. CASE i <= k
    <3>1. SubSeq(l, k + 1, i) = <<>>
      BY <1>1, <2>1
    <3>2. i # 0 => i - 1 \in 0..n /\ ~(l[i] > moment) /\ SubSeq(l, k + 1, i - 1) = <<>>
      BY <1>1, <2>1
    <3> QED
      BY <3>1, <3>2
  <2>2. CASE i > k
    <3>1. i # 0 /\ i - 1 \in 0..n /\ l[i] > moment /\ k + 1 <= i
      BY <1>1, <2>2
    <3>2. SubSeq(l, k + 1, i) = Append(SubSeq(l, k + 1, i - 1), l[i])
      BY <1>1, <2>2, <3>1
    <3> QED
      BY <3>1, <3>2
  <2>3. i <= k \/ i > k
    BY <1>1
  <2> HIDE DEF end, Next
  <2> QED
    BY <2>1, <2>2, <2>3
<1>3. end = [i \in 0..n |-> Next(end, i)]
  BY <1>2
<1>4. f = [i \in 0..n |-> Next(f, i)]
  <2> HIDE DEF end, Next
  <2> QED
    BY <1>3
<1>5. After(l, moment) = f[n]
  BY DEF After
<1> HIDE DEF f, end
<1>6. \A i \in 0..n : f[i] = end[i]
  <2> DEFINE wrong == {i \in 0..n : f[i] # end[i]}
  <2> SUFFICES ASSUME wrong # {} PROVE FALSE
    OBVIOUS
  <2>1. PICK i \in wrong : \A j \in wrong : i <= j
    <3>1. wrong \in SUBSET Nat
      BY <1>1
    <3> HIDE DEF wrong
    <3> QED
      BY <3>1, LeastNumber
  <2>2. i \in 0..n /\ f[i] # end[i]
    OBVIOUS
  <2>3. f[i] = Next(f, i) /\ end[i] = Next(end, i)
    <3> HIDE DEF Next
    <3> QED
      BY <1>3, <1>4, <2>2
  <2>4. i # 0 => i - 1 \in 0..n /\ f[i - 1] = end[i - 1]
    BY <1>1, <2>1, <2>2
  <2> QED
    BY <2>2, <2>3, <2>4
<1>7. end[n] = SubSeq(l, k + 1, n)
  BY <1>1 DEF end
<1> QED
  BY <1>1, <1>5, <1>6, <1>7

LEMMA EndOfCovered ==
  ASSUME NEW all, NEW kept, NEW now, NEW moment, Ordered(all, now), kept \in Seq(Int),
         Covers(kept, all, moment)
  PROVE  Ordered(kept, now)
<1>1. PICK d \in 0..Len(all) :
        Len(kept) = Len(all) - d /\ \A i \in 1..Len(kept) : kept[i] = all[d + i]
  BY DEF Covers
<1>2. Len(all) \in Nat /\ \A i \in 1..Len(kept) : d + i \in 1..Len(all)
  BY <1>1 DEF Ordered
<1>3. \A i \in 1..Len(kept) : kept[i] <= now
  BY <1>1, <1>2 DEF Ordered
<1>4. ASSUME NEW i \in 1..Len(kept), NEW j \in 1..Len(kept), i <= j
      PROVE  kept[i] <= kept[j]
  <2>1. d + i \in 1..Len(all) /\ d + j \in 1..Len(all) /\ d + i <= d + j
    BY <1>2, <1>4
  <2>2. all[d + i] <= all[d + j]
    BY <2>1 DEF Ordered
  <2> QED
    BY <1>1, <2>2
<1> QED
  BY <1>3, <1>4 DEF Ordered

LEMMA EndOfList ==
  ASSUME NEW l, l \in Seq(Int), NEW k \in 0..Len(l)
  PROVE  LET rest == SubSeq(l, k + 1, Len(l))
         IN  /\ Len(rest) = Len(l) - k /\ rest \in Seq(Int)
             /\ \A i \in 1..Len(rest) : rest[i] = l[k + i]
<1> DEFINE rest == SubSeq(l, k + 1, Len(l))
<1>1. Len(l) \in Nat /\ k \in Nat /\ k <= Len(l) /\ \A i \in (k + 1)..Len(l) : l[i] \in Int
  OBVIOUS
<1>2. /\ rest \in Seq(Int)
      /\ Len(rest) = IF k + 1 <= Len(l) THEN Len(l) - (k + 1) + 1 ELSE 0
      /\ \A i \in 1..(Len(l) - (k + 1) + 1) : rest[i] = l[k + 1 + i - 1]
  <2>1. k + 1 \in Int /\ Len(l) \in Int
    BY <1>1
  <2> QED
    BY <1>1, <2>1, SubSeqProperties
<1> HIDE DEF rest
<1>3. Len(rest) = Len(l) - k
  BY <1>1, <1>2
<1>4. ASSUME NEW i \in 1..Len(rest) PROVE rest[i] = l[k + i]
  <2>1. i \in 1..(Len(l) - (k + 1) + 1) /\ k + 1 + i - 1 = k + i
    BY <1>1, <1>3
  <2> QED
    BY <1>2, <2>1
<1> QED
  BY <1>2, <1>3, <1>4 DEF rest

\* To forget what is old keeps the end of what has passed, whatever was forgotten before.
LEMMA AfterCovers ==
  ASSUME NEW all, NEW kept, NEW now, NEW moment \in Int, Ordered(all, now), kept \in Seq(Int),
         Covers(kept, all, moment)
  PROVE  /\ After(kept, moment) \in Seq(Int) /\ Covers(After(kept, moment), all, moment)
         /\ After(kept, moment) = After(all, moment)
<1>1. Ordered(kept, now) /\ Len(kept) \in Nat /\ Len(all) \in Nat /\ all \in Seq(Int)
  <2>1. Ordered(kept, now)
    BY EndOfCovered, Zenon
  <2> QED
    BY <2>1 DEF Ordered
<1>2. PICK d \in 0..Len(all) :
        /\ Len(kept) = Len(all) - d /\ \A i \in 1..Len(kept) : kept[i] = all[d + i]
        /\ \A i \in 1..d : all[i] <= moment
  BY DEF Covers
<1>3. PICK k \in 0..Len(kept) :
        /\ \A i \in 1..k : kept[i] <= moment
        /\ \A i \in (k + 1)..Len(kept) : kept[i] > moment
  BY <1>1, OldFirst
<1> DEFINE left == After(kept, moment)
<1>4. left = SubSeq(kept, k + 1, Len(kept))
  BY <1>3, AfterIsEnd
<1>5. /\ Len(left) = Len(kept) - k /\ left \in Seq(Int)
      /\ \A i \in 1..Len(left) : left[i] = kept[k + i]
  BY <1>1, <1>4
<1> DEFINE old == d + k
<1>6. old \in 0..Len(all) /\ Len(left) = Len(all) - old
  BY <1>1, <1>2, <1>5
<1>7. \A i \in 1..Len(left) : left[i] = all[old + i]
  <2> SUFFICES ASSUME NEW i \in 1..Len(left) PROVE left[i] = all[old + i]
    OBVIOUS
  <2>1. k + i \in 1..Len(kept) /\ d + (k + i) = old + i
    BY <1>1, <1>2, <1>5
  <2> QED
    BY <1>2, <1>5, <2>1
<1>8. ASSUME NEW i \in 1..old PROVE all[i] <= moment
  <2>1. CASE i <= d
    BY <1>2, <2>1
  <2>2. CASE i > d
    <3>1. i - d \in 1..k /\ i - d \in 1..Len(kept) /\ d + (i - d) = i
      BY <1>1, <1>2, <2>2
    <3> QED
      BY <1>2, <1>3, <3>1
  <2>3. i <= d \/ i > d
    BY <1>2
  <2> HIDE DEF old
  <2> QED
    BY <2>1, <2>2, <2>3
<1>9. ASSUME NEW i \in (old + 1)..Len(all) PROVE all[i] > moment
  <2>1. i - d \in (k + 1)..Len(kept) /\ i - d \in 1..Len(kept) /\ d + (i - d) = i
    BY <1>1, <1>2
  <2> QED
    BY <1>2, <1>3, <2>1
<1>10. After(all, moment) = SubSeq(all, old + 1, Len(all))
  <2> HIDE DEF old
  <2> QED
    BY <1>1, <1>6, <1>8, <1>9, AfterIsEnd
<1>11. left = After(all, moment)
  <2> DEFINE rest == SubSeq(all, old + 1, Len(all))
  <2> HIDE DEF left, old
  <2>1. /\ Len(rest) = Len(all) - old /\ rest \in Seq(Int)
        /\ \A i \in 1..Len(rest) : rest[i] = all[old + i]
    BY <1>1, <1>6, EndOfList
  <2> HIDE DEF rest
  <2>2. Len(rest) = Len(left) /\ \A i \in 1..Len(left) : left[i] = rest[i]
    BY <1>6, <1>7, <2>1
  <2>3. left = rest
    BY <1>5, <2>1, <2>2, SeqEqual
  <2> QED
    BY <1>10, <2>3 DEF rest
<1>12. Covers(left, all, moment)
  <2> HIDE DEF left, old
  <2> QED
    BY <1>6, <1>7, <1>8 DEF Covers
<1> QED
  BY <1>5, <1>11, <1>12

\* What has passed stays in order when time goes on and when more passes.
LEMMA OrderedLater ==
  ASSUME NEW l, NEW now \in Int, NEW later \in Int, now <= later, Ordered(l, now)
  PROVE  Ordered(l, later)
<1>1. \A i \in 1..Len(l) : l[i] \in Int
  BY DEF Ordered
<1> QED
  BY <1>1 DEF Ordered

LEMMA OrderedAppend ==
  ASSUME NEW l, NEW now \in Int, Ordered(l, now)
  PROVE  Ordered(Append(l, now), now)
<1> DEFINE more == Append(l, now)
<1>1. /\ l \in Seq(Int) /\ Len(l) \in Nat /\ more \in Seq(Int) /\ Len(more) = Len(l) + 1
      /\ \A i \in 1..Len(l) : more[i] = l[i] /\ l[i] <= now
      /\ more[Len(l) + 1] = now
  BY DEF Ordered
<1>2. \A i \in 1..Len(more) : i \in 1..Len(l) \/ i = Len(l) + 1
  BY <1>1
<1> HIDE DEF more
<1>3. ASSUME NEW i \in 1..Len(more) PROVE more[i] <= now
  <2>1. CASE i \in 1..Len(l)
    BY <1>1, <2>1
  <2>2. CASE i = Len(l) + 1
    BY <1>1, <2>2
  <2> QED
    BY <1>2, <2>1, <2>2
<1>4. ASSUME NEW i \in 1..Len(more), NEW j \in 1..Len(more), i <= j
      PROVE  more[i] <= more[j]
  <2>1. CASE j = Len(l) + 1
    BY <1>1, <1>3, <2>1
  <2>2. CASE j \in 1..Len(l)
    <3>1. i \in 1..Len(l)
      BY <1>1, <1>4, <2>2
    <3> QED
      BY <1>1, <1>4, <2>2, <3>1 DEF Ordered
  <2> QED
    BY <1>2, <2>1, <2>2
<1> QED
  BY <1>1, <1>3, <1>4 DEF Ordered, more

LEMMA CoversLater ==
  ASSUME NEW all, NEW kept, NEW now, NEW moment \in Int, NEW later \in Int, moment <= later,
         Ordered(all, now), Covers(kept, all, moment)
  PROVE  Covers(kept, all, later)
<1>1. PICK d \in 0..Len(all) :
        /\ Len(kept) = Len(all) - d /\ \A i \in 1..Len(kept) : kept[i] = all[d + i]
        /\ \A i \in 1..d : all[i] <= moment
  BY DEF Covers
<1>2. \A i \in 1..d : all[i] \in Int
  BY DEF Ordered
<1>3. \A i \in 1..d : all[i] <= later
  BY <1>1, <1>2
<1> QED
  BY <1>1, <1>3 DEF Covers

LEMMA CoversAppend ==
  ASSUME NEW all, NEW kept, NEW x \in Int, NEW moment, all \in Seq(Int), kept \in Seq(Int),
         Covers(kept, all, moment)
  PROVE  Covers(Append(kept, x), Append(all, x), moment)
<1>1. PICK d \in 0..Len(all) :
        /\ Len(kept) = Len(all) - d /\ \A i \in 1..Len(kept) : kept[i] = all[d + i]
        /\ \A i \in 1..d : all[i] <= moment
  BY DEF Covers
<1> DEFINE more == Append(all, x)
           left == Append(kept, x)
<1>2. /\ Len(all) \in Nat /\ Len(more) = Len(all) + 1 /\ more[Len(all) + 1] = x
      /\ \A i \in 1..Len(all) : more[i] = all[i]
      /\ Len(kept) \in Nat /\ Len(left) = Len(kept) + 1 /\ left[Len(kept) + 1] = x
      /\ \A i \in 1..Len(kept) : left[i] = kept[i]
  OBVIOUS
<1> HIDE DEF more, left
<1>3. d \in 0..Len(more) /\ Len(left) = Len(more) - d /\ \A i \in 1..d : more[i] <= moment
  <2>1. d \in 0..Len(more) /\ Len(left) = Len(more) - d
    BY <1>1, <1>2
  <2>2. \A i \in 1..d : i \in 1..Len(all)
    BY <1>2
  <2> QED
    BY <1>1, <1>2, <2>1, <2>2
<1>4. ASSUME NEW i \in 1..Len(left) PROVE left[i] = more[d + i]
  <2>1. CASE i = Len(kept) + 1
    BY <1>1, <1>2, <2>1
  <2>2. CASE i \in 1..Len(kept)
    <3>1. d + i \in 1..Len(all)
      BY <1>1, <1>2, <2>2
    <3> QED
      BY <1>1, <1>2, <2>2, <3>1
  <2>3. i = Len(kept) + 1 \/ i \in 1..Len(kept)
    BY <1>2
  <2> QED
    BY <2>1, <2>2, <2>3
<1> QED
  BY <1>3, <1>4 DEF Covers, more, left

\* What is no longer among the last max times is old, when fewer than max are kept.
LEMMA CoveredIsOld ==
  ASSUME NEW all, NEW kept, NEW moment, NEW max \in Nat, all \in Seq(Int), Covers(kept, all, moment),
         Len(kept) <= max, NEW i \in 1..Len(all), i + max <= Len(all)
  PROVE  all[i] <= moment
<1>1. PICK d \in 0..Len(all) : Len(kept) = Len(all) - d /\ \A j \in 1..d : all[j] <= moment
  BY DEF Covers
<1>2. i \in 1..d
  BY <1>1
<1> QED
  BY <1>1, <1>2

LEMMA CoversItself == ASSUME NEW l \in Seq(Int), NEW moment PROVE Covers(l, l, moment)
<1>1. 0 \in 0..Len(l) /\ Len(l) = Len(l) - 0 /\ \A i \in 1..0 : l[i] <= moment
  OBVIOUS
<1>2. \A i \in 1..Len(l) : 0 + i = i
  OBVIOUS
<1>3. \A i \in 1..Len(l) : l[i] = l[0 + i]
  BY <1>2
<1> QED
  BY <1>1, <1>3, Zenon DEF Covers
=============================================================================
