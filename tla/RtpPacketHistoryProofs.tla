----------------------- MODULE RtpPacketHistoryProofs -----------------------
(***************************************************************************)
(* Proofs about RtpPacketHistory for every span, capacity, reordering and  *)
(* gap that satisfy SpanAssumption (the code's values do): its state is    *)
(* consistent and its order kept, it holds at most kMaxCapacity packets    *)
(* and fewer than kMaxPaddingHistory padding candidates, and culling       *)
(* spares packets that are pending or were sent recently.                  *)
(***************************************************************************)
EXTENDS RtpPacketHistory, SequenceTheorems, FiniteSetTheorems, WellFoundedInduction, TLAPS

(* Preliminaries: least elements, sequence number arithmetic.              *)

\* The library's well-founded order on the naturals, written out.
LEMMA LessThanRel == OpToRel(<, Nat) = {p \in Nat \X Nat : p[1] < p[2]}
  BY DEF OpToRel

\* A non-empty set of naturals has a least element, so Min is well defined.
LEMMA MinIsLeast ==
    ASSUME NEW S, S \subseteq Nat, S # {}
    PROVE  Min(S) \in S /\ \A y \in S : Min(S) <= y
<1>1. PICK x \in S : \A y \in S : ~ (<<y, x>> \in OpToRel(<, Nat))
  BY NatLessThanWellFounded, WFMin
<1>2. \A y \in S : x <= y
  <2>1. SUFFICES ASSUME NEW y \in S, ~(x <= y) PROVE FALSE
    OBVIOUS
  <2>2. <<y, x>> \in {p \in Nat \X Nat : p[1] < p[2]}
    BY <2>1
  <2>3. QED
    BY <1>1, <2>2, LessThanRel
<1>3. QED
  BY <1>2 DEF Min

\* A bounded non-empty set of naturals has a greatest element.
LEMMA MaxIsGreatest ==
    ASSUME NEW n \in Nat, NEW S, S \subseteq 0 .. n, S # {}
    PROVE  Max(S) \in S /\ \A y \in S : y <= Max(S)
<1> DEFINE D == {k \in 0 .. n : n - k \in S}
<1>1. \A y \in S : y \in Int /\ n - y \in D /\ n - (n - y) = y
  OBVIOUS
<1>2. D \subseteq Nat /\ D # {}
  <2>1. PICK y : y \in S
    OBVIOUS
  <2>2. n - y \in D
    BY <1>1, <2>1
  <2>3. D \subseteq Nat
    OBVIOUS
  <2> HIDE DEF D
  <2>4. QED
    BY <2>2, <2>3
<1>3. Min(D) \in D /\ \A k \in D : Min(D) <= k
  BY <1>2, MinIsLeast
<1> DEFINE x == n - Min(D)
<1>4. x \in S /\ Min(D) \in Int
  BY <1>3
<1>5. \A y \in S : y <= x
  <2>1. SUFFICES ASSUME NEW y \in S PROVE y <= x
    OBVIOUS
  <2>2. Min(D) <= n - y /\ y \in Int
    BY <1>1, <1>3
  <2>3. QED
    BY <1>4, <2>2
<1> HIDE DEF x
<1>6. QED
  BY <1>4, <1>5 DEF Max

\* Distances on the circle of sequence numbers add up while they stay below
\* the span.
LEMMA AheadType ==
    ASSUME NEW a \in SeqNo, NEW b \in SeqNo
    PROVE  Ahead(a, b) \in 0 .. SeqSpan - 1 /\ Ahead(a, a) = 0
  BY SpanAssumption DEF Ahead, SeqNo

LEMMA AheadInt ==
    ASSUME NEW a \in SeqNo, NEW b \in SeqNo
    PROVE  Ahead(a, b) \in Nat
  BY SpanAssumption DEF Ahead, SeqNo

LEMMA AheadDiff ==
    ASSUME NEW f \in SeqNo, NEW a \in SeqNo, NEW b \in SeqNo,
           Ahead(f, a) <= Ahead(f, b)
    PROVE  Ahead(a, b) = Ahead(f, b) - Ahead(f, a)
  BY SpanAssumption DEF Ahead, SeqNo

LEMMA AheadSum ==
    ASSUME NEW f \in SeqNo, NEW a \in SeqNo, NEW b \in SeqNo,
           Ahead(f, a) + Ahead(a, b) < SeqSpan
    PROVE  Ahead(f, b) = Ahead(f, a) + Ahead(a, b)
  BY SpanAssumption DEF Ahead, SeqNo

LEMMA AheadCommonEnd ==
    ASSUME NEW f \in SeqNo, NEW s \in SeqNo, NEW w \in SeqNo, Ahead(s, w) <= Ahead(f, w)
    PROVE  Ahead(f, s) = Ahead(f, w) - Ahead(s, w)
  BY SpanAssumption DEF Ahead, SeqNo

\* GetPacketIndex' signed index: ahead by less than half the span is positive.
LEMMA IndexAhead ==
    ASSUME NEW f \in SeqNo, NEW s \in SeqNo, Ahead(f, s) < HalfSpan
    PROVE  IndexFrom(f, s) = Ahead(f, s)
  BY SpanAssumption DEF Ahead, SeqNo, IndexFrom, IsNewerSequenceNumber

LEMMA IndexBehind ==
    ASSUME NEW f \in SeqNo, NEW s \in SeqNo, s # f, Ahead(s, f) < HalfSpan
    PROVE  IndexFrom(f, s) = - Ahead(s, f)
  BY SpanAssumption DEF Ahead, SeqNo, IndexFrom, IsNewerSequenceNumber

LEMMA PlusAhead ==
    ASSUME NEW s \in SeqNo, NEW g \in Nat, g < SeqSpan
    PROVE  Plus(s, g) \in SeqNo /\ Ahead(s, Plus(s, g)) = g
  BY SpanAssumption DEF Plus, Ahead, SeqNo
-----------------------------------------------------------------------------
(* Slots.                                                                  *)

LEMMA HoleType == Hole \in Slot /\ ~Hole.full
  BY SpanAssumption DEF Hole, Slot, NoTime, SeqNo, MaxDistance

LEMMA EmptiedType ==
    ASSUME NEW slot \in Slot
    PROVE  Emptied(slot) \in Slot /\ ~Emptied(slot).full
  BY SpanAssumption DEF Emptied, Slot, NoTime, SeqNo

LEMMA StoredPacketType ==
    ASSUME NEW s \in SeqNo, NEW t \in Nat \cup {NoTime}, NEW n \in Nat
    PROVE  /\ StoredPacket(s, t, n) \in Slot
           /\ StoredPacket(s, t, n).full
           /\ StoredPacket(s, t, n).seq = s
           /\ StoredPacket(s, t, n).order = n
           /\ ~StoredPacket(s, t, n).pending => StoredPacket(s, t, n).sent # NoTime
  BY SpanAssumption DEF StoredPacket, Slot

LEMMA SlotSeqType ==
    ASSUME NEW h \in Seq(Slot), NEW i \in 1 .. Len(h)
    PROVE  /\ h[i] \in Slot /\ h[i].seq \in SeqNo
           /\ h[i].order \in Nat /\ h[i].times \in Nat
<1>1. h[i] \in Slot
  OBVIOUS
<1>2. QED
  BY <1>1 DEF Slot

LEMMA DropFrontType ==
    ASSUME NEW h \in Seq(Slot), NEW k \in 0 .. Len(h)
    PROVE  /\ DropFront(h, k) \in Seq(Slot)
           /\ Len(DropFront(h, k)) = Len(h) - k
           /\ \A i \in 1 .. Len(h) - k : DropFront(h, k)[i] = h[i + k]
<1>1. Len(h) - k \in Nat
  OBVIOUS
<1>2. \A i \in 1 .. Len(h) - k : h[i + k] \in Slot
  OBVIOUS
<1>3. QED
  BY <1>1, <1>2, IsASeq DEF DropFront

LEMMA ExpandFrontType ==
    ASSUME NEW h \in Seq(Slot), NEW k \in Nat
    PROVE  /\ ExpandFront(h, k) \in Seq(Slot)
           /\ Len(ExpandFront(h, k)) = Len(h) + k
           /\ \A i \in 1 .. Len(h) + k :
                  ExpandFront(h, k)[i] = IF i <= k THEN Hole ELSE h[i - k]
<1>1. Len(h) + k \in Nat
  OBVIOUS
<1>2. \A i \in 1 .. Len(h) + k : (IF i <= k THEN Hole ELSE h[i - k]) \in Slot
  BY HoleType
<1>3. QED
  BY <1>1, <1>2, IsASeq DEF ExpandFront

LEMMA ExpandBackType ==
    ASSUME NEW h \in Seq(Slot), NEW n \in Nat
    PROVE  /\ ExpandBack(h, n) \in Seq(Slot)
           /\ Len(ExpandBack(h, n)) = IF n > Len(h) THEN n ELSE Len(h)
           /\ \A i \in 1 .. Len(ExpandBack(h, n)) :
                  ExpandBack(h, n)[i] = IF i <= Len(h) THEN h[i] ELSE Hole
<1> DEFINE m == IF n > Len(h) THEN n ELSE Len(h)
<1>1. m \in Nat
  OBVIOUS
<1>2. \A i \in 1 .. m : (IF i <= Len(h) THEN h[i] ELSE Hole) \in Slot
  BY HoleType
<1>3. QED
  BY <1>1, <1>2, IsASeq DEF ExpandBack
-----------------------------------------------------------------------------
(* Dropping slots from the front.                                          *)

\* When the new front is populated, a shortened deque is as good as before.
LEMMA DropGoodDeque ==
    ASSUME NEW h, NEW nw \in SeqNo, GoodDeque(h, nw),
           NEW k \in 0 .. Len(h), k = Len(h) \/ h[k + 1].full
    PROVE  GoodDeque(DropFront(h, k), nw)
<1> DEFINE d == DropFront(h, k)
<1>1. /\ h \in Seq(Slot)
      /\ d \in Seq(Slot) /\ Len(d) = Len(h) - k
      /\ \A i \in 1 .. Len(h) - k : d[i] = h[i + k]
  BY DropFrontType DEF GoodDeque
<1> HIDE DEF d
<1>2. ASSUME NEW i \in 1 .. Len(d)
      PROVE  d[i].full /\ ~d[i].pending => d[i].sent # NoTime
  <2>1. i + k \in 1 .. Len(h) /\ d[i] = h[i + k]
    BY <1>1
  <2>2. QED
    BY <2>1 DEF GoodDeque
<1>3. ASSUME d # <<>>
      PROVE  /\ d[1].full
             /\ \A i \in 1 .. Len(d) : d[i].full => Ahead(d[1].seq, d[i].seq) = i - 1
             /\ Len(d) - 1 <= Ahead(d[1].seq, nw)
             /\ Ahead(d[1].seq, nw) <= Len(d) - 1 + MaxReorder
             /\ Ahead(d[1].seq, nw) <= MaxDistance
  <2>1. Len(d) > 0 /\ k < Len(h) /\ h # <<>>
    BY <1>1, <1>3
  <2>2. d[1] = h[k + 1] /\ h[k + 1].full
    BY <1>1, <2>1
  <2>3. /\ h[1].seq \in SeqNo
        /\ \A i \in 1 .. Len(h) : h[i].seq \in SeqNo
        /\ Ahead(h[1].seq, h[k + 1].seq) = k
    <3>1. \A i \in 1 .. Len(h) : h[i].seq \in SeqNo
      BY <1>1, SlotSeqType
    <3>2. 1 \in 1 .. Len(h) /\ k + 1 \in 1 .. Len(h)
      BY <1>1, <2>1
    <3>3. Ahead(h[1].seq, h[k + 1].seq) = (k + 1) - 1
      BY <2>1, <2>2, <3>2 DEF GoodDeque
    <3>4. QED
      BY <3>1, <3>2, <3>3
  <2>4. Ahead(d[1].seq, nw) = Ahead(h[1].seq, nw) - k
    <3>1. k <= Ahead(h[1].seq, nw)
      <4>1. Ahead(h[1].seq, nw) \in Int /\ Len(h) - 1 <= Ahead(h[1].seq, nw)
        BY <2>1, <2>3, AheadInt DEF GoodDeque
      <4>2. QED
        BY <1>1, <2>1, <4>1
    <3>2. h[k + 1].seq \in SeqNo
      BY <1>1, <2>1, <2>3
    <3>3. QED
      BY <2>2, <2>3, <3>1, <3>2, AheadDiff
  <2>5. ASSUME NEW i \in 1 .. Len(d), d[i].full
        PROVE  Ahead(d[1].seq, d[i].seq) = i - 1
    <3>1. i + k \in 1 .. Len(h) /\ d[i] = h[i + k]
      BY <1>1
    <3>2. Ahead(h[1].seq, h[i + k].seq) = i + k - 1
      BY <2>1, <2>5, <3>1 DEF GoodDeque
    <3>3. h[k + 1].seq \in SeqNo /\ h[i + k].seq \in SeqNo
      BY <2>1, <2>3, <3>1, <1>1
    <3>4. Ahead(h[1].seq, h[k + 1].seq) <= Ahead(h[1].seq, h[i + k].seq)
      BY <2>3, <3>2
    <3>5. Ahead(h[k + 1].seq, h[i + k].seq)
              = Ahead(h[1].seq, h[i + k].seq) - Ahead(h[1].seq, h[k + 1].seq)
      BY <2>3, <3>3, <3>4, AheadDiff
    <3>6. QED
      BY <2>2, <2>3, <3>1, <3>2, <3>5, <1>1
  <2>6. Ahead(h[1].seq, nw) \in Nat /\ MaxDistance \in Nat /\ MaxReorder \in Nat
    BY <2>3, AheadInt, SpanAssumption DEF MaxDistance
  <2>7. QED
    BY <1>1, <2>1, <2>2, <2>4, <2>5, <2>6 DEF GoodDeque
<1>4. QED
  BY <1>1, <1>2, <1>3 DEF GoodDeque, d

LEMMA DropGoodOrders ==
    ASSUME NEW h \in Seq(Slot), NEW n \in Nat, GoodOrders(h, n), NEW k \in 0 .. Len(h)
    PROVE  GoodOrders(DropFront(h, k), n)
<1> DEFINE d == DropFront(h, k)
<1>1. /\ Len(d) = Len(h) - k
      /\ \A i \in 1 .. Len(h) - k : d[i] = h[i + k]
  BY DropFrontType
<1> HIDE DEF d
<1>2. ASSUME NEW i \in 1 .. Len(d)
      PROVE  i + k \in 1 .. Len(h) /\ d[i] = h[i + k]
  BY <1>1
<1>3. \A i \in 1 .. Len(d) : d[i].full => d[i].order < n
  BY <1>2 DEF GoodOrders
<1>4. ASSUME NEW i \in 1 .. Len(d), NEW j \in 1 .. Len(d), i # j, d[i].full, d[j].full
      PROVE  d[i].order # d[j].order
  <2>1. i + k # j + k
    BY <1>1, <1>4
  <2>2. QED
    BY <1>2, <1>4, <2>1 DEF GoodOrders
<1>5. QED
  BY <1>3, <1>4 DEF GoodOrders, d

\* Every pointer to a dropped slot has been erased.
LEMMA DropGoodPriority ==
    ASSUME NEW h \in Seq(Slot), NEW prio, GoodPriority(h, prio), NEW k \in 0 .. Len(h)
    PROVE  GoodPriority(DropFront(h, k), prio \ OrdersUpTo(h, k))
<1> DEFINE d == DropFront(h, k)
<1>1. /\ Len(d) = Len(h) - k
      /\ \A i \in 1 .. Len(h) - k : d[i] = h[i + k]
  BY DropFrontType
<1>2. ASSUME NEW m \in prio \ OrdersUpTo(h, k)
      PROVE  \E i \in 1 .. Len(d) : d[i].full /\ d[i].order = m
  <2>1. PICK i \in 1 .. Len(h) : h[i].full /\ h[i].order = m
    BY DEF GoodPriority
  <2>2. i > k
    BY <2>1, <1>2 DEF OrdersUpTo
  <2>3. i - k \in 1 .. Len(d) /\ d[i - k] = h[i]
    BY <1>1, <2>2
  <2>4. QED
    BY <2>1, <2>3
<1>3. QED
  BY <1>2 DEF GoodPriority
-----------------------------------------------------------------------------
(* Replacing one slot: removal inside the deque, and every operation that   *)
(* updates a stored packet.                                                *)

LEMMA ReplaceGoodDeque ==
    ASSUME NEW h, NEW nw \in SeqNo, GoodDeque(h, nw),
           NEW at \in 1 .. Len(h), NEW slot \in Slot,
           slot.full => h[at].full /\ slot.seq = h[at].seq,
           at = 1 => slot.full,
           slot.full /\ ~slot.pending => slot.sent # NoTime
    PROVE  GoodDeque([h EXCEPT ![at] = slot], nw)
<1> DEFINE d == [h EXCEPT ![at] = slot]
<1>1. /\ h \in Seq(Slot) /\ h # <<>>
      /\ d \in Seq(Slot) /\ Len(d) = Len(h)
      /\ \A j \in 1 .. Len(h) : d[j] = IF j = at THEN slot ELSE h[j]
  BY ExceptSeq DEF GoodDeque
<1> HIDE DEF d
<1>2. 1 \in 1 .. Len(h) /\ d # <<>>
  BY <1>1
<1>3. d[1].full /\ d[1].seq = h[1].seq
  BY <1>1, <1>2 DEF GoodDeque
<1>4. \A i \in 1 .. Len(d) : d[i].full => h[i].full /\ d[i].seq = h[i].seq
  BY <1>1
<1>5. \A i \in 1 .. Len(d) : d[i].full => Ahead(d[1].seq, d[i].seq) = i - 1
  BY <1>1, <1>3, <1>4 DEF GoodDeque
<1>6. \A i \in 1 .. Len(d) : d[i].full /\ ~d[i].pending => d[i].sent # NoTime
  BY <1>1 DEF GoodDeque
<1>7. QED
  BY <1>1, <1>3, <1>5, <1>6 DEF GoodDeque, d

LEMMA ReplaceGoodOrders ==
    ASSUME NEW h \in Seq(Slot), NEW n \in Nat, GoodOrders(h, n),
           NEW at \in 1 .. Len(h), NEW slot \in Slot,
           slot.full => h[at].full /\ slot.order = h[at].order
    PROVE  GoodOrders([h EXCEPT ![at] = slot], n)
<1> DEFINE d == [h EXCEPT ![at] = slot]
<1>1. /\ Len(d) = Len(h)
      /\ \A j \in 1 .. Len(h) : d[j] = IF j = at THEN slot ELSE h[j]
  BY ExceptSeq
<1> HIDE DEF d
<1>2. \A i \in 1 .. Len(d) : d[i].full => h[i].full /\ d[i].order = h[i].order
  BY <1>1
<1>3. QED
  BY <1>1, <1>2 DEF GoodOrders, d

\* A populated slot that keeps its order keeps the pointers to it alive.
LEMMA ReplaceGoodPriority ==
    ASSUME NEW h \in Seq(Slot), NEW prio, GoodPriority(h, prio),
           NEW at \in 1 .. Len(h), NEW slot \in Slot,
           slot.full, slot.order = h[at].order
    PROVE  GoodPriority([h EXCEPT ![at] = slot], prio)
<1> DEFINE d == [h EXCEPT ![at] = slot]
<1>1. /\ Len(d) = Len(h)
      /\ \A j \in 1 .. Len(h) : d[j] = IF j = at THEN slot ELSE h[j]
  BY ExceptSeq
<1> HIDE DEF d
<1>2. \A i \in 1 .. Len(h) : h[i].full => d[i].full /\ d[i].order = h[i].order
  BY <1>1
<1>3. QED
  BY <1>1, <1>2 DEF GoodPriority, d
-----------------------------------------------------------------------------
(* RemovePacket.                                                           *)

LEMMA FrontHolesProperty ==
    ASSUME NEW h \in Seq(Slot)
    PROVE  /\ FrontHoles(h) \in 0 .. Len(h)
           /\ FrontHoles(h) = Len(h) \/ h[FrontHoles(h) + 1].full
           /\ \A i \in 1 .. FrontHoles(h) : ~h[i].full
<1> DEFINE S == {k \in 0 .. Len(h) : k = Len(h) \/ h[k + 1].full}
<1>1. S \subseteq Nat /\ Len(h) \in S
  OBVIOUS
<1>2. FrontHoles(h) \in S /\ \A y \in S : FrontHoles(h) <= y
  BY <1>1, MinIsLeast DEF FrontHoles
<1>3. ASSUME NEW i \in 1 .. FrontHoles(h), h[i].full PROVE FALSE
  <2>1. i - 1 \in S
    BY <1>2, <1>3
  <2>2. FrontHoles(h) \in Nat /\ FrontHoles(h) <= i - 1
    BY <1>1, <1>2, <2>1
  <2>3. QED
    BY <2>2
<1>4. QED
  BY <1>2, <1>3

\* At the front, RemovePacket drops the packet and the holes after it.
LEMMA RemoveFront ==
    ASSUME NEW h \in Seq(Slot), h # <<>>, h[1].full
    PROVE  \E k \in 1 .. Len(h) :
               /\ RemovePacket(h, 1) = DropFront(h, k)
               /\ k = Len(h) \/ h[k + 1].full
               /\ \A i \in 2 .. k : ~h[i].full
<1> DEFINE e == [h EXCEPT ![1] = Emptied(h[1])]
           k == FrontHoles(e)
<1>1. 1 \in 1 .. Len(h)
  OBVIOUS
<1>2. Emptied(h[1]) \in Slot /\ ~Emptied(h[1]).full
  BY <1>1, EmptiedType
<1>3. /\ e \in Seq(Slot) /\ Len(e) = Len(h)
      /\ \A j \in 1 .. Len(h) : e[j] = IF j = 1 THEN Emptied(h[1]) ELSE h[j]
  BY <1>1, <1>2, ExceptSeq
<1>4. RemovePacket(h, 1) = DropFront(e, k)
  BY DEF RemovePacket
<1> HIDE DEF e
<1>5. /\ k \in 0 .. Len(e)
      /\ k = Len(e) \/ e[k + 1].full
      /\ \A i \in 1 .. k : ~e[i].full
  BY <1>3, FrontHolesProperty
<1> HIDE DEF k
<1>6. k # 0
  <2>1. ASSUME k = 0 PROVE FALSE
    <3>1. e[1].full
      BY <1>1, <1>3, <1>5, <2>1
    <3>2. QED
      BY <1>1, <1>2, <1>3, <3>1
  <2>2. QED
    BY <2>1
<1>7. k \in 1 .. Len(h)
  BY <1>3, <1>5, <1>6
<1>8. DropFront(e, k) = DropFront(h, k)
  <2>1. \A i \in 1 .. Len(h) - k : e[i + k] = h[i + k]
    BY <1>3, <1>7
  <2>2. QED
    BY <1>3, <2>1 DEF DropFront
<1>9. k = Len(h) \/ h[k + 1].full
  BY <1>3, <1>5, <1>7
<1>10. \A i \in 2 .. k : ~h[i].full
  BY <1>3, <1>5, <1>7
<1>11. QED
  BY <1>4, <1>7, <1>8, <1>9, <1>10

LEMMA RemoveGood ==
    ASSUME NEW h, NEW nw \in SeqNo, NEW n \in Nat, NEW prio,
           GoodDeque(h, nw), GoodOrders(h, n), GoodPriority(h, prio),
           NEW at \in 1 .. Len(h)
    PROVE  /\ GoodDeque(RemovePacket(h, at), nw)
           /\ GoodOrders(RemovePacket(h, at), n)
           /\ GoodPriority(RemovePacket(h, at), EraseFromPriority(h, prio, h[at]))
           /\ Len(RemovePacket(h, at)) <= Len(h)
<1> DEFINE erased == EraseFromPriority(h, prio, h[at])
<1>1. h \in Seq(Slot) /\ h # <<>> /\ h[1].full /\ h[at] \in Slot
  BY DEF GoodDeque
<1>2. CASE at = 1
  <2>1. PICK k \in 1 .. Len(h) : /\ RemovePacket(h, 1) = DropFront(h, k)
                                 /\ k = Len(h) \/ h[k + 1].full
                                 /\ \A i \in 2 .. k : ~h[i].full
    BY <1>1, RemoveFront
  <2>2. k \in 0 .. Len(h)
    BY <2>1
  <2>3. GoodDeque(DropFront(h, k), nw) /\ GoodOrders(DropFront(h, k), n)
    BY <1>1, <2>1, <2>2, DropGoodDeque, DropGoodOrders
  <2>4. erased = prio \ OrdersUpTo(h, k)
    <3>1. OrdersUpTo(h, k) = {h[1].order}
      <4>1. {j \in 1 .. k : h[j].full} = {1}
        BY <1>1, <2>1
      <4>2. QED
        BY <4>1 DEF OrdersUpTo
    <3>2. 1 \in 1 .. Len(h)
      BY <1>1
    <3>3. Equivalent(h, prio, h[1]) = prio \cap {h[1].order}
      BY <1>1, <3>2 DEF Equivalent
    <3>4. ~EnablePaddingPrio => prio = {}
      BY DEF GoodPriority
    <3>5. QED
      BY <1>2, <3>1, <3>3, <3>4 DEF EraseFromPriority
  <2>5. GoodPriority(DropFront(h, k), prio \ OrdersUpTo(h, k))
    BY <1>1, <2>2, DropGoodPriority
  <2>6. Len(DropFront(h, k)) <= Len(h)
    BY <1>1, <2>1, <2>2, DropFrontType
  <2>7. QED
    BY <1>2, <2>1, <2>3, <2>4, <2>5, <2>6
<1>3. CASE at # 1
  <2> DEFINE d == [h EXCEPT ![at] = Emptied(h[at])]
  <2>1. RemovePacket(h, at) = d
    BY <1>3 DEF RemovePacket
  <2>2. Emptied(h[at]) \in Slot /\ ~Emptied(h[at]).full
    BY <1>1, EmptiedType
  <2>3. GoodDeque(d, nw) /\ GoodOrders(d, n)
    BY <1>1, <1>3, <2>2, ReplaceGoodDeque, ReplaceGoodOrders
  <2>4. /\ Len(d) = Len(h)
        /\ \A j \in 1 .. Len(h) : d[j] = IF j = at THEN Emptied(h[at]) ELSE h[j]
    BY <1>1, <2>2, ExceptSeq
  <2> HIDE DEF d
  <2>5. ASSUME NEW m \in erased
        PROVE  \E i \in 1 .. Len(d) : d[i].full /\ d[i].order = m
    <3>1. m \in prio /\ EnablePaddingPrio
      BY <2>5 DEF EraseFromPriority, GoodPriority
    <3>2. PICK i \in 1 .. Len(h) : h[i].full /\ h[i].order = m
      BY <3>1 DEF GoodPriority
    <3>3. i # at
      BY <2>5, <3>1, <3>2 DEF EraseFromPriority, Equivalent
    <3>4. QED
      BY <2>4, <3>2, <3>3
  <2>6. erased \subseteq prio
    BY DEF EraseFromPriority
  <2>7. GoodPriority(d, erased)
    BY <2>5, <2>6 DEF GoodPriority
  <2>8. Len(h) <= Len(h)
    BY <1>1
  <2>9. QED
    BY <2>1, <2>3, <2>4, <2>7, <2>8
<1>4. QED
  BY <1>2, <1>3
-----------------------------------------------------------------------------
(* CullOldPackets.                                                         *)

\* The loop ends with an empty deque or with a populated front below capacity.
LEMMA CullPointProperty ==
    ASSUME NEW h \in Seq(Slot), NEW t \in Nat, NEW rtt \in Int, NEW n \in Nat
    PROVE  LET k == CullPoint(h, t, rtt, n)
           IN  /\ k \in 0 .. Len(h)
               /\ k = Len(h) \/ h[k + 1].full
               /\ k = Len(h) \/ Len(h) - k < kMaxCapacity
<1> DEFINE k == CullPoint(h, t, rtt, n)
           S == {j \in 0 .. Len(h) :
                    \/ j = Len(h)
                    \/ /\ h[j + 1].full
                       /\ ~RemovedByCulling(h[j + 1], Len(h) - j, t, rtt, n)}
<1>1. S \subseteq Nat /\ Len(h) \in S
  OBVIOUS
<1>2. k \in S
  BY <1>1, MinIsLeast DEF CullPoint
<1> HIDE DEF k
<1>3. k \in 0 .. Len(h) /\ (k = Len(h) \/ h[k + 1].full)
  BY <1>2
<1>4. k = Len(h) \/ ~(Len(h) - k >= kMaxCapacity)
  BY <1>2 DEF RemovedByCulling
<1>5. QED
  BY <1>3, <1>4, SpanAssumption DEF k

LEMMA CullGood ==
    ASSUME NEW h, NEW nw \in SeqNo, NEW n \in Nat, NEW prio,
           GoodDeque(h, nw), GoodOrders(h, n), GoodPriority(h, prio),
           NEW t \in Nat, NEW rtt \in Int, NEW to_store \in Nat
    PROVE  /\ GoodDeque(CullOldPackets(h, t, rtt, to_store), nw)
           /\ GoodOrders(CullOldPackets(h, t, rtt, to_store), n)
           /\ GoodPriority(CullOldPackets(h, t, rtt, to_store),
                           CullPriority(h, prio, t, rtt, to_store))
           /\ Len(CullOldPackets(h, t, rtt, to_store)) < kMaxCapacity
<1> DEFINE k == CullPoint(h, t, rtt, to_store)
<1>1. h \in Seq(Slot)
  BY DEF GoodDeque
<1>2. /\ k \in 0 .. Len(h)
      /\ k = Len(h) \/ h[k + 1].full
      /\ k = Len(h) \/ Len(h) - k < kMaxCapacity
  BY <1>1, CullPointProperty
<1>3. /\ CullOldPackets(h, t, rtt, to_store) = DropFront(h, k)
      /\ CullPriority(h, prio, t, rtt, to_store) = prio \ OrdersUpTo(h, k)
  BY DEF CullOldPackets, CullPriority
<1> HIDE DEF k
<1>4. GoodDeque(DropFront(h, k), nw) /\ GoodOrders(DropFront(h, k), n)
  BY <1>1, <1>2, DropGoodDeque, DropGoodOrders
<1>5. GoodPriority(DropFront(h, k), prio \ OrdersUpTo(h, k))
  BY <1>1, <1>2, DropGoodPriority
<1>6. Len(DropFront(h, k)) < kMaxCapacity
  BY <1>1, <1>2, DropFrontType, SpanAssumption
<1>7. QED
  BY <1>3, <1>4, <1>5, <1>6
-----------------------------------------------------------------------------
(* Insertion.                                                              *)

LEMMA AheadInjective ==
    ASSUME NEW f \in SeqNo, NEW a \in SeqNo, NEW b \in SeqNo, Ahead(f, a) = Ahead(f, b)
    PROVE  a = b
  BY SpanAssumption DEF Ahead, SeqNo

\* The put window: a little behind the newest packet, or a little ahead of it.
LEMMA WindowCases ==
    ASSUME newest \in SeqNo, NEW s \in SeqNo, s \in PutWindow
    PROVE  /\ Newer(s) \in SeqNo
           /\ \/ Newer(s) = newest /\ Ahead(s, newest) <= MaxReorder
              \/ Newer(s) = s /\ Ahead(newest, s) \in 1 .. MaxGap + 1
<1>1. CASE Ahead(s, newest) <= MaxReorder
  BY <1>1 DEF Newer
<1>2. CASE ~(Ahead(s, newest) <= MaxReorder)
  <2>1. PICK g \in 1 .. MaxGap + 1 : s = Plus(newest, g)
    BY <1>2 DEF PutWindow
  <2>2. g \in Nat /\ g < SeqSpan
    BY SpanAssumption DEF MaxDistance
  <2>3. Ahead(newest, s) = g
    BY <2>1, <2>2, PlusAhead
  <2>4. QED
    BY <1>2, <2>3 DEF Newer
<1>3. QED
  BY <1>1, <1>2

\* What insertion leaves at every position, and that it overwrites no packet.
Placed(ins, h, packet, at, shift) ==
    /\ Len(h) + shift <= Len(ins)
    /\ \A i \in 1 .. Len(ins) :
           ins[i] = IF i = at THEN packet
                    ELSE IF i - shift \in 1 .. Len(h) THEN h[i - shift] ELSE Hole
    /\ at - shift \in 1 .. Len(h) => ~h[at - shift].full

NotStored(h, s) == \A i \in 1 .. Len(h) : h[i].full => h[i].seq # s

\* At or after the front: the back is expanded up to the packet's slot.
LEMMA InsertBack ==
    ASSUME NEW h, NEW old \in SeqNo, GoodDeque(h, old), h # <<>>,
           NEW packet \in Slot, packet.full, NotStored(h, packet.seq),
           ~packet.pending => packet.sent # NoTime,
           NEW x \in Nat, Ahead(h[1].seq, packet.seq) = x,
           NEW nw \in SeqNo,
           x <= Ahead(h[1].seq, nw),
           Len(h) - 1 <= Ahead(h[1].seq, nw),
           Ahead(h[1].seq, nw) <= MaxDistance,
           \/ Ahead(h[1].seq, nw) <= x + MaxReorder
           \/ Ahead(h[1].seq, nw) <= Len(h) - 1 + MaxReorder
    PROVE  LET ins == [ExpandBack(h, x + 1) EXCEPT ![x + 1] = packet]
           IN  GoodDeque(ins, nw) /\ Placed(ins, h, packet, x + 1, 0) /\ x + 1 \in 1 .. Len(ins)
<1> DEFINE e == ExpandBack(h, x + 1)
           ins == [e EXCEPT ![x + 1] = packet]
<1>1. h \in Seq(Slot) /\ x + 1 \in Nat
  BY DEF GoodDeque
<1>2. /\ e \in Seq(Slot)
      /\ Len(e) = IF x + 1 > Len(h) THEN x + 1 ELSE Len(h)
      /\ \A i \in 1 .. Len(e) : e[i] = IF i <= Len(h) THEN h[i] ELSE Hole
  BY <1>1, ExpandBackType
<1> HIDE DEF e
<1>3. x + 1 \in 1 .. Len(e)
  BY <1>1, <1>2
<1>4. /\ ins \in Seq(Slot) /\ Len(ins) = Len(e)
      /\ \A i \in 1 .. Len(e) : ins[i] = IF i = x + 1 THEN packet ELSE e[i]
  BY <1>2, <1>3, ExceptSeq
<1> HIDE DEF ins
<1>5. \A i \in 1 .. Len(ins) :
          ins[i] = IF i = x + 1 THEN packet ELSE IF i <= Len(h) THEN h[i] ELSE Hole
  BY <1>2, <1>4
<1>6. /\ \A i \in 1 .. Len(h) : h[i].seq \in SeqNo
      /\ packet.seq \in SeqNo /\ 1 \in 1 .. Len(h) /\ h[1].seq \in SeqNo
  <2>1. packet.seq \in SeqNo
    BY DEF Slot
  <2>2. 1 \in 1 .. Len(h)
    BY <1>1
  <2>3. QED
    BY <1>1, <2>1, <2>2, SlotSeqType
<1>7. ASSUME x + 1 \in 1 .. Len(h), h[x + 1].full PROVE FALSE
  <2>1. Ahead(h[1].seq, h[x + 1].seq) = (x + 1) - 1
    BY <1>7 DEF GoodDeque
  <2>2. h[x + 1].seq = packet.seq
    BY <1>6, <1>7, <2>1, AheadInjective
  <2>3. QED
    BY <1>7, <2>2 DEF NotStored
<1>8. x # 0
  BY <1>6, <1>7 DEF GoodDeque
<1>9. ins[1] = h[1] /\ h[1].full /\ 1 \in 1 .. Len(ins)
  BY <1>2, <1>4, <1>5, <1>6, <1>8 DEF GoodDeque
<1>10. \A i \in 1 .. Len(ins) : ins[i].full => Ahead(ins[1].seq, ins[i].seq) = i - 1
  <2>1. SUFFICES ASSUME NEW i \in 1 .. Len(ins), ins[i].full
                 PROVE  Ahead(ins[1].seq, ins[i].seq) = i - 1
    OBVIOUS
  <2>2. CASE i = x + 1
    BY <1>5, <1>9, <2>1, <2>2
  <2>3. CASE i # x + 1 /\ i <= Len(h)
    BY <1>5, <1>9, <2>1, <2>3 DEF GoodDeque
  <2>4. CASE i # x + 1 /\ i > Len(h)
    BY <1>1, <1>5, <2>1, <2>4, HoleType
  <2>5. QED
    BY <1>1, <2>2, <2>3, <2>4
<1>11. \A i \in 1 .. Len(ins) : ins[i].full /\ ~ins[i].pending => ins[i].sent # NoTime
  BY <1>1, <1>5, HoleType DEF GoodDeque
<1>12. Ahead(h[1].seq, nw) \in Nat /\ MaxReorder \in Nat /\ MaxDistance \in Nat
  BY <1>6, AheadInt, SpanAssumption DEF MaxDistance
<1>13. /\ Len(ins) - 1 <= Ahead(ins[1].seq, nw)
       /\ Ahead(ins[1].seq, nw) <= Len(ins) - 1 + MaxReorder
       /\ Ahead(ins[1].seq, nw) <= MaxDistance
  BY <1>1, <1>2, <1>4, <1>9, <1>12
<1>14. GoodDeque(ins, nw)
  BY <1>4, <1>9, <1>10, <1>11, <1>13 DEF GoodDeque
<1>15. Placed(ins, h, packet, x + 1, 0)
  BY <1>1, <1>2, <1>4, <1>5, <1>7 DEF Placed
<1>16. QED
  BY <1>3, <1>4, <1>14, <1>15 DEF ins, e

\* Before the front: the front is expanded and the packet becomes the front.
LEMMA InsertFront ==
    ASSUME NEW h, NEW nw \in SeqNo, GoodDeque(h, nw), h # <<>>,
           NEW packet \in Slot, packet.full,
           ~packet.pending => packet.sent # NoTime,
           NEW y \in Nat \ {0}, Ahead(packet.seq, h[1].seq) = y,
           Ahead(packet.seq, nw) = y + Ahead(h[1].seq, nw),
           Ahead(packet.seq, nw) <= MaxReorder
    PROVE  LET ins == [ExpandFront(h, y) EXCEPT ![1] = packet]
           IN  GoodDeque(ins, nw) /\ Placed(ins, h, packet, 1, y) /\ 1 \in 1 .. Len(ins)
<1> DEFINE e == ExpandFront(h, y)
           ins == [e EXCEPT ![1] = packet]
<1>1. h \in Seq(Slot) /\ Len(h) \in Nat \ {0}
  BY DEF GoodDeque
<1>2. /\ e \in Seq(Slot) /\ Len(e) = Len(h) + y
      /\ \A i \in 1 .. Len(h) + y : e[i] = IF i <= y THEN Hole ELSE h[i - y]
  BY <1>1, ExpandFrontType
<1> HIDE DEF e
<1>3. 1 \in 1 .. Len(e)
  BY <1>1, <1>2
<1>4. /\ ins \in Seq(Slot) /\ Len(ins) = Len(e)
      /\ \A i \in 1 .. Len(e) : ins[i] = IF i = 1 THEN packet ELSE e[i]
  BY <1>2, <1>3, ExceptSeq
<1> HIDE DEF ins
<1>5. \A i \in 1 .. Len(ins) :
          ins[i] = IF i = 1 THEN packet ELSE IF i <= y THEN Hole ELSE h[i - y]
  BY <1>2, <1>4
<1>6. /\ \A i \in 1 .. Len(h) : h[i].seq \in SeqNo
      /\ packet.seq \in SeqNo /\ h[1].seq \in SeqNo
  <2>1. packet.seq \in SeqNo
    BY DEF Slot
  <2>2. 1 \in 1 .. Len(h)
    BY <1>1
  <2>3. QED
    BY <1>1, <2>1, <2>2, SlotSeqType
<1>7. /\ Ahead(h[1].seq, nw) \in Nat /\ Len(h) - 1 <= Ahead(h[1].seq, nw)
      /\ MaxReorder \in Nat /\ MaxDistance \in Nat /\ MaxReorder <= MaxDistance
      /\ MaxDistance < SeqSpan /\ SeqSpan \in Nat
  <2>1. Ahead(h[1].seq, nw) \in Nat
    BY <1>6, AheadInt
  <2>2. Len(h) - 1 <= Ahead(h[1].seq, nw)
    BY DEF GoodDeque
  <2>3. /\ MaxReorder \in Nat /\ MaxDistance \in Nat /\ MaxReorder <= MaxDistance
        /\ MaxDistance < SeqSpan /\ SeqSpan \in Nat
    BY SpanAssumption DEF MaxDistance
  <2>4. QED
    BY <2>1, <2>2, <2>3
<1>8. \A i \in 1 .. Len(ins) : ins[i].full => Ahead(ins[1].seq, ins[i].seq) = i - 1
  <2>1. SUFFICES ASSUME NEW i \in 1 .. Len(ins), ins[i].full
                 PROVE  Ahead(ins[1].seq, ins[i].seq) = i - 1
    OBVIOUS
  <2>2. CASE i = 1
    BY <1>3, <1>4, <1>6, <2>2, AheadType
  <2>3. CASE i # 1 /\ i <= y
    BY <1>5, <2>1, <2>3, HoleType
  <2>4. CASE i # 1 /\ i > y
    <3>1. i - y \in 1 .. Len(h) /\ ins[i] = h[i - y]
      BY <1>1, <1>2, <1>4, <1>5, <2>4
    <3>2. Ahead(h[1].seq, h[i - y].seq) = (i - y) - 1
      BY <2>1, <3>1 DEF GoodDeque
    <3>3. y + ((i - y) - 1) < SeqSpan
      BY <1>1, <1>7, <3>1
    <3>4. h[i - y].seq \in SeqNo
      BY <1>6, <3>1
    <3>5. Ahead(packet.seq, h[1].seq) + Ahead(h[1].seq, h[i - y].seq) < SeqSpan
      BY <3>2, <3>3
    <3>6. Ahead(packet.seq, h[i - y].seq)
              = Ahead(packet.seq, h[1].seq) + Ahead(h[1].seq, h[i - y].seq)
      BY <1>6, <3>4, <3>5, AheadSum
    <3>7. ins[1] = packet
      BY <1>3, <1>4
    <3>8. QED
      BY <3>1, <3>2, <3>6, <3>7
  <2>5. QED
    BY <2>2, <2>3, <2>4
<1>9. \A i \in 1 .. Len(ins) : ins[i].full /\ ~ins[i].pending => ins[i].sent # NoTime
  <2>1. SUFFICES ASSUME NEW i \in 1 .. Len(ins), ins[i].full, ~ins[i].pending
                 PROVE  ins[i].sent # NoTime
    OBVIOUS
  <2>2. CASE i = 1
    BY <1>3, <1>4, <2>1, <2>2
  <2>3. CASE i # 1 /\ i <= y
    BY <1>5, <2>1, <2>3, HoleType
  <2>4. CASE i # 1 /\ i > y
    <3>1. i - y \in 1 .. Len(h) /\ ins[i] = h[i - y]
      BY <1>1, <1>2, <1>4, <1>5, <2>4
    <3>2. QED
      BY <2>1, <3>1 DEF GoodDeque
  <2>5. QED
    BY <2>2, <2>3, <2>4
<1>10. ins[1] = packet /\ ins # <<>>
  BY <1>3, <1>4
<1>11. /\ Len(ins) - 1 <= Ahead(ins[1].seq, nw)
       /\ Ahead(ins[1].seq, nw) <= Len(ins) - 1 + MaxReorder
       /\ Ahead(ins[1].seq, nw) <= MaxDistance
  BY <1>1, <1>2, <1>4, <1>7, <1>10
<1>12. GoodDeque(ins, nw)
  BY <1>4, <1>8, <1>9, <1>10, <1>11 DEF GoodDeque
<1>13. Placed(ins, h, packet, 1, y)
  BY <1>1, <1>2, <1>4, <1>5 DEF Placed
<1>14. QED
  BY <1>3, <1>4, <1>12, <1>13 DEF ins, e

\* A packet in the put window lands in its slot, whether the deque is empty or
\* the packet is after or before the front.
LEMMA InsertedDeque ==
    ASSUME NEW h, newest \in SeqNo, GoodDeque(h, newest), Len(h) < kMaxCapacity,
           NEW packet \in Slot, packet.full, packet.seq \in PutWindow,
           NotStored(h, packet.seq), ~packet.pending => packet.sent # NoTime
    PROVE  /\ GoodDeque(Inserted(h, packet), Newer(packet.seq))
           /\ \E at \in 1 .. Len(Inserted(h, packet)), shift \in Nat :
                  Placed(Inserted(h, packet), h, packet, at, shift)
<1> DEFINE s == packet.seq
           nw == Newer(s)
           ins == Inserted(h, packet)
<1>1. h \in Seq(Slot) /\ Len(h) \in Nat
  BY DEF GoodDeque
<1>2. s \in SeqNo
  BY DEF Slot
<1>3. /\ nw \in SeqNo
      /\ \/ nw = newest /\ Ahead(s, newest) <= MaxReorder
         \/ nw = s /\ Ahead(newest, s) \in 1 .. MaxGap + 1
  BY <1>2, WindowCases
<1>4. /\ SeqSpan \in Nat /\ HalfSpan \in Nat /\ SeqSpan = 2 * HalfSpan
      /\ kMaxCapacity \in Nat /\ MaxReorder \in Nat /\ MaxGap \in Nat
      /\ MaxDistance = kMaxCapacity + MaxReorder + MaxGap /\ MaxDistance < HalfSpan
  BY SpanAssumption DEF MaxDistance
<1>5. CASE h = <<>>
  <2>1. ins = [ExpandBack(h, 1) EXCEPT ![1] = packet]
    BY <1>5 DEF Inserted, GetPacketIndex
  <2>2. /\ ExpandBack(h, 1) \in Seq(Slot) /\ Len(ExpandBack(h, 1)) = 1
    <3>1. Len(h) = 0 /\ 1 \in Nat
      BY <1>5
    <3>2. /\ ExpandBack(h, 1) \in Seq(Slot)
          /\ Len(ExpandBack(h, 1)) = IF 1 > Len(h) THEN 1 ELSE Len(h)
      BY ONLY <1>1, <3>1, ExpandBackType
    <3>3. QED
      BY <3>1, <3>2
  <2>3. /\ ins \in Seq(Slot) /\ Len(ins) = 1 /\ ins[1] = packet
    BY <2>1, <2>2, ExceptSeq
  <2> HIDE DEF ins
  <2>4. Ahead(s, s) = 0 /\ Ahead(s, nw) \in Nat /\ Ahead(s, nw) <= MaxReorder
    BY <1>2, <1>3, <1>4, AheadType, AheadInt
  <2>5. GoodDeque(ins, nw)
    BY <1>4, <2>3, <2>4 DEF GoodDeque
  <2>6. Placed(ins, h, packet, 1, 0)
    BY <1>5, <2>3 DEF Placed
  <2>7. QED
    BY <2>3, <2>5, <2>6 DEF ins
<1>6. CASE h # <<>>
  <2> DEFINE f == h[1].seq
             d == Ahead(f, newest)
  <2>1. 1 \in 1 .. Len(h) /\ f \in SeqNo
    BY <1>1, <1>6, SlotSeqType
  <2>2. /\ d \in Nat
        /\ Len(h) - 1 <= d /\ d <= Len(h) - 1 + MaxReorder /\ d <= MaxDistance
    BY <1>6, <2>1, AheadInt DEF GoodDeque
  <2>3. GetPacketIndex(h, s) = IndexFrom(f, s)
    BY <1>6 DEF GetPacketIndex
  <2>4. ASSUME NEW x \in Nat, Ahead(f, s) = x, x < HalfSpan,
               x <= Ahead(f, nw), Len(h) - 1 <= Ahead(f, nw),
               Ahead(f, nw) <= MaxDistance,
               \/ Ahead(f, nw) <= x + MaxReorder
               \/ Ahead(f, nw) <= Len(h) - 1 + MaxReorder
        PROVE  /\ GoodDeque(ins, nw)
               /\ \E at \in 1 .. Len(ins), shift \in Nat : Placed(ins, h, packet, at, shift)
    <3>1. GetPacketIndex(h, s) = x
      BY <1>2, <2>1, <2>3, <2>4, IndexAhead
    <3>2. ins = [ExpandBack(h, x + 1) EXCEPT ![x + 1] = packet]
      BY <3>1 DEF Inserted
    <3>3. GoodDeque(ins, nw) /\ Placed(ins, h, packet, x + 1, 0) /\ x + 1 \in 1 .. Len(ins)
      BY <1>3, <1>6, <2>4, <3>2, InsertBack
    <3>4. QED
      BY <3>3
  <2>5. CASE nw = s /\ Ahead(newest, s) \in 1 .. MaxGap + 1
    <3>1. Ahead(f, newest) + Ahead(newest, s) <= MaxDistance
      BY <1>1, <1>4, <2>2, <2>5
    <3>2. Ahead(f, newest) + Ahead(newest, s) < SeqSpan
      BY <1>4, <2>2, <2>5, <3>1
    <3>3. Ahead(f, s) = d + Ahead(newest, s)
      BY <1>2, <2>1, <3>2, AheadSum
    <3>4. /\ Ahead(f, s) \in Nat /\ Ahead(f, s) < HalfSpan /\ Ahead(f, s) <= MaxDistance
          /\ Len(h) - 1 <= Ahead(f, s) /\ Ahead(f, s) <= Ahead(f, s) + MaxReorder
      <4>1. PICK a \in Nat, g \in Nat, l \in Nat :
                a = d /\ g = Ahead(newest, s) /\ l = Len(h)
        BY <1>1, <1>4, <2>2, <2>5
      <4>2. /\ Ahead(f, s) = a + g /\ a + g <= MaxDistance /\ l - 1 <= a
        BY <2>2, <3>1, <3>3, <4>1
      <4>3. /\ a + g \in Nat /\ a + g < HalfSpan /\ l - 1 <= a + g
            /\ a + g <= a + g + MaxReorder
        BY <1>4, <4>2
      <4>4. QED
        BY <4>1, <4>2, <4>3
    <3>5. QED
      BY <2>4, <2>5, <3>4
  <2>6. CASE nw = newest /\ Ahead(s, newest) <= MaxReorder
    <3> DEFINE r == Ahead(s, newest)
    <3>1. r \in Nat
      BY <1>2, AheadInt
    <3>2. CASE r <= d
      <4>1. Ahead(f, s) = d - r
        BY <1>2, <2>1, <3>2, AheadCommonEnd
      <4>2. /\ Ahead(f, s) \in Nat /\ Ahead(f, s) < HalfSpan
            /\ Ahead(f, s) <= d
        BY <1>4, <2>2, <3>1, <3>2, <4>1
      <4>3. QED
        BY <2>2, <2>4, <2>6, <4>2
    <3>3. CASE r > d
      <4> DEFINE y == r - d
      <4>1. Ahead(s, f) = y
        <5>1. Ahead(f, newest) <= Ahead(s, newest)
          BY <2>2, <3>1, <3>3
        <5>2. QED
          BY <1>2, <2>1, <5>1, AheadCommonEnd
      <4>2. y \in Nat \ {0} /\ y < HalfSpan /\ r = y + d
        BY <1>4, <2>2, <2>6, <3>1, <3>3
      <4> HIDE DEF y
      <4>3. s # f
        BY <1>2, <4>1, <4>2, AheadType
      <4>4. GetPacketIndex(h, s) = -y
        BY <1>2, <2>1, <2>3, <4>1, <4>2, <4>3, IndexBehind
      <4>5. ins = [ExpandFront(h, y) EXCEPT ![1] = packet]
        <5>1. -(-y) = y /\ -y < 0
          BY <4>2
        <5>2. QED
          BY <4>4, <5>1 DEF Inserted
      <4>6. /\ Ahead(s, nw) = y + Ahead(f, nw) /\ GoodDeque(h, nw)
            /\ Ahead(s, nw) <= MaxReorder
        BY <2>6, <4>2
      <4> HIDE DEF nw, ins
      <4>7. GoodDeque(ins, nw) /\ Placed(ins, h, packet, 1, y) /\ 1 \in 1 .. Len(ins)
        BY <1>3, <1>6, <4>1, <4>2, <4>5, <4>6, InsertFront
      <4>8. QED
        BY <4>2, <4>7 DEF ins, nw
    <3>4. QED
      BY <2>2, <3>1, <3>2, <3>3
  <2>7. QED
    BY <1>3, <2>5, <2>6
<1>7. QED
  BY <1>5, <1>6

LEMMA PlacedOrders ==
    ASSUME NEW ins \in Seq(Slot), NEW h \in Seq(Slot), NEW packet \in Slot,
           NEW n \in Nat, GoodOrders(h, n), packet.order = n,
           NEW at \in 1 .. Len(ins), NEW shift \in Nat, Placed(ins, h, packet, at, shift)
    PROVE  GoodOrders(ins, n + 1)
<1>1. ASSUME NEW i \in 1 .. Len(ins), ins[i].full
      PROVE  \/ i = at /\ ins[i].order = n
             \/ /\ i # at /\ i - shift \in 1 .. Len(h)
                /\ h[i - shift].full /\ ins[i].order = h[i - shift].order
  BY <1>1, HoleType DEF Placed
<1>2. \A j \in 1 .. Len(h) : h[j].full => h[j].order < n /\ h[j].order \in Nat
  BY SlotSeqType DEF GoodOrders
<1>3. ASSUME NEW i \in 1 .. Len(ins), ins[i].full PROVE ins[i].order < n + 1
  <2>1. PICK o : o = ins[i].order
    OBVIOUS
  <2>2. o = n \/ (o < n /\ o \in Nat)
    BY <1>1, <1>2, <1>3, <2>1
  <2>3. o < n + 1
    BY <2>2
  <2>4. QED
    BY <2>1, <2>3
<1>4. ASSUME NEW i \in 1 .. Len(ins), NEW j \in 1 .. Len(ins), i # j, ins[i].full, ins[j].full
      PROVE  ins[i].order # ins[j].order
  <2>1. CASE i = at \/ j = at
    <3>1. ASSUME NEW k \in 1 .. Len(ins), ins[k].full, k # at PROVE ins[k].order # n
      <4>1. ins[k].order < n /\ ins[k].order \in Nat
        BY <1>1, <1>2, <3>1
      <4>2. \A o \in Nat : o < n => o # n
        OBVIOUS
      <4>3. QED
        BY <4>1, <4>2
    <3>2. ins[at].full => ins[at].order = n
      BY <1>1
    <3>3. QED
      BY <1>4, <2>1, <3>1, <3>2
  <2>2. CASE i # at /\ j # at
    <3>1. PICK a \in 1 .. Len(h), b \in 1 .. Len(h) : a = i - shift /\ b = j - shift
      BY <1>1, <1>4, <2>2
    <3>2. a # b
      BY <1>4, <3>1
    <3>3. /\ h[a].full /\ ins[i].order = h[a].order
          /\ h[b].full /\ ins[j].order = h[b].order
      BY <1>1, <1>4, <2>2, <3>1
    <3>4. QED
      BY <3>2, <3>3 DEF GoodOrders
  <2>3. QED
    BY <2>1, <2>2
<1>5. QED
  BY <1>3, <1>4 DEF GoodOrders

LEMMA PlacedKeeps ==
    ASSUME NEW ins \in Seq(Slot), NEW h \in Seq(Slot), NEW packet, NEW prio,
           GoodPriority(h, prio),
           NEW at \in 1 .. Len(ins), NEW shift \in Nat, Placed(ins, h, packet, at, shift)
    PROVE  \A m \in prio : \E i \in 1 .. Len(ins) : ins[i].full /\ ins[i].order = m
<1>1. SUFFICES ASSUME NEW m \in prio
               PROVE  \E i \in 1 .. Len(ins) : ins[i].full /\ ins[i].order = m
  OBVIOUS
<1>2. PICK j \in 1 .. Len(h) : h[j].full /\ h[j].order = m
  BY DEF GoodPriority
<1>3. j + shift \in 1 .. Len(ins) /\ (j + shift) - shift = j
  BY DEF Placed
<1>4. j + shift # at
  BY <1>2, <1>3 DEF Placed
<1>5. ins[j + shift] = h[j]
  BY <1>2, <1>3, <1>4 DEF Placed
<1>6. QED
  BY <1>2, <1>3, <1>5

LEMMA PlacedPriority ==
    ASSUME NEW ins \in Seq(Slot), NEW h \in Seq(Slot), NEW packet \in Slot, packet.full,
           NEW prio, GoodPriority(h, prio),
           NEW at \in 1 .. Len(ins), NEW shift \in Nat, Placed(ins, h, packet, at, shift)
    PROVE  GoodPriority(ins, InsertIntoPriority(ins, prio, packet.order))
<1> DEFINE new == InsertIntoPriority(ins, prio, packet.order)
<1>1. packet.order \in Nat
  BY DEF Slot
<1>2. EnablePaddingPrio \in BOOLEAN
  BY DurationAssumption
<1>3. new \subseteq prio \cup {packet.order} /\ (~EnablePaddingPrio => new = prio)
  BY <1>2 DEF InsertIntoPriority
<1> HIDE DEF new
<1>4. \A m \in prio : \E i \in 1 .. Len(ins) : ins[i].full /\ ins[i].order = m
  BY PlacedKeeps
<1>5. ins[at].full /\ ins[at].order = packet.order
  BY DEF Placed
<1>6. QED
  BY <1>1, <1>3, <1>4, <1>5 DEF GoodPriority, new
-----------------------------------------------------------------------------
(* Lookup.                                                                 *)

\* In a good deque the sequence number of a stored packet leads to its slot.
LEMMA StoredIsFound ==
    ASSUME NEW h, NEW nw \in SeqNo, GoodDeque(h, nw), NEW i \in 1 .. Len(h), h[i].full
    PROVE  GetStoredPacket(h, h[i].seq) = i
<1>1. h \in Seq(Slot) /\ h # <<>> /\ 1 \in 1 .. Len(h)
  BY DEF GoodDeque
<1>2. h[1].seq \in SeqNo /\ h[i].seq \in SeqNo
  BY <1>1, SlotSeqType
<1>3. Ahead(h[1].seq, h[i].seq) = i - 1
  BY <1>1 DEF GoodDeque
<1>4. Len(h) - 1 <= MaxDistance /\ Len(h) \in Nat /\ MaxDistance \in Nat
  <2>1. /\ Ahead(h[1].seq, nw) \in Nat /\ Len(h) - 1 <= Ahead(h[1].seq, nw)
        /\ Ahead(h[1].seq, nw) <= MaxDistance
    BY <1>1, <1>2, AheadInt DEF GoodDeque
  <2>2. MaxDistance \in Nat
    BY SpanAssumption DEF MaxDistance
  <2>3. QED
    BY <1>1, <2>1, <2>2
<1>5. i - 1 < HalfSpan
  BY <1>4, SpanAssumption
<1>6. GetPacketIndex(h, h[i].seq) = i - 1
  BY <1>1, <1>2, <1>3, <1>5, IndexAhead DEF GetPacketIndex
<1>7. i - 1 >= 0 /\ i - 1 < Len(h) /\ (i - 1) + 1 = i
  BY <1>1
<1>8. QED
  BY <1>6, <1>7 DEF GetStoredPacket

LEMMA FoundIsStored ==
    ASSUME NEW h \in Seq(Slot), NEW s \in SeqNo, GetStoredPacket(h, s) # 0
    PROVE  GetStoredPacket(h, s) \in 1 .. Len(h) /\ h[GetStoredPacket(h, s)].full
<1>1. ASSUME h # <<>> PROVE GetPacketIndex(h, s) \in Int
  <2>1. h[1].seq \in SeqNo
    BY <1>1, SlotSeqType
  <2>2. QED
    BY <1>1, <2>1, SpanAssumption DEF GetPacketIndex, IndexFrom, SeqNo
<1>2. GetPacketIndex(h, s) \in Int
  BY <1>1 DEF GetPacketIndex
<1>3. QED
  BY <1>2 DEF GetStoredPacket

\* After culling and removal of an older copy, the packet put is not stored.
LEMMA ReadyIsGood ==
    ASSUME IInv, NEW s \in SeqNo
    PROVE  /\ GoodDeque(MadeReady(s), newest)
           /\ GoodOrders(MadeReady(s), packets_inserted_)
           /\ GoodPriority(MadeReady(s), ReadyPriority(s))
           /\ Len(MadeReady(s)) < kMaxCapacity
           /\ NotStored(MadeReady(s), s)
<1> DEFINE c == CullOldPackets(packet_history_, now, rtt_ms_, number_to_store_)
           p == CullPriority(packet_history_, padding_priority_, now, rtt_ms_, number_to_store_)
           at == GetStoredPacket(c, s)
<1>1. /\ newest \in SeqNo /\ packets_inserted_ \in Nat /\ now \in Nat
      /\ rtt_ms_ \in Int /\ number_to_store_ \in Nat
  BY SpanAssumption DEF IInv, TypeOK
<1>2. /\ GoodDeque(c, newest) /\ GoodOrders(c, packets_inserted_)
      /\ GoodPriority(c, p) /\ Len(c) < kMaxCapacity
  BY <1>1, CullGood DEF IInv
<1>3. /\ MadeReady(s) = IF at # 0 THEN RemovePacket(c, at) ELSE c
      /\ ReadyPriority(s) = IF at # 0 THEN EraseFromPriority(c, p, c[at]) ELSE p
  BY DEF MadeReady, ReadyPriority
<1> HIDE DEF c, p
<1>4. c \in Seq(Slot)
  BY <1>2 DEF GoodDeque
<1>5. CASE at = 0
  <2>1. NotStored(c, s)
    BY <1>1, <1>2, <1>5, StoredIsFound DEF NotStored
  <2>2. QED
    BY <1>2, <1>3, <1>5, <2>1
<1>6. CASE at # 0
  <2>1. at \in 1 .. Len(c) /\ c[at].full
    BY <1>4, <1>6, FoundIsStored
  <2>2. \A i \in 1 .. Len(c) : c[i].full /\ c[i].seq = s => i = at
    BY <1>1, <1>2, StoredIsFound
  <2> HIDE DEF at
  <2> DEFINE d == RemovePacket(c, at)
  <2>3. /\ GoodDeque(d, newest) /\ GoodOrders(d, packets_inserted_)
        /\ GoodPriority(d, EraseFromPriority(c, p, c[at])) /\ Len(d) <= Len(c)
    BY <1>1, <1>2, <2>1, RemoveGood
  <2>4. NotStored(d, s)
    <3>1. CASE at = 1
      <4>1. c # <<>> /\ c[1].full
        BY <1>4, <2>1, <3>1
      <4>2. PICK k \in 1 .. Len(c) : RemovePacket(c, 1) = DropFront(c, k)
        BY <1>4, <4>1, RemoveFront
      <4>3. k \in 0 .. Len(c) /\ d = DropFront(c, k)
        BY <3>1, <4>2
      <4>4. /\ Len(d) = Len(c) - k
            /\ \A i \in 1 .. Len(c) - k : d[i] = c[i + k]
        BY <1>4, <4>3, DropFrontType
      <4> HIDE DEF d
      <4>5. ASSUME NEW i \in 1 .. Len(d), d[i].full, d[i].seq = s PROVE FALSE
        <5>1. i + k \in 1 .. Len(c) /\ d[i] = c[i + k] /\ i + k # 1
          BY <4>4, <1>4
        <5>2. QED
          BY <2>2, <3>1, <4>5, <5>1
      <4>6. QED
        BY <4>5 DEF NotStored, d
    <3>2. CASE at # 1
      <4>1. d = [c EXCEPT ![at] = Emptied(c[at])]
        BY <3>2 DEF RemovePacket
      <4>2. Emptied(c[at]) \in Slot /\ ~Emptied(c[at]).full
        BY <1>4, <2>1, EmptiedType
      <4>3. /\ Len(d) = Len(c)
            /\ \A j \in 1 .. Len(c) : d[j] = IF j = at THEN Emptied(c[at]) ELSE c[j]
        BY <1>4, <2>1, <4>1, <4>2, ExceptSeq
      <4> HIDE DEF d
      <4>4. QED
        BY <2>2, <4>2, <4>3 DEF NotStored, d
    <3>3. QED
      BY <3>1, <3>2
  <2>5. Len(d) < kMaxCapacity
    BY <1>2, <1>4, <2>3, SpanAssumption DEF GoodDeque
  <2>6. QED
    BY <1>3, <1>6, <2>3, <2>4, <2>5 DEF at
<1>7. QED
  BY <1>5, <1>6
-----------------------------------------------------------------------------
(* The operations preserve the invariant.                                  *)

LEMMA EmptyGood ==
    ASSUME NEW nw \in SeqNo, NEW n \in Nat
    PROVE  /\ <<>> \in Seq(Slot)
           /\ GoodDeque(<<>>, nw) /\ GoodOrders(<<>>, n) /\ GoodPriority(<<>>, {})
  BY DEF GoodDeque, GoodOrders, GoodPriority

LEMMA PutPreserves ==
    ASSUME IInv, NEW s \in SeqNo, NEW sent \in Nat \cup {NoTime}, PutRtpPacket(s, sent)
    PROVE  IInv'
<1>1. newest \in SeqNo /\ packets_inserted_ \in Nat
  BY DEF IInv, TypeOK
<1>2. s \in PutWindow /\ newest' = Newer(s) /\ newest' \in SeqNo
  BY <1>1, WindowCases DEF PutRtpPacket
<1>3. CASE Enabled
  <2> DEFINE packet == StoredPacket(s, sent, packets_inserted_)
             h == MadeReady(s)
             ins == Inserted(h, packet)
  <2>1. /\ packet \in Slot /\ packet.full /\ packet.seq = s
        /\ packet.order = packets_inserted_
        /\ ~packet.pending => packet.sent # NoTime
    BY <1>1, StoredPacketType
  <2>2. /\ packet_history_' = ins
        /\ packets_inserted_' = packets_inserted_ + 1
        /\ padding_priority_' = InsertIntoPriority(ins, ReadyPriority(s), packet.order)
        /\ UNCHANGED <<now, mode_, number_to_store_, rtt_ms_>>
    BY <1>3 DEF PutRtpPacket, config
  <2> HIDE DEF packet
  <2>3. /\ GoodDeque(h, newest) /\ GoodOrders(h, packets_inserted_)
        /\ GoodPriority(h, ReadyPriority(s)) /\ Len(h) < kMaxCapacity
        /\ NotStored(h, packet.seq)
    BY <2>1, ReadyIsGood
  <2> HIDE DEF h
  <2>4. /\ GoodDeque(ins, Newer(s))
        /\ \E at \in 1 .. Len(ins), shift \in Nat : Placed(ins, h, packet, at, shift)
    BY <1>1, <1>2, <2>1, <2>3, InsertedDeque
  <2> HIDE DEF ins
  <2>5. ins \in Seq(Slot) /\ h \in Seq(Slot)
    BY <2>3, <2>4 DEF GoodDeque
  <2>6. PICK at \in 1 .. Len(ins), shift \in Nat : Placed(ins, h, packet, at, shift)
    BY <2>4
  <2>7. GoodOrders(ins, packets_inserted_ + 1)
    BY <1>1, <2>1, <2>3, <2>5, <2>6, PlacedOrders
  <2>8. GoodPriority(ins, InsertIntoPriority(ins, ReadyPriority(s), packet.order))
    BY <2>1, <2>3, <2>5, <2>6, PlacedPriority
  <2>9. TypeOK'
    BY <1>1, <1>2, <2>2, <2>5, <2>8 DEF IInv, TypeOK, GoodPriority
  <2>10. QED
    BY <1>2, <1>3, <2>2, <2>4, <2>7, <2>8, <2>9 DEF IInv, Enabled
<1>4. CASE ~Enabled
  <2>1. UNCHANGED <<now, mode_, number_to_store_, rtt_ms_, packet_history_,
                    packets_inserted_, padding_priority_>>
    BY <1>4 DEF PutRtpPacket, config
  <2>2. packet_history_ = <<>> /\ GoodDeque(<<>>, newest')
    BY <1>1, <1>2, <1>4, EmptyGood DEF IInv
  <2>3. TypeOK'
    BY <1>2, <2>1 DEF IInv, TypeOK
  <2>4. QED
    BY <1>4, <2>1, <2>2, <2>3 DEF IInv, Enabled
<1>5. QED
  BY <1>3, <1>4

LEMMA SetRttPreserves ==
    ASSUME IInv, NEW rtt \in Nat, SetRtt(rtt)
    PROVE  IInv'
<1>1. /\ newest \in SeqNo /\ packets_inserted_ \in Nat /\ now \in Nat
      /\ number_to_store_ \in Nat /\ rtt \in Int
  BY SpanAssumption DEF IInv, TypeOK
<1>2. /\ rtt_ms_' = rtt
      /\ UNCHANGED <<now, mode_, number_to_store_, packets_inserted_, newest>>
  BY DEF SetRtt, config
<1>3. CASE Enabled
  <2> DEFINE c == CullOldPackets(packet_history_, now, rtt, number_to_store_)
             p == CullPriority(packet_history_, padding_priority_, now, rtt, number_to_store_)
  <2>1. GoodDeque(c, newest) /\ GoodOrders(c, packets_inserted_) /\ GoodPriority(c, p)
    BY <1>1, CullGood DEF IInv
  <2>2. packet_history_' = c /\ padding_priority_' = p
    BY <1>3 DEF SetRtt
  <2> HIDE DEF c, p
  <2>3. TypeOK'
    BY <1>2, <2>1, <2>2 DEF IInv, TypeOK, GoodDeque, GoodPriority
  <2>4. QED
    BY <1>2, <1>3, <2>1, <2>2, <2>3 DEF IInv, Enabled
<1>4. CASE ~Enabled
  <2>1. UNCHANGED <<packet_history_, padding_priority_>>
    BY <1>4 DEF SetRtt
  <2>2. QED
    BY <1>2, <2>1 DEF IInv, TypeOK, Enabled
<1>5. QED
  BY <1>3, <1>4

\* Every operation that updates one stored packet keeps its identity.
LEMMA UpdatePreserves ==
    ASSUME IInv, Enabled, NEW at \in 1 .. Len(packet_history_), NEW slot \in Slot,
           packet_history_[at].full, slot.full,
           slot.seq = packet_history_[at].seq, slot.order = packet_history_[at].order,
           ~slot.pending => slot.sent # NoTime,
           Update(at, slot)
    PROVE  IInv'
<1> DEFINE d == [packet_history_ EXCEPT ![at] = slot]
<1>1. newest \in SeqNo /\ packets_inserted_ \in Nat /\ packet_history_ \in Seq(Slot)
  BY DEF IInv, TypeOK
<1>2. /\ packet_history_' = d
      /\ UNCHANGED <<now, mode_, number_to_store_, rtt_ms_, packets_inserted_,
                     padding_priority_, newest>>
  BY DEF Update, config
<1>3. GoodDeque(d, newest)
  BY <1>1, ReplaceGoodDeque DEF IInv
<1>4. GoodOrders(d, packets_inserted_)
  BY <1>1, ReplaceGoodOrders DEF IInv
<1>5. GoodPriority(d, padding_priority_)
  BY <1>1, ReplaceGoodPriority DEF IInv
<1> HIDE DEF d
<1>6. TypeOK'
  BY <1>2, <1>3 DEF IInv, TypeOK, GoodDeque
<1>7. QED
  BY <1>2, <1>3, <1>4, <1>5, <1>6 DEF IInv, Enabled

\* A slot whose packet has just been sent.
LEMMA SentSlot ==
    ASSUME NEW old \in Slot, old.full, NEW t \in Nat
    PROVE  LET new == [old EXCEPT !.sent = t, !.pending = FALSE]
           IN  /\ new \in Slot /\ new.full
               /\ new.seq = old.seq /\ new.order = old.order /\ new.sent # NoTime
<1> DEFINE mid == [old EXCEPT !.sent = t]
<1>1. /\ mid \in Slot /\ mid.full /\ mid.seq = old.seq /\ mid.order = old.order
      /\ mid.sent = t
  BY DEF Slot
<1>2. [old EXCEPT !.sent = t, !.pending = FALSE] = [mid EXCEPT !.pending = FALSE]
  OBVIOUS
<1> HIDE DEF mid
<1> DEFINE new == [mid EXCEPT !.pending = FALSE]
<1>3. new.full = mid.full /\ new.seq = mid.seq /\ new.order = mid.order /\ new.sent = mid.sent
  BY <1>1 DEF Slot
<1>4. new \in Slot
  BY <1>1 DEF Slot
<1>5. t # NoTime
  BY DEF NoTime
<1> HIDE DEF new
<1>6. QED
  BY <1>1, <1>2, <1>3, <1>4, <1>5 DEF new

LEMMA GettersPreserve ==
    ASSUME IInv, NEW s \in SeqNo,
           \/ GetPacketAndSetSendTime(s) \/ GetPacketAndMarkAsPending(s)
           \/ MarkPacketAsSent(s) \/ SetPendingTransmission(s)
    PROVE  IInv'
<1> DEFINE at == GetStoredPacket(packet_history_, s)
           slot == packet_history_[at]
<1>1. Enabled /\ at # 0 /\ packet_history_ \in Seq(Slot) /\ now \in Nat
  BY DEF GetPacketAndSetSendTime, GetPacketAndMarkAsPending, MarkPacketAsSent,
         SetPendingTransmission, MayRetransmit, IInv, TypeOK
<1>2. at \in 1 .. Len(packet_history_) /\ slot.full /\ slot \in Slot
  BY <1>1, FoundIsStored
<1>3. \/ Update(at, [(IF slot.sent # NoTime THEN Retransmitted(slot) ELSE slot)
                        EXCEPT !.sent = now, !.pending = FALSE])
      \/ Update(at, [slot EXCEPT !.pending = TRUE])
      \/ Update(at, [Retransmitted(slot) EXCEPT !.sent = now, !.pending = FALSE])
  BY DEF GetPacketAndSetSendTime, GetPacketAndMarkAsPending, MarkPacketAsSent,
         SetPendingTransmission
<1> HIDE DEF at
<1>4. CASE Update(at, [slot EXCEPT !.pending = TRUE])
  <2> DEFINE new == [slot EXCEPT !.pending = TRUE]
  <2>1. /\ new \in Slot /\ new.full /\ new.seq = slot.seq /\ new.order = slot.order
        /\ new.pending
    BY <1>2 DEF Slot
  <2> HIDE DEF new
  <2>2. QED
    BY <1>1, <1>2, <1>4, <2>1, UpdatePreserves DEF new
<1>5. ASSUME NEW old \in Slot, old.full, old.seq = slot.seq, old.order = slot.order,
             Update(at, [old EXCEPT !.sent = now, !.pending = FALSE])
      PROVE  IInv'
  <2> DEFINE new == [old EXCEPT !.sent = now, !.pending = FALSE]
  <2>1. /\ new \in Slot /\ new.full /\ new.seq = old.seq /\ new.order = old.order
        /\ new.sent # NoTime
    BY <1>1, <1>5, SentSlot
  <2> HIDE DEF new
  <2>2. QED
    BY <1>1, <1>2, <1>5, <2>1, UpdatePreserves DEF new
<1>6. /\ Retransmitted(slot) \in Slot /\ Retransmitted(slot).full
      /\ Retransmitted(slot).seq = slot.seq /\ Retransmitted(slot).order = slot.order
  BY <1>2 DEF Slot, Retransmitted
<1>7. QED
  BY <1>2, <1>3, <1>4, <1>5, <1>6


\* The padding choice is a populated slot: in the priority set by the pointer
\* that MoreUseful ranks first, otherwise the last populated slot.
LEMMA MostUsefulExists ==
    ASSUME IInv, padding_priority_ # {}
    PROVE  MostUseful(packet_history_, padding_priority_) \in padding_priority_
<1> DEFINE h == packet_history_
           prio == padding_priority_
           T == {TimesOf(h, m) : m \in prio}
<1>1. prio \subseteq Nat /\ h \in Seq(Slot) /\ packets_inserted_ \in Nat
  BY DEF IInv, TypeOK
<1>2. ASSUME NEW m \in prio PROVE TimesOf(h, m) \in Nat /\ m < packets_inserted_
  <2>1. \E i \in 1 .. Len(h) : h[i].full /\ h[i].order = m
    BY DEF IInv, GoodPriority
  <2> DEFINE i == CHOOSE i \in 1 .. Len(h) : h[i].full /\ h[i].order = m
  <2>2. i \in 1 .. Len(h) /\ h[i].full /\ h[i].order = m
    BY <2>1
  <2>3. TimesOf(h, m) = h[i].times
    BY DEF TimesOf
  <2> HIDE DEF i
  <2>4. QED
    BY <1>1, <2>2, <2>3, SlotSeqType DEF IInv, GoodOrders
<1>3. PICK t \in T : \A u \in T : t <= u
  <2>1. T \subseteq Nat /\ T # {}
    BY <1>2
  <2>2. QED
    BY <2>1, MinIsLeast
<1> DEFINE B == {m \in prio : TimesOf(h, m) = t}
<1>4. B # {} /\ B \subseteq 0 .. packets_inserted_
  BY <1>1, <1>2, <1>3
<1>5. PICK b \in B : \A c \in B : c <= b
  BY <1>1, <1>4, MaxIsGreatest
<1>6. \A n \in prio \ {b} : MoreUseful(h, b, n)
  <2>1. SUFFICES ASSUME NEW n \in prio \ {b} PROVE MoreUseful(h, b, n)
    OBVIOUS
  <2>2. TimesOf(h, b) = t /\ b \in prio
    BY <1>5
  <2>3. t <= TimesOf(h, n) /\ TimesOf(h, n) \in Nat /\ t \in Nat /\ n \in Nat /\ b \in Nat
    BY <1>1, <1>2, <1>3, <2>2
  <2>4. TimesOf(h, n) = t => n < b
    BY <1>5, <2>3
  <2>5. QED
    BY <2>2, <2>3, <2>4 DEF MoreUseful
<1>7. QED
  BY <1>5, <1>6 DEF MostUseful

LEMMA PaddingChoiceIsStored ==
    ASSUME IInv, PaddingChoice # 0
    PROVE  /\ PaddingChoice \in 1 .. Len(packet_history_)
           /\ packet_history_[PaddingChoice].full
<1> DEFINE h == packet_history_
           at == PaddingChoice
<1>1. at # 0 /\ h \in Seq(Slot)
  BY DEF IInv, TypeOK
<1>2. CASE EnablePaddingPrio
  <2>1. padding_priority_ # {}
    BY <1>1, <1>2 DEF PaddingChoice
  <2>2. PICK m \in padding_priority_ : m = MostUseful(h, padding_priority_)
    BY <2>1, MostUsefulExists
  <2>3. \E i \in 1 .. Len(h) : h[i].full /\ h[i].order = m
    BY DEF IInv, GoodPriority
  <2>4. at = CHOOSE i \in 1 .. Len(h) : h[i].full /\ h[i].order = m
    BY <1>2, <2>1, <2>2 DEF PaddingChoice
  <2>5. QED
    BY <2>3, <2>4
<1>3. CASE ~EnablePaddingPrio
  <2> DEFINE S == {0} \cup {i \in 1 .. Len(h) : h[i].full}
  <2>1. at = Max(S)
    BY <1>3 DEF PaddingChoice
  <2>2. S \subseteq 0 .. Len(h) /\ S # {} /\ Len(h) \in Nat
    BY <1>1
  <2>3. Max(S) \in S
    BY <2>2, MaxIsGreatest
  <2>4. QED
    BY <1>1, <2>1, <2>3
<1>4. QED
  BY <1>2, <1>3

LEMMA PaddingPreserves ==
    ASSUME IInv, GetPayloadPaddingPacket
    PROVE  IInv'
<1> DEFINE h == packet_history_
           at == PaddingChoice
           slot == h[at]
           new == [Retransmitted(slot) EXCEPT !.sent = now]
<1>1. /\ Enabled /\ at # 0 /\ h \in Seq(Slot) /\ now \in Nat /\ ~slot.pending
      /\ Update(at, new)
  BY DEF GetPayloadPaddingPacket, IInv, TypeOK
<1>2. at \in 1 .. Len(h) /\ slot.full
  BY <1>1, PaddingChoiceIsStored
<1> HIDE DEF at
<1>3. slot \in Slot
  BY <1>1, <1>2, SlotSeqType
<1>4. /\ Retransmitted(slot) \in Slot /\ Retransmitted(slot).full
      /\ Retransmitted(slot).seq = slot.seq /\ Retransmitted(slot).order = slot.order
  BY <1>2, <1>3 DEF Slot, Retransmitted
<1>5. /\ new \in Slot /\ new.full /\ new.seq = slot.seq /\ new.order = slot.order
      /\ new.sent # NoTime
  <2> DEFINE r == Retransmitted(slot)
  <2>1. new = [r EXCEPT !.sent = now]
    OBVIOUS
  <2> HIDE DEF r
  <2>2. r \in Slot /\ r.full /\ r.seq = slot.seq /\ r.order = slot.order
    BY <1>4 DEF r
  <2>3. /\ [r EXCEPT !.sent = now] \in Slot /\ [r EXCEPT !.sent = now].full
        /\ [r EXCEPT !.sent = now].seq = r.seq /\ [r EXCEPT !.sent = now].order = r.order
        /\ [r EXCEPT !.sent = now].sent = now
    BY <1>1, <2>2 DEF Slot
  <2>4. now # NoTime
    BY <1>1 DEF NoTime
  <2>5. QED
    BY <2>1, <2>2, <2>3, <2>4
<1> HIDE DEF new
<1>6. QED
  BY <1>1, <1>2, <1>3, <1>5, UpdatePreserves

LEMMA AckPreserves ==
    ASSUME IInv, NEW s \in SeqNo, CullAcknowledgedPacket(s)
    PROVE  IInv'
<1> DEFINE h == packet_history_
           at == GetPacketIndex(h, s) + 1
<1>1. newest \in SeqNo /\ packets_inserted_ \in Nat /\ h \in Seq(Slot)
  BY DEF IInv, TypeOK
<1>2. /\ GetPacketIndex(h, s) >= 0 /\ GetPacketIndex(h, s) < Len(h)
      /\ h' = RemovePacket(h, at)
      /\ padding_priority_' = EraseFromPriority(h, padding_priority_, h[at])
      /\ UNCHANGED <<now, mode_, number_to_store_, rtt_ms_, packets_inserted_, newest>>
  BY DEF CullAcknowledgedPacket, config
<1>3. at \in 1 .. Len(h)
  <2>1. GetPacketIndex(h, s) \in Int
    <3>1. h # <<>> => h[1].seq \in SeqNo
      BY <1>1, SlotSeqType
    <3>2. QED
      BY <3>1, SpanAssumption DEF GetPacketIndex, IndexFrom, SeqNo
  <2>2. QED
    BY <1>1, <1>2, <2>1
<1> HIDE DEF at
<1>4. /\ GoodDeque(RemovePacket(h, at), newest)
      /\ GoodOrders(RemovePacket(h, at), packets_inserted_)
      /\ GoodPriority(RemovePacket(h, at), EraseFromPriority(h, padding_priority_, h[at]))
  BY <1>1, <1>3, RemoveGood DEF IInv
<1>5. Enabled
  BY <1>1, <1>3 DEF IInv
<1>6. TypeOK'
  BY <1>2, <1>4 DEF IInv, TypeOK, GoodDeque, GoodPriority
<1>7. QED
  BY <1>2, <1>4, <1>5, <1>6 DEF IInv, Enabled

LEMMA ClearingPreserves ==
    ASSUME IInv,
           \/ Clear
           \/ SetStorePacketsStatus("kDisabled", 0)
           \/ \E n \in Capacities : SetStorePacketsStatus("kStoreAndCull", n)
    PROVE  IInv'
<1>1. /\ packet_history_' = <<>> /\ padding_priority_' = {}
      /\ UNCHANGED <<now, rtt_ms_, packets_inserted_, newest>>
  BY DEF Clear, SetStorePacketsStatus, config
<1>2. mode_' \in {"kDisabled", "kStoreAndCull"} /\ number_to_store_' \in 0 .. kMaxCapacity
  <2>1. ASSUME NEW n \in Nat PROVE Min({kMaxCapacity, n}) \in 0 .. kMaxCapacity
    <3>1. {kMaxCapacity, n} \subseteq Nat /\ {kMaxCapacity, n} # {}
      BY SpanAssumption
    <3>2. Min({kMaxCapacity, n}) \in Nat /\ Min({kMaxCapacity, n}) <= kMaxCapacity
      BY <3>1, MinIsLeast
    <3>3. QED
      BY <3>2, SpanAssumption
  <2>2. CASE Clear
    BY <2>2 DEF Clear, config, IInv, TypeOK
  <2>3. CASE SetStorePacketsStatus("kDisabled", 0)
    BY <2>1, <2>3 DEF SetStorePacketsStatus
  <2>4. CASE \E n \in Capacities : SetStorePacketsStatus("kStoreAndCull", n)
    BY <2>1, <2>4, DurationAssumption DEF SetStorePacketsStatus
  <2>5. QED
    BY <2>2, <2>3, <2>4
<1>3. newest \in SeqNo /\ packets_inserted_ \in Nat
  BY DEF IInv, TypeOK
<1>4. QED
  BY <1>1, <1>2, <1>3, EmptyGood DEF IInv, TypeOK

LEMMA NextPreserves ==
    ASSUME IInv, [Next]_vars
    PROVE  IInv'
<1>1. now \in Nat
  BY DEF IInv, TypeOK
<1>2. ASSUME NEW s \in SeqNo, PutRtpPacket(s, now) \/ PutRtpPacket(s, NoTime)
      PROVE  IInv'
  BY <1>1, <1>2, PutPreserves
<1>3. ASSUME NEW r \in Rtts, SetRtt(r) PROVE IInv'
  BY <1>3, SetRttPreserves, DurationAssumption
<1>4. ASSUME Tick PROVE IInv'
  BY <1>1, <1>4 DEF Tick, config, IInv, TypeOK, Enabled
<1>5. ASSUME UNCHANGED vars PROVE IInv'
  BY <1>5 DEF vars, IInv, TypeOK, Enabled
<1>6. QED
  BY <1>2, <1>3, <1>4, <1>5, GettersPreserve, PaddingPreserves, AckPreserves,
     ClearingPreserves DEF Next
-----------------------------------------------------------------------------
(* The theorems.                                                           *)

\* IInv holds in every reachable state.
THEOREM InductiveInvariant == Spec => []IInv
<1>1. Init => IInv
  <2>1. SUFFICES ASSUME Init PROVE IInv
    OBVIOUS
  <2>2. newest \in SeqNo
    BY <2>1, SpanAssumption DEF Init
  <2>3. GoodDeque(<<>>, newest) /\ GoodOrders(<<>>, 0) /\ GoodPriority(<<>>, {})
        /\ <<>> \in Seq(Slot)
    BY <2>2, EmptyGood
  <2>4. QED
    BY <2>1, <2>2, <2>3, SpanAssumption DEF Init, IInv, TypeOK
<1>2. IInv /\ [Next]_vars => IInv'
  BY NextPreserves
<1>3. QED
  BY <1>1, <1>2, PTL DEF Spec

\* The types hold (TypeOK of the run).
THEOREM TypeCorrect == Spec => []TypeOK
<1>1. IInv => TypeOK
  BY DEF IInv
<1>2. QED
  BY <1>1, InductiveInvariant, PTL

\* GetPacketIndex never reads the sequence number of a front hole: the DCHECK
\* of rtp_packet_history.cc:467 holds for every stream within the put window.
THEOREM FrontAlwaysPopulated == Spec => []FrontPopulated
<1>1. IInv => FrontPopulated
  BY DEF IInv, GoodDeque, FrontPopulated
<1>2. QED
  BY <1>1, InductiveInvariant, PTL

\* Slots and sequence numbers agree across wraps, culls and reordering.
THEOREM SlotsInOrder == Spec => []SlotOrder
<1>1. ASSUME IInv PROVE SlotOrder
  <2> DEFINE h == packet_history_
  <2>1. SUFFICES ASSUME NEW i \in 1 .. Len(h), NEW j \in 1 .. Len(h),
                        i <= j, h[i].full, h[j].full
                 PROVE  Ahead(h[i].seq, h[j].seq) = j - i
    BY DEF SlotOrder
  <2>2. h \in Seq(Slot) /\ h # <<>> /\ 1 \in 1 .. Len(h)
    BY <1>1, <2>1 DEF IInv, TypeOK
  <2>3. h[1].seq \in SeqNo /\ h[i].seq \in SeqNo /\ h[j].seq \in SeqNo
    BY <2>2, SlotSeqType
  <2>4. Ahead(h[1].seq, h[i].seq) = i - 1 /\ Ahead(h[1].seq, h[j].seq) = j - 1
    BY <1>1, <2>1, <2>2 DEF IInv, GoodDeque
  <2>5. Ahead(h[i].seq, h[j].seq) = Ahead(h[1].seq, h[j].seq) - Ahead(h[1].seq, h[i].seq)
    BY <2>1, <2>3, <2>4, AheadDiff
  <2>6. QED
    BY <2>4, <2>5
<1>2. QED
  BY <1>1, InductiveInvariant, PTL

\* Every packet still stored is found by its sequence number.
THEOREM StoredPacketsAreFound == Spec => []EveryStoredPacketIsFound
<1>1. ASSUME IInv PROVE EveryStoredPacketIsFound
  BY <1>1, StoredIsFound DEF EveryStoredPacketIsFound, IInv, TypeOK
<1>2. QED
  BY <1>1, InductiveInvariant, PTL

\* send_time_ms_ is set whenever CullOldPackets dereferences it.
THEOREM SendTimeIsSet == Spec => []SentUnlessPending
<1>1. IInv => SentUnlessPending
  BY DEF IInv, GoodDeque, SentUnlessPending
<1>2. QED
  BY <1>1, InductiveInvariant, PTL

\* The keys of the priority set are unique and none of its pointers dangles.
THEOREM PrioritySetSound == Spec => [](InsertOrderUnique /\ PaddingPointersLive)
<1>1. IInv => InsertOrderUnique /\ PaddingPointersLive
  BY DEF IInv, GoodOrders, GoodPriority, InsertOrderUnique, PaddingPointersLive
<1>2. QED
  BY <1>1, InductiveInvariant, PTL

-----------------------------------------------------------------------------
(* Limits: packets stored and padding candidates, and what culling spares. *)

FullSlots(h) == {i \in 1 .. Len(h) : h[i].full}

(* Counting the populated slots.                                           *)

LEMMA FullSlotsFinite ==
    ASSUME NEW h \in Seq(Slot)
    PROVE  /\ IsFiniteSet(FullSlots(h)) /\ Cardinality(FullSlots(h)) \in Nat
           /\ Cardinality(FullSlots(h)) <= Len(h)
<1>1. Len(h) \in Nat
  OBVIOUS
<1>2. IsFiniteSet(1 .. Len(h)) /\ Cardinality(1 .. Len(h)) = Len(h)
  BY <1>1, FS_Interval
<1>3. FullSlots(h) \in SUBSET (1 .. Len(h))
  BY DEF FullSlots
<1>4. IsFiniteSet(FullSlots(h)) /\ Cardinality(FullSlots(h)) <= Cardinality(1 .. Len(h))
  BY <1>2, <1>3, FS_Subset
<1>5. QED
  BY <1>2, <1>4, FS_CardinalityType

\* Fewer slots are populated after a removal, wherever it takes place.
LEMMA DropCount ==
    ASSUME NEW h \in Seq(Slot), NEW k \in 0 .. Len(h)
    PROVE  Cardinality(FullSlots(DropFront(h, k))) <= Cardinality(FullSlots(h))
<1> DEFINE d == DropFront(h, k)
           f == [i \in FullSlots(d) |-> i + k]
<1>1. /\ d \in Seq(Slot) /\ Len(d) = Len(h) - k
      /\ \A i \in 1 .. Len(h) - k : d[i] = h[i + k]
  BY DropFrontType
<1> HIDE DEF d
<1>2. \A i \in FullSlots(d) : i \in Int /\ i + k \in FullSlots(h)
  BY <1>1 DEF FullSlots
<1>3. f \in [FullSlots(d) -> FullSlots(h)]
  BY <1>2
<1>4. \A i, j \in FullSlots(d) : f[i] = f[j] => i = j
  BY <1>2
<1>5. f \in Injection(FullSlots(d), FullSlots(h))
  BY <1>3, <1>4 DEF Injection, IsInjective
<1>6. QED
  BY <1>5, FullSlotsFinite, FS_Injection DEF d

LEMMA RemoveCount ==
    ASSUME NEW h, NEW nw, GoodDeque(h, nw), NEW at \in 1 .. Len(h)
    PROVE  Cardinality(FullSlots(RemovePacket(h, at))) <= Cardinality(FullSlots(h))
<1>1. h \in Seq(Slot)
  BY DEF GoodDeque
<1>2. CASE at = 1
  <2>1. h # <<>> /\ h[1].full
    BY <1>1, <1>2 DEF GoodDeque
  <2>2. PICK k \in 1 .. Len(h) : RemovePacket(h, 1) = DropFront(h, k)
    BY <1>1, <2>1, RemoveFront
  <2>3. k \in 0 .. Len(h)
    OBVIOUS
  <2>4. QED
    BY <1>1, <1>2, <2>2, <2>3, DropCount
<1>3. CASE at # 1
  <2> DEFINE d == [h EXCEPT ![at] = Emptied(h[at])]
  <2>1. RemovePacket(h, at) = d
    BY <1>3 DEF RemovePacket
  <2>2. Emptied(h[at]) \in Slot /\ ~Emptied(h[at]).full
    BY <1>1, EmptiedType, SlotSeqType
  <2>3. /\ Len(d) = Len(h)
        /\ \A j \in 1 .. Len(h) : d[j] = IF j = at THEN Emptied(h[at]) ELSE h[j]
    BY <1>1, <2>2, ExceptSeq
  <2> HIDE DEF d
  <2>4. FullSlots(d) \in SUBSET FullSlots(h)
    BY <2>2, <2>3 DEF FullSlots
  <2>5. QED
    BY <1>1, <2>1, <2>4, FullSlotsFinite, FS_Subset
<1>4. QED
  BY <1>2, <1>3

LEMMA PlacedCount ==
    ASSUME NEW ins \in Seq(Slot), NEW h \in Seq(Slot), NEW packet,
           NEW at \in 1 .. Len(ins), NEW shift \in Nat, Placed(ins, h, packet, at, shift)
    PROVE  Cardinality(FullSlots(ins)) <= Len(h) + 1
<1> DEFINE f == [i \in FullSlots(ins) |-> IF i = at THEN 0 ELSE i - shift]
<1>1. Len(h) \in Nat
  OBVIOUS
<1>2. \A i \in FullSlots(ins) : i \in Int /\ (i # at => i - shift \in 1 .. Len(h))
  BY HoleType DEF FullSlots, Placed
<1>3. f \in [FullSlots(ins) -> 0 .. Len(h)]
  BY <1>1, <1>2
<1>4. \A i, j \in FullSlots(ins) : f[i] = f[j] => i = j
  BY <1>1, <1>2
<1>5. f \in Injection(FullSlots(ins), 0 .. Len(h))
  BY <1>3, <1>4 DEF Injection, IsInjective
<1>6. IsFiniteSet(0 .. Len(h)) /\ Cardinality(0 .. Len(h)) = Len(h) + 1
  BY <1>1, FS_Interval
<1>7. QED
  BY <1>5, <1>6, FS_Injection
-----------------------------------------------------------------------------
(* The priority set makes room for a new packet.                           *)

\* The numbers of retransmissions of the stored packets have a bound: there is
\* no shortest prefix of the deque without one.
LEMMA TimesBounded ==
    ASSUME NEW h \in Seq(Slot)
    PROVE  \E b \in Nat : \A i \in 1 .. Len(h) : h[i].times <= b
<1> DEFINE Bounds(n) == \E b \in Nat : \A i \in 1 .. n : h[i].times <= b
           U == {n \in 0 .. Len(h) : ~Bounds(n)}
<1>1. Len(h) \in Nat /\ Len(h) \in 0 .. Len(h)
  OBVIOUS
<1>2. SUFFICES ASSUME U # {} PROVE FALSE
  <2> HIDE DEF Bounds
  <2>1. U = {} => Bounds(Len(h))
    BY <1>1
  <2>2. QED
    BY <2>1 DEF Bounds
<1>3. U \subseteq Nat
  OBVIOUS
<1>4. PICK n \in U : \A m \in U : n <= m
  BY <1>2, <1>3, MinIsLeast
<1>5. Bounds(0)
  <2>1. 0 \in Nat /\ \A i \in 1 .. 0 : h[i].times <= 0
    OBVIOUS
  <2>2. QED
    BY <2>1
<1> HIDE DEF Bounds
<1>6. n \in 0 .. Len(h) /\ ~Bounds(n)
  BY <1>4
<1>7. n \in 1 .. Len(h) /\ n - 1 \in 0 .. Len(h)
  BY <1>5, <1>6
<1>8. Bounds(n - 1)
  <2>1. n - 1 \notin U
    BY <1>4, <1>7
  <2>2. QED
    BY <1>7, <2>1
<1>9. PICK b \in Nat : \A i \in 1 .. n - 1 : h[i].times <= b
  BY <1>8 DEF Bounds
<1> HIDE DEF U
<1>10. \A i \in 1 .. Len(h) : h[i].times \in Nat
  BY SlotSeqType
<1>11. PICK c \in Nat : b <= c /\ h[n].times <= c
  <2>1. h[n].times \in Nat
    BY <1>7, <1>10
  <2>2. CASE b <= h[n].times
    BY <2>1, <2>2
  <2>3. CASE ~(b <= h[n].times)
    BY <2>1, <2>3
  <2>4. QED
    BY <2>2, <2>3
<1>12. \A i \in 1 .. n : h[i].times <= c
  <2>1. SUFFICES ASSUME NEW i \in 1 .. n PROVE h[i].times <= c
    OBVIOUS
  <2>2. CASE i = n
    BY <1>11, <2>2
  <2>3. CASE i # n
    <3>1. i \in 1 .. n - 1 /\ i \in 1 .. Len(h)
      BY <1>7, <2>3
    <3>2. h[i].times <= b /\ h[i].times \in Nat
      BY <1>9, <1>10, <3>1
    <3>3. QED
      BY <1>11, <3>2
  <2>4. QED
    BY <2>2, <2>3
<1>13. QED
  BY <1>6, <1>12 DEF Bounds

\* The packet MoreUseful ranks last exists, so PutRtpPacket erases one.
LEMMA LeastUsefulExists ==
    ASSUME NEW h \in Seq(Slot), NEW prio, prio \subseteq Nat, prio # {},
           \A m \in prio : \E i \in 1 .. Len(h) : h[i].full /\ h[i].order = m
    PROVE  LeastUseful(h, prio) \in prio
<1> DEFINE T == {TimesOf(h, m) : m \in prio}
<1>1. PICK b \in Nat : \A i \in 1 .. Len(h) : h[i].times <= b
  BY TimesBounded
<1>2. ASSUME NEW m \in prio PROVE TimesOf(h, m) \in 0 .. b
  <2> DEFINE i == CHOOSE i \in 1 .. Len(h) : h[i].full /\ h[i].order = m
  <2>1. i \in 1 .. Len(h)
    OBVIOUS
  <2>2. TimesOf(h, m) = h[i].times
    BY DEF TimesOf
  <2> HIDE DEF i
  <2>3. h[i].times \in Nat /\ h[i].times <= b
    BY <1>1, <2>1, SlotSeqType
  <2>4. QED
    BY <2>2, <2>3
<1>3. T \subseteq 0 .. b /\ T # {}
  BY <1>2
<1>4. PICK t \in T : \A u \in T : u <= t
  BY <1>3, MaxIsGreatest
<1> DEFINE B == {m \in prio : TimesOf(h, m) = t}
<1>5. B # {} /\ B \subseteq Nat
  BY <1>4
<1>6. PICK l \in B : \A c \in B : l <= c
  BY <1>5, MinIsLeast
<1>7. \A n \in prio \ {l} : MoreUseful(h, n, l)
  <2>1. SUFFICES ASSUME NEW n \in prio \ {l} PROVE MoreUseful(h, n, l)
    OBVIOUS
  <2>2. TimesOf(h, l) = t /\ l \in prio
    BY <1>6
  <2>3. TimesOf(h, n) <= t /\ TimesOf(h, n) \in Nat /\ t \in Nat /\ n \in Nat /\ l \in Nat
    BY <1>2, <1>4, <2>2
  <2>4. TimesOf(h, n) = t => n > l
    BY <1>6, <2>3
  <2>5. QED
    BY <2>2, <2>3, <2>4 DEF MoreUseful
<1>8. QED
  BY <1>6, <1>7 DEF LeastUseful

LEMMA InsertCount ==
    ASSUME NEW h \in Seq(Slot), NEW prio, prio \subseteq Nat, IsFiniteSet(prio),
           \A m \in prio : \E i \in 1 .. Len(h) : h[i].full /\ h[i].order = m,
           NEW order, Cardinality(prio) <= kMaxPaddingHistory - 1
    PROVE  Cardinality(InsertIntoPriority(h, prio, order)) <= kMaxPaddingHistory - 1
<1>1. /\ Cardinality(prio) \in Nat /\ kMaxPaddingHistory \in Nat /\ kMaxPaddingHistory >= 2
      /\ EnablePaddingPrio \in BOOLEAN
  BY FS_CardinalityType, DurationAssumption
<1>2. CASE ~EnablePaddingPrio
  BY <1>2 DEF InsertIntoPriority
<1>3. CASE EnablePaddingPrio /\ Cardinality(prio) >= kMaxPaddingHistory - 1
  <2> DEFINE l == LeastUseful(h, prio)
             rest == prio \ {l}
  <2>1. prio # {}
    BY <1>1, <1>3, FS_EmptySet
  <2>2. l \in prio
    BY <2>1, LeastUsefulExists
  <2>3. IsFiniteSet(rest) /\ Cardinality(rest) = Cardinality(prio) - 1
    BY <2>2, FS_RemoveElement
  <2>4. InsertIntoPriority(h, prio, order) = rest \cup {order}
    BY <1>3 DEF InsertIntoPriority
  <2> HIDE DEF rest
  <2>5. Cardinality(rest \cup {order}) \in {Cardinality(rest), Cardinality(rest) + 1}
    BY <2>3, FS_AddElement
  <2>6. QED
    BY <1>1, <2>3, <2>4, <2>5
<1>4. CASE EnablePaddingPrio /\ ~(Cardinality(prio) >= kMaxPaddingHistory - 1)
  <2>1. InsertIntoPriority(h, prio, order) = prio \cup {order}
    BY <1>4 DEF InsertIntoPriority
  <2>2. Cardinality(prio \cup {order}) \in {Cardinality(prio), Cardinality(prio) + 1}
    BY FS_AddElement
  <2>3. QED
    BY <1>1, <1>4, <2>1, <2>2
<1>5. QED
  BY <1>1, <1>2, <1>3, <1>4

\* The priority set is finite: its members are insertion orders.
LEMMA PriorityFinite ==
    ASSUME IInv, NEW prio \in SUBSET padding_priority_
    PROVE  /\ IsFiniteSet(prio) /\ Cardinality(prio) \in Nat
           /\ Cardinality(prio) <= Cardinality(padding_priority_)
<1>1. padding_priority_ \in SUBSET Nat /\ packets_inserted_ \in Nat
  BY DEF IInv, TypeOK
<1>2. ASSUME NEW m \in padding_priority_ PROVE m <= packets_inserted_
  <2>1. PICK i \in 1 .. Len(packet_history_) : packet_history_[i].full /\ packet_history_[i].order = m
    BY DEF IInv, GoodPriority
  <2>2. m < packets_inserted_ /\ m \in Nat
    BY <1>1, <2>1 DEF IInv, GoodOrders
  <2>3. QED
    BY <1>1, <2>2
<1>3. IsFiniteSet(padding_priority_)
  BY <1>1, <1>2, FS_BoundedSetOfNaturals
<1>4. IsFiniteSet(prio) /\ Cardinality(prio) <= Cardinality(padding_priority_)
  BY <1>3, FS_Subset
<1>5. QED
  BY <1>4, FS_CardinalityType
-----------------------------------------------------------------------------
(* The operations keep the limits.                                         *)

LEMMA PrioritySubset ==
    ASSUME NEW h, NEW prio, NEW slot, NEW t, NEW rtt, NEW n
    PROVE  /\ EraseFromPriority(h, prio, slot) \in SUBSET prio
           /\ CullPriority(h, prio, t, rtt, n) \in SUBSET prio
  BY DEF EraseFromPriority, CullPriority

\* A deque with no more populated slots and a priority set with no new member.
LEMMA SmallerKeepsLimits ==
    ASSUME IInv, WithinLimits, IInv',
           \/ Len(packet_history_') <= kMaxCapacity
           \/ Cardinality(FullSlots(packet_history_')) <= Cardinality(FullSlots(packet_history_)),
           padding_priority_' \in SUBSET padding_priority_
    PROVE  WithinLimits'
<1>1. packet_history_ \in Seq(Slot) /\ packet_history_' \in Seq(Slot)
  BY DEF IInv, TypeOK
<1>2. /\ Cardinality(FullSlots(packet_history_)) \in Nat
      /\ Cardinality(FullSlots(packet_history_')) \in Nat
      /\ Cardinality(FullSlots(packet_history_')) <= Len(packet_history_')
      /\ Len(packet_history_') \in Nat
  BY <1>1, FullSlotsFinite
<1>3. Cardinality(FullSlots(packet_history_)) <= kMaxCapacity
  BY DEF WithinLimits, FullSlots
<1>4. Cardinality(FullSlots(packet_history_')) <= kMaxCapacity
  BY <1>2, <1>3, SpanAssumption
<1>5. padding_priority_ \in SUBSET padding_priority_
  OBVIOUS
<1>6. /\ Cardinality(padding_priority_') \in Nat /\ Cardinality(padding_priority_) \in Nat
      /\ Cardinality(padding_priority_') <= Cardinality(padding_priority_)
  BY <1>5, PriorityFinite
<1>7. Cardinality(padding_priority_') <= kMaxPaddingHistory - 1
  BY <1>6, DurationAssumption DEF WithinLimits
<1>8. QED
  BY <1>4, <1>7 DEF WithinLimits, FullSlots

LEMMA PutKeepsLimits ==
    ASSUME IInv, WithinLimits, IInv', Enabled,
           NEW s \in SeqNo, NEW sent \in Nat \cup {NoTime}, PutRtpPacket(s, sent)
    PROVE  WithinLimits'
<1> DEFINE packet == StoredPacket(s, sent, packets_inserted_)
           h == MadeReady(s)
           prio == ReadyPriority(s)
           ins == Inserted(h, packet)
<1>1. newest \in SeqNo /\ packets_inserted_ \in Nat /\ padding_priority_ \subseteq Nat
  BY DEF IInv, TypeOK
<1>2. /\ s \in PutWindow /\ packet_history_' = ins
      /\ padding_priority_' = InsertIntoPriority(ins, prio, packet.order)
  BY DEF PutRtpPacket
<1>3. /\ packet \in Slot /\ packet.full /\ packet.seq = s
      /\ ~packet.pending => packet.sent # NoTime
  BY <1>1, StoredPacketType
<1> HIDE DEF packet
<1>4. /\ GoodDeque(h, newest) /\ GoodPriority(h, prio)
      /\ Len(h) < kMaxCapacity /\ NotStored(h, s)
  BY ReadyIsGood
<1>5. prio \in SUBSET padding_priority_
  <2> DEFINE c == CullOldPackets(packet_history_, now, rtt_ms_, number_to_store_)
             p == CullPriority(packet_history_, padding_priority_, now, rtt_ms_, number_to_store_)
             at == GetStoredPacket(c, s)
  <2>1. prio = IF at # 0 THEN EraseFromPriority(c, p, c[at]) ELSE p
    BY DEF ReadyPriority
  <2>2. p \in SUBSET padding_priority_ /\ EraseFromPriority(c, p, c[at]) \in SUBSET p
    BY PrioritySubset
  <2> HIDE DEF p, c
  <2>3. QED
    BY <2>1, <2>2
<1> HIDE DEF h, prio
<1>6. PICK at \in 1 .. Len(ins), shift \in Nat : Placed(ins, h, packet, at, shift)
  BY <1>1, <1>2, <1>3, <1>4, InsertedDeque
<1>7. GoodDeque(ins, Newer(s))
  BY <1>1, <1>2, <1>3, <1>4, InsertedDeque
<1> HIDE DEF ins
<1>8. ins \in Seq(Slot) /\ h \in Seq(Slot)
  BY <1>4, <1>7 DEF GoodDeque
<1>9. Cardinality(FullSlots(ins)) <= kMaxCapacity
  <2>1. Cardinality(FullSlots(ins)) <= Len(h) + 1 /\ Cardinality(FullSlots(ins)) \in Nat
    BY <1>6, <1>8, PlacedCount, FullSlotsFinite
  <2>2. Len(h) \in Nat
    BY <1>8
  <2>3. QED
    BY <1>4, <2>1, <2>2, SpanAssumption
<1>10. Cardinality(InsertIntoPriority(ins, prio, packet.order)) <= kMaxPaddingHistory - 1
  <2>1. padding_priority_ \in SUBSET padding_priority_
    OBVIOUS
  <2>2. /\ IsFiniteSet(prio) /\ Cardinality(prio) <= Cardinality(padding_priority_)
        /\ Cardinality(prio) \in Nat /\ Cardinality(padding_priority_) \in Nat
    BY <1>5, <2>1, PriorityFinite
  <2>3. Cardinality(prio) <= kMaxPaddingHistory - 1
    BY <2>2, DurationAssumption DEF WithinLimits
  <2>4. \A m \in prio : \E i \in 1 .. Len(ins) : ins[i].full /\ ins[i].order = m
    BY <1>4, <1>6, <1>8, PlacedKeeps
  <2>5. prio \subseteq Nat
    BY <1>1, <1>5
  <2>6. QED
    BY <1>8, <2>2, <2>3, <2>4, <2>5, InsertCount
<1>11. QED
  BY <1>2, <1>9, <1>10 DEF WithinLimits, FullSlots

LEMMA UpdateKeepsLimits ==
    ASSUME IInv, WithinLimits, IInv', NEW at \in 1 .. Len(packet_history_),
           packet_history_[at].full, NEW slot, Update(at, slot)
    PROVE  WithinLimits'
<1> DEFINE h == packet_history_
<1>1. h \in Seq(Slot) /\ h' = [h EXCEPT ![at] = slot] /\ padding_priority_' = padding_priority_
  BY DEF IInv, TypeOK, Update
<1>2. Len(h') = Len(h) /\ \A j \in 1 .. Len(h) : j # at => h'[j] = h[j]
  BY <1>1
<1>3. FullSlots(h') \in SUBSET FullSlots(h)
  BY <1>2 DEF FullSlots
<1>4. Cardinality(FullSlots(h')) <= Cardinality(FullSlots(h))
  BY <1>1, <1>3, FullSlotsFinite, FS_Subset
<1>5. QED
  BY <1>1, <1>4, SmallerKeepsLimits

LEMMA StepKeepsLimits ==
    ASSUME IInv, WithinLimits, [Next]_vars, IInv'
    PROVE  WithinLimits'
<1> DEFINE h == packet_history_
<1>1. /\ h \in Seq(Slot) /\ now \in Nat /\ number_to_store_ \in Nat /\ newest \in SeqNo
      /\ packets_inserted_ \in Nat /\ GoodDeque(h, newest)
  BY SpanAssumption DEF IInv, TypeOK
<1>2. ASSUME UNCHANGED <<packet_history_, padding_priority_>> PROVE WithinLimits'
  BY <1>2 DEF WithinLimits
<1>3. ASSUME packet_history_' = <<>>, padding_priority_' = {} PROVE WithinLimits'
  BY <1>3, SmallerKeepsLimits, SpanAssumption
<1>4. ASSUME NEW r \in Rtts, SetRtt(r) PROVE WithinLimits'
  <2>1. CASE Enabled
    <3> DEFINE c == CullOldPackets(h, now, r, number_to_store_)
    <3>1. r \in Int
      BY DurationAssumption
    <3>2. Len(c) < kMaxCapacity /\ GoodDeque(c, newest)
      BY <1>1, <3>1, CullGood DEF IInv
    <3>3. h' = c /\ padding_priority_' = CullPriority(h, padding_priority_, now, r, number_to_store_)
      BY <1>4, <2>1 DEF SetRtt
    <3>4. padding_priority_' \in SUBSET padding_priority_
      BY <3>3, PrioritySubset
    <3>5. Len(h') <= kMaxCapacity
      <4> HIDE DEF c
      <4>1. Len(c) \in Nat
        BY <3>2 DEF GoodDeque
      <4>2. QED
        BY <3>2, <3>3, <4>1, SpanAssumption
    <3>6. QED
      BY <3>4, <3>5, SmallerKeepsLimits
  <2>2. CASE ~Enabled
    BY <1>2, <1>4, <2>2 DEF SetRtt
  <2>3. QED
    BY <2>1, <2>2
<1>5. ASSUME NEW s \in SeqNo, PutRtpPacket(s, now) \/ PutRtpPacket(s, NoTime) PROVE WithinLimits'
  <2>1. CASE Enabled
    BY <1>1, <1>5, <2>1, PutKeepsLimits
  <2>2. CASE ~Enabled
    BY <1>2, <1>5, <2>2 DEF PutRtpPacket
  <2>3. QED
    BY <2>1, <2>2
<1>6. ASSUME NEW s \in SeqNo,
             \/ GetPacketAndSetSendTime(s) \/ GetPacketAndMarkAsPending(s)
             \/ MarkPacketAsSent(s) \/ SetPendingTransmission(s)
      PROVE  WithinLimits'
  <2>1. GetStoredPacket(h, s) # 0 /\ \E slot : Update(GetStoredPacket(h, s), slot)
    BY <1>6 DEF GetPacketAndSetSendTime, GetPacketAndMarkAsPending, MarkPacketAsSent,
                SetPendingTransmission, MayRetransmit
  <2>2. GetStoredPacket(h, s) \in 1 .. Len(h) /\ h[GetStoredPacket(h, s)].full
    BY <1>1, <2>1, FoundIsStored
  <2>3. QED
    BY <2>1, <2>2, UpdateKeepsLimits
<1>7. ASSUME GetPayloadPaddingPacket PROVE WithinLimits'
  <2>1. PaddingChoice # 0 /\ \E slot : Update(PaddingChoice, slot)
    BY <1>7 DEF GetPayloadPaddingPacket
  <2>2. PaddingChoice \in 1 .. Len(h) /\ h[PaddingChoice].full
    BY <2>1, PaddingChoiceIsStored
  <2>3. QED
    BY <2>1, <2>2, UpdateKeepsLimits
<1>8. ASSUME NEW s \in SeqNo, CullAcknowledgedPacket(s) PROVE WithinLimits'
  <2> DEFINE at == GetPacketIndex(h, s) + 1
  <2>1. /\ GetPacketIndex(h, s) >= 0 /\ GetPacketIndex(h, s) < Len(h)
        /\ h' = RemovePacket(h, at)
        /\ padding_priority_' = EraseFromPriority(h, padding_priority_, h[at])
    BY <1>8 DEF CullAcknowledgedPacket
  <2>2. GetPacketIndex(h, s) \in Int
    <3>1. h # <<>> => h[1].seq \in SeqNo
      BY <1>1, SlotSeqType
    <3>2. QED
      BY <3>1, SpanAssumption DEF GetPacketIndex, IndexFrom, SeqNo
  <2>3. at \in 1 .. Len(h)
    BY <1>1, <2>1, <2>2
  <2> HIDE DEF at
  <2>4. padding_priority_' \in SUBSET padding_priority_
    BY <2>1, PrioritySubset
  <2>5. Cardinality(FullSlots(h')) <= Cardinality(FullSlots(h))
    BY <1>1, <2>1, <2>3, RemoveCount
  <2>6. QED
    BY <2>4, <2>5, SmallerKeepsLimits
<1>9. ASSUME NEW m, NEW n, SetStorePacketsStatus(m, n) PROVE WithinLimits'
  BY <1>3, <1>9 DEF SetStorePacketsStatus
<1>10. ASSUME Clear PROVE WithinLimits'
  BY <1>3, <1>10 DEF Clear
<1>11. ASSUME Tick \/ UNCHANGED vars PROVE WithinLimits'
  BY <1>2, <1>11 DEF Tick, vars
<1>12. QED
  BY <1>4, <1>5, <1>6, <1>7, <1>8, <1>9, <1>10, <1>11 DEF Next
-----------------------------------------------------------------------------
(* Culling.                                                                *)

LEMMA DurationType ==
    ASSUME NEW rtt \in Int
    PROVE  PacketDuration(rtt) \in Int
<1>1. kMinPacketDurationRtt \in Int /\ kMinPacketDurationMs \in Int
  BY DurationAssumption
<1>2. kMinPacketDurationRtt * rtt \in Int
  BY <1>1
<1>3. QED
  BY <1>1, <1>2 DEF PacketDuration

\* CullOldPackets stops no later than at the first populated slot it keeps.
LEMMA CullPointLeast ==
    ASSUME NEW h \in Seq(Slot), NEW t, NEW rtt, NEW n, NEW i \in 1 .. Len(h), h[i].full,
           ~RemovedByCulling(h[i], Len(h) - (i - 1), t, rtt, n)
    PROVE  CullPoint(h, t, rtt, n) <= i - 1
<1> DEFINE S == {j \in 0 .. Len(h) :
                    \/ j = Len(h)
                    \/ /\ h[j + 1].full
                       /\ ~RemovedByCulling(h[j + 1], Len(h) - j, t, rtt, n)}
<1>1. i - 1 \in 0 .. Len(h) /\ (i - 1) + 1 = i
  OBVIOUS
<1>2. i - 1 \in S
  BY <1>1
<1>3. S \subseteq Nat
  OBVIOUS
<1>4. CullPoint(h, t, rtt, n) = Min(S)
  BY DEF CullPoint
<1> HIDE DEF S
<1>5. QED
  BY <1>2, <1>3, <1>4, MinIsLeast

LEMMA SetRttSparesLive ==
    ASSUME IInv, IInv', NEW r \in Rtts, SetRtt(r), Len(packet_history_) < kMaxCapacity,
           NEW i \in 1 .. Len(packet_history_), packet_history_[i].full,
           \/ packet_history_[i].pending
           \/ packet_history_[i].sent + PacketDuration(rtt_ms_') > now
    PROVE  GetStoredPacket(packet_history_', packet_history_[i].seq) # 0
<1> DEFINE h == packet_history_
           n == number_to_store_
           k == CullPoint(h, now, r, n)
<1>1. /\ h \in Seq(Slot) /\ h' \in Seq(Slot) /\ now \in Nat /\ n \in Nat
      /\ newest' \in SeqNo /\ GoodDeque(h', newest')
  BY SpanAssumption DEF IInv, TypeOK
<1>2. Enabled /\ r \in Int
  BY <1>1, DurationAssumption DEF IInv
<1>3. h' = DropFront(h, k) /\ rtt_ms_' = r
  BY <1>2 DEF SetRtt, CullOldPackets
<1>4. ~RemovedByCulling(h[i], Len(h) - (i - 1), now, r, n)
  <2>1. Len(h) - (i - 1) < kMaxCapacity /\ Len(h) - (i - 1) \in Int
    BY <1>1, SpanAssumption
  <2>2. h[i].sent \in Int
    <3>1. h[i] \in Slot
      BY <1>1, SlotSeqType
    <3>2. QED
      BY <3>1 DEF Slot, NoTime
  <2>3. PacketDuration(r) \in Int
    BY <1>2, DurationType
  <2>4. h[i].pending \/ ~(h[i].sent + PacketDuration(r) <= now)
    BY <1>1, <1>3, <2>2, <2>3
  <2>5. QED
    BY <2>1, <2>4, SpanAssumption DEF RemovedByCulling
<1>5. k <= i - 1
  BY <1>1, <1>4, CullPointLeast
<1>6. k \in 0 .. Len(h)
  BY <1>1, <1>2, CullPointProperty
<1> HIDE DEF k
<1>7. /\ Len(h') = Len(h) - k
      /\ \A j \in 1 .. Len(h) - k : h'[j] = h[j + k]
  BY <1>1, <1>3, <1>6, DropFrontType
<1>8. i - k \in 1 .. Len(h') /\ (i - k) + k = i /\ i - k # 0
  BY <1>1, <1>5, <1>6, <1>7
<1>9. h'[i - k] = h[i]
  BY <1>7, <1>8
<1>10. GetStoredPacket(h', h'[i - k].seq) = i - k
  BY <1>1, <1>8, <1>9, StoredIsFound
<1>11. QED
  BY <1>8, <1>9, <1>10
-----------------------------------------------------------------------------
(* The theorems.                                                           *)

\* The deque never holds more than kMaxCapacity packets and the priority set
\* stays below kMaxPaddingHistory, whatever gaps make of the deque's length.
THEOREM LimitsKept == Spec => []WithinLimits
<1>1. Init => WithinLimits
  <2>1. SUFFICES ASSUME Init PROVE WithinLimits
    OBVIOUS
  <2>2. {i \in 1 .. Len(packet_history_) : packet_history_[i].full} = {} /\ padding_priority_ = {}
    BY <2>1 DEF Init
  <2>3. QED
    BY <2>2, FS_EmptySet, SpanAssumption, DurationAssumption DEF WithinLimits
<1>2. IInv /\ IInv' /\ WithinLimits /\ [Next]_vars => WithinLimits'
  BY StepKeepsLimits
<1>3. QED
  BY <1>1, <1>2, InductiveInvariant, PTL DEF Spec

\* SetRtt culls no packet that is pending or recently sent, unless the deque is
\* at capacity.
THEOREM CullingSpares == Spec => CullingSparesLivePackets
<1>1. IInv /\ IInv' => [CullingSparesLive]_vars
  <2>1. SUFFICES ASSUME IInv, IInv' PROVE CullingSparesLive
    OBVIOUS
  <2>2. QED
    BY <2>1, SetRttSparesLive DEF CullingSparesLive
<1>2. QED
  BY <1>1, InductiveInvariant, PTL DEF CullingSparesLivePackets
=============================================================================
