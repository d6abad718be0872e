----------------------- MODULE RtpRetransmissionProofs -----------------------
(***************************************************************************)
(* Proofs about the NACK path of RtpRetransmission: no packet is queued    *)
(* twice for retransmission, a pending packet is in the pacer unless it    *)
(* was dropped there, retransmissions are a round-trip time apart.         *)
(***************************************************************************)
EXTENDS RtpRetransmission, RtpPacketHistoryProofs

(* What the operations of the history do to the set of stored packets.     *)

LEMMA StoredMember ==
    ASSUME NEW h \in Seq(Slot)
    PROVE  /\ \A x \in Stored(h) : x \in Slot /\ x.full
           /\ \A x \in Stored(h) : \E i \in 1 .. Len(h) : h[i].full /\ x = h[i]
           /\ \A i \in 1 .. Len(h) : h[i].full => h[i] \in Stored(h)
  BY DEF Stored

LEMMA DropStored ==
    ASSUME NEW h \in Seq(Slot), NEW k \in 0 .. Len(h)
    PROVE  Stored(DropFront(h, k)) \subseteq Stored(h)
<1> DEFINE d == DropFront(h, k)
<1>1. /\ d \in Seq(Slot) /\ Len(d) = Len(h) - k
      /\ \A i \in 1 .. Len(h) - k : d[i] = h[i + k]
  BY DropFrontType
<1> HIDE DEF d
<1>2. ASSUME NEW x \in Stored(d) PROVE x \in Stored(h)
  <2>1. PICK i \in 1 .. Len(d) : d[i].full /\ x = d[i]
    BY <1>1, StoredMember
  <2>2. i + k \in 1 .. Len(h) /\ x = h[i + k] /\ h[i + k].full
    BY <1>1, <2>1
  <2>3. QED
    BY <2>2, StoredMember
<1>3. QED
  BY <1>2 DEF d

LEMMA CullStored ==
    ASSUME NEW h \in Seq(Slot), NEW t \in Nat, NEW rtt \in Int, NEW n \in Nat
    PROVE  Stored(CullOldPackets(h, t, rtt, n)) \subseteq Stored(h)
  BY CullPointProperty, DropStored DEF CullOldPackets

LEMMA RemoveStored ==
    ASSUME NEW h, NEW nw, GoodDeque(h, nw), NEW at \in 1 .. Len(h)
    PROVE  Stored(RemovePacket(h, at)) \subseteq Stored(h)
<1>1. h \in Seq(Slot)
  BY DEF GoodDeque
<1>2. CASE at = 1
  <2>1. h # <<>> /\ h[1].full
    BY <1>1, <1>2 DEF GoodDeque
  <2>2. PICK k \in 1 .. Len(h) : RemovePacket(h, 1) = DropFront(h, k)
    BY <1>1, <2>1, RemoveFront
  <2>3. k \in 0 .. Len(h)
    OBVIOUS
  <2>4. QED
    BY <1>1, <1>2, <2>2, <2>3, DropStored
<1>3. CASE at # 1
  <2> DEFINE d == [h EXCEPT ![at] = Emptied(h[at])]
  <2>1. RemovePacket(h, at) = d
    BY <1>3 DEF RemovePacket
  <2>2. Emptied(h[at]) \in Slot /\ ~Emptied(h[at]).full
    BY <1>1, EmptiedType, SlotSeqType
  <2>3. /\ d \in Seq(Slot) /\ Len(d) = Len(h)
        /\ \A j \in 1 .. Len(h) : d[j] = IF j = at THEN Emptied(h[at]) ELSE h[j]
    BY <1>1, <2>2, ExceptSeq
  <2> HIDE DEF d
  <2>4. ASSUME NEW x \in Stored(d) PROVE x \in Stored(h)
    <3>1. PICK i \in 1 .. Len(d) : d[i].full /\ x = d[i]
      BY <2>3, StoredMember
    <3>2. i \in 1 .. Len(h) /\ x = h[i] /\ h[i].full
      BY <2>2, <2>3, <3>1
    <3>3. QED
      BY <1>1, <3>2, StoredMember
  <2>5. QED
    BY <2>1, <2>4
<1>4. QED
  BY <1>2, <1>3

LEMMA PlacedStored ==
    ASSUME NEW ins \in Seq(Slot), NEW h \in Seq(Slot), NEW packet \in Slot,
           NEW at \in 1 .. Len(ins), NEW shift \in Nat, Placed(ins, h, packet, at, shift)
    PROVE  Stored(ins) \subseteq Stored(h) \cup {packet}
<1>1. ASSUME NEW x \in Stored(ins), x # packet PROVE x \in Stored(h)
  <2>1. PICK i \in 1 .. Len(ins) : ins[i].full /\ x = ins[i]
    BY StoredMember
  <2>2. i - shift \in 1 .. Len(h) /\ x = h[i - shift]
    BY <1>1, <2>1, HoleType DEF Placed
  <2>3. QED
    BY <2>1, <2>2, StoredMember
<1>2. QED
  BY <1>1

\* Updating one slot leaves the others, which have other insertion orders.
LEMMA UpdateStored ==
    ASSUME NEW h \in Seq(Slot), NEW n, GoodOrders(h, n), NEW at \in 1 .. Len(h), h[at].full,
           NEW slot \in Slot
    PROVE  \A x \in Stored([h EXCEPT ![at] = slot]) :
               x = slot \/ (x \in Stored(h) /\ x.order # h[at].order)
<1> DEFINE d == [h EXCEPT ![at] = slot]
<1>1. /\ d \in Seq(Slot) /\ Len(d) = Len(h)
      /\ \A j \in 1 .. Len(h) : d[j] = IF j = at THEN slot ELSE h[j]
  BY ExceptSeq
<1> HIDE DEF d
<1>2. ASSUME NEW x \in Stored(d), x # slot
      PROVE  x \in Stored(h) /\ x.order # h[at].order
  <2>1. PICK i \in 1 .. Len(d) : d[i].full /\ x = d[i]
    BY <1>1, StoredMember
  <2>2. i \in 1 .. Len(h) /\ i # at /\ x = h[i] /\ h[i].full
    BY <1>1, <1>2, <2>1
  <2>3. QED
    BY <2>2, StoredMember DEF GoodOrders
<1>3. QED
  BY <1>2 DEF d
-----------------------------------------------------------------------------
(* Sequence numbers and the retransmissions that wait.                     *)

\* GetStoredPacket finds the packet with the sequence number it is asked for.
LEMMA FoundSeq ==
    ASSUME NEW h, NEW nw \in SeqNo, GoodDeque(h, nw), NEW s \in SeqNo,
           GetStoredPacket(h, s) # 0
    PROVE  h[GetStoredPacket(h, s)].seq = s
<1> DEFINE at == GetStoredPacket(h, s)
<1>1. h \in Seq(Slot)
  BY DEF GoodDeque
<1>2. at \in 1 .. Len(h) /\ h[at].full
  BY <1>1, FoundIsStored
<1>3. h # <<>> /\ 1 \in 1 .. Len(h)
  BY <1>1, <1>2
<1>4. h[1].seq \in SeqNo /\ h[at].seq \in SeqNo
  BY <1>1, <1>2, <1>3, SlotSeqType
<1>5. at = IndexFrom(h[1].seq, s) + 1 /\ IndexFrom(h[1].seq, s) >= 0
  BY <1>3 DEF GetStoredPacket, GetPacketIndex
<1>6. IndexFrom(h[1].seq, s) = Ahead(h[1].seq, s)
  BY <1>4, <1>5, SpanAssumption DEF IndexFrom, IsNewerSequenceNumber, Ahead, SeqNo
<1>7. Ahead(h[1].seq, h[at].seq) = at - 1
  BY <1>2, <1>3 DEF GoodDeque
<1>8. Ahead(h[1].seq, s) \in Nat
  BY <1>4, AheadInt
<1> HIDE DEF at
<1>9. Ahead(h[1].seq, h[at].seq) = Ahead(h[1].seq, s)
  BY <1>5, <1>6, <1>7, <1>8
<1>10. QED
  BY <1>4, <1>9, AheadInjective DEF at

\* Two stored packets have one sequence number exactly when they are one packet.
LEMMA StoredDiffer ==
    ASSUME NEW h, NEW nw \in SeqNo, GoodDeque(h, nw), NEW n, GoodOrders(h, n),
           NEW x \in Stored(h), NEW y \in Stored(h)
    PROVE  x.order = y.order <=> x.seq = y.seq
<1>1. h \in Seq(Slot)
  BY DEF GoodDeque
<1>2. PICK i \in 1 .. Len(h) : h[i].full /\ x = h[i]
  BY <1>1, StoredMember
<1>3. PICK j \in 1 .. Len(h) : h[j].full /\ y = h[j]
  BY <1>1, StoredMember
<1>4. GetStoredPacket(h, x.seq) = i /\ GetStoredPacket(h, y.seq) = j
  BY <1>2, <1>3, StoredIsFound
<1>5. x.order = y.order => i = j
  BY <1>2, <1>3 DEF GoodOrders
<1>6. QED
  BY <1>2, <1>3, <1>4, <1>5

\* One more number is spent: the next one is one further ahead.
LEMMA OneFurther ==
    ASSUME NEW a \in SeqNo, NEW b \in SeqNo, Ahead(a, b) + 1 < SeqSpan
    PROVE  Ahead(a, Plus(b, 1)) = Ahead(a, b) + 1
  BY SpanAssumption DEF Ahead, Plus, SeqNo

LEMMA TailMembers ==
    ASSUME NEW S, NEW s \in Seq(S), s # <<>>
    PROVE  /\ Members(s) = Members(Tail(s)) \cup {Head(s)}
           /\ Tail(s) \in Seq(S) /\ Head(s) \in S
           /\ Len(Tail(s)) = Len(s) - 1
           /\ \A i \in 1 .. Len(Tail(s)) : Tail(s)[i] = s[i + 1]
<1>1. /\ Tail(s) \in Seq(S) /\ Head(s) \in S /\ Len(Tail(s)) = Len(s) - 1
      /\ \A i \in 1 .. Len(Tail(s)) : Tail(s)[i] = s[i + 1]
      /\ Head(s) = s[1] /\ Len(s) \in Nat /\ Len(s) > 0
  OBVIOUS
<1>2. \A x \in Members(s) : x = Head(s) \/ x \in Members(Tail(s))
  <2>1. SUFFICES ASSUME NEW i \in 1 .. Len(s), i # 1 PROVE s[i] \in Members(Tail(s))
    BY <1>1 DEF Members
  <2>2. i - 1 \in 1 .. Len(Tail(s)) /\ Tail(s)[i - 1] = s[i]
    BY <1>1, <2>1
  <2>3. QED
    BY <2>2 DEF Members
<1>3. \A x \in Members(Tail(s)) : x \in Members(s)
  <2>1. SUFFICES ASSUME NEW i \in 1 .. Len(Tail(s)) PROVE Tail(s)[i] \in Members(s)
    BY DEF Members
  <2>2. i + 1 \in 1 .. Len(s) /\ Tail(s)[i] = s[i + 1]
    BY <1>1
  <2>3. QED
    BY <2>2 DEF Members
<1>4. Head(s) \in Members(s)
  BY <1>1 DEF Members
<1>5. QED
  BY <1>1, <1>2, <1>3, <1>4

LEMMA ConcatMembers ==
    ASSUME NEW S, NEW s \in Seq(S), NEW t \in Seq(S)
    PROVE  Members(s \o t) = Members(s) \cup Members(t)
<1>1. /\ s \o t \in Seq(S) /\ Len(s \o t) = Len(s) + Len(t)
      /\ \A i \in 1 .. Len(s \o t) : (s \o t)[i] = IF i <= Len(s) THEN s[i] ELSE t[i - Len(s)]
      /\ Len(s) \in Nat /\ Len(t) \in Nat
  OBVIOUS
<1>2. ASSUME NEW i \in 1 .. Len(s \o t) PROVE (s \o t)[i] \in Members(s) \cup Members(t)
  <2>1. i \in 1 .. Len(s) \/ i - Len(s) \in 1 .. Len(t)
    BY <1>1
  <2>2. QED
    BY <1>1, <2>1 DEF Members
<1>3. ASSUME NEW i \in 1 .. Len(s) PROVE s[i] \in Members(s \o t)
  <2>1. i \in 1 .. Len(s \o t) /\ (s \o t)[i] = s[i]
    BY <1>1
  <2>2. QED
    BY <2>1 DEF Members
<1>4. ASSUME NEW i \in 1 .. Len(t) PROVE t[i] \in Members(s \o t)
  <2>1. i + Len(s) \in 1 .. Len(s \o t) /\ (s \o t)[i + Len(s)] = t[i]
    BY <1>1
  <2>2. QED
    BY <2>1 DEF Members
<1>5. QED
  BY <1>2, <1>3, <1>4 DEF Members

LEMMA OneElement ==
    ASSUME NEW S, NEW s \in Seq(S), s # <<>>, Len(s) <= 1
    PROVE  Len(s) = 1
<1>1. Len(s) \in Nat /\ Len(s) # 0
  BY EmptySeq
<1>2. QED
  BY <1>1

LEMMA ConcatOne ==
    ASSUME NEW S, NEW s \in Seq(S), NEW t \in Seq(S), Len(t) = 1
    PROVE  /\ s \o t \in Seq(S) /\ Len(s \o t) = Len(s) + 1
           /\ \A i \in 1 .. Len(s) : (s \o t)[i] = s[i]
           /\ (s \o t)[Len(s) + 1] = t[1] /\ Len(s) \in Nat
<1>1. /\ s \o t \in Seq(S) /\ Len(s \o t) = Len(s) + Len(t) /\ Len(s) \in Nat
      /\ \A i \in 1 .. Len(s) + Len(t) :
             (s \o t)[i] = IF i <= Len(s) THEN s[i] ELSE t[i - Len(s)]
  BY ConcatProperties, LenProperties, Zenon
<1>2. QED
  BY <1>1

LEMMA WaitingType ==
    ASSUME RTyped
    PROVE  /\ Waiting \subseteq Retransmission
           /\ \A x \in Waiting : x.seq \in SeqNo /\ x.order \in Nat /\ x.rtt \in Int
<1>1. in_hand \in Seq(Retransmission) /\ pacer_retransmissions \in Seq(Retransmission)
  BY DEF RTyped, GoodNack
<1>2. Waiting \subseteq Retransmission
  BY <1>1 DEF Waiting, Members
<1>3. QED
  BY <1>2 DEF Retransmission
-----------------------------------------------------------------------------
(* What the operations the NACK path uses do to the stored packets.        *)

LEMMA SetRttShrinks ==
    ASSUME IInv, Enabled, NEW rtt \in Nat, SetRtt(rtt)
    PROVE  /\ Stored(packet_history_') \subseteq Stored(packet_history_)
           /\ UNCHANGED <<now, mode_, packets_inserted_, newest>>
<1>1. /\ packet_history_ \in Seq(Slot) /\ now \in Nat
      /\ number_to_store_ \in Nat /\ rtt \in Int
  BY SpanAssumption DEF IInv, TypeOK
<1>2. /\ packet_history_' = CullOldPackets(packet_history_, now, rtt, number_to_store_)
      /\ UNCHANGED <<now, mode_, packets_inserted_, newest>>
  BY <1>1 DEF SetRtt, config
<1>3. QED
  BY <1>1, <1>2, CullStored

LEMMA AckShrinks ==
    ASSUME IInv, NEW s \in SeqNo, CullAcknowledgedPacket(s)
    PROVE  /\ Stored(packet_history_') \subseteq Stored(packet_history_)
           /\ UNCHANGED <<now, mode_, packets_inserted_, newest>>
<1> DEFINE h == packet_history_
           at == GetPacketIndex(h, s) + 1
<1>1. /\ h' = RemovePacket(h, at) /\ GetPacketIndex(h, s) >= 0 /\ GetPacketIndex(h, s) < Len(h)
      /\ UNCHANGED <<now, mode_, packets_inserted_, newest>>
  BY DEF CullAcknowledgedPacket, config
<1>2. h \in Seq(Slot) /\ GoodDeque(h, newest)
  BY DEF IInv, TypeOK
<1>3. at \in 1 .. Len(h)
  <2>1. h # <<>> => h[1].seq \in SeqNo
    BY <1>2, SlotSeqType
  <2>2. GetPacketIndex(h, s) \in Int
    BY <2>1, SpanAssumption DEF GetPacketIndex, IndexFrom, SeqNo
  <2>3. QED
    BY <1>1, <1>2, <2>2
<1> HIDE DEF at
<1>4. Stored(h') \subseteq Stored(h)
  BY <1>1, <1>2, <1>3, RemoveStored
<1>5. QED
  BY <1>1, <1>4

\* PutRtpPacket stores the packet and may cull others.
LEMMA PutStores ==
    ASSUME IInv, Enabled, NEW s \in SeqNo, PutRtpPacket(s, now)
    PROVE  \E packet \in Slot :
               /\ packet.seq = s /\ packet.order = packets_inserted_
               /\ ~packet.pending /\ packet.sent # NoTime
               /\ Stored(packet_history_') \subseteq Stored(packet_history_) \cup {packet}
<1> DEFINE h == MadeReady(s)
           packet == StoredPacket(s, now, packets_inserted_)
           ins == Inserted(h, packet)
<1>1. /\ newest \in SeqNo /\ packets_inserted_ \in Nat /\ now \in Nat
      /\ packet_history_ \in Seq(Slot) /\ rtt_ms_ \in Int /\ number_to_store_ \in Nat
  BY SpanAssumption DEF IInv, TypeOK
<1>2. s \in PutWindow /\ packet_history_' = ins
  BY DEF PutRtpPacket
<1>3. /\ packet \in Slot /\ packet.full /\ packet.seq = s /\ packet.order = packets_inserted_
      /\ ~packet.pending /\ packet.sent # NoTime
  <2>1. now # NoTime
    BY <1>1 DEF NoTime
  <2>2. ~packet.pending /\ packet.sent = now
    BY <2>1 DEF StoredPacket
  <2>3. QED
    BY <1>1, <2>1, <2>2, StoredPacketType
<1> HIDE DEF packet
<1>4. /\ GoodDeque(h, newest) /\ Len(h) < kMaxCapacity /\ NotStored(h, s)
  BY ReadyIsGood
<1>5. Stored(h) \subseteq Stored(packet_history_)
  <2> DEFINE c == CullOldPackets(packet_history_, now, rtt_ms_, number_to_store_)
             at == GetStoredPacket(c, s)
  <2>1. h = IF at # 0 THEN RemovePacket(c, at) ELSE c
    BY DEF MadeReady
  <2>2. Stored(c) \subseteq Stored(packet_history_)
    BY <1>1, CullStored
  <2>3. GoodDeque(c, newest)
    BY <1>1, CullGood DEF IInv
  <2> HIDE DEF c, h
  <2>4. ASSUME at # 0 PROVE Stored(RemovePacket(c, at)) \subseteq Stored(c)
    <3>1. at \in 1 .. Len(c)
      BY <2>3, <2>4, FoundIsStored DEF GoodDeque
    <3>2. QED
      BY <2>3, <3>1, RemoveStored
  <2>5. QED
    BY <2>1, <2>2, <2>4
<1> HIDE DEF h
<1>6. /\ GoodDeque(ins, Newer(s))
      /\ \E at \in 1 .. Len(ins), shift \in Nat : Placed(ins, h, packet, at, shift)
  BY <1>1, <1>2, <1>3, <1>4, InsertedDeque
<1> HIDE DEF ins
<1>7. ins \in Seq(Slot) /\ h \in Seq(Slot)
  BY <1>4, <1>6 DEF GoodDeque
<1>8. Stored(ins) \subseteq Stored(h) \cup {packet}
  BY <1>3, <1>6, <1>7, PlacedStored
<1>9. QED
  BY <1>2, <1>3, <1>5, <1>8

\* One stored packet is updated; it stays the same packet.
Rewritten(h, h2, slot, new) ==
    /\ slot \in Stored(h) /\ new \in Slot
    /\ new.order = slot.order /\ new.seq = slot.seq
    /\ \A x \in Stored(h2) : x = new \/ (x \in Stored(h) /\ x.order # slot.order)

LEMMA MarkRewrites ==
    ASSUME IInv, NEW s \in SeqNo, GetPacketAndMarkAsPending(s)
    PROVE  LET slot == packet_history_[GetStoredPacket(packet_history_, s)]
           IN  /\ slot.seq = s /\ ~slot.pending /\ VerifyRtt(slot)
               /\ UNCHANGED <<now, mode_, packets_inserted_, newest>>
               /\ \E new : /\ Rewritten(packet_history_, packet_history_', slot, new)
                           /\ new.pending /\ new.sent = slot.sent /\ new.times = slot.times
<1> DEFINE h == packet_history_
           at == GetStoredPacket(h, s)
           slot == h[at]
           new == [slot EXCEPT !.pending = TRUE]
<1>1. h \in Seq(Slot) /\ newest \in SeqNo /\ GoodDeque(h, newest)
  BY DEF IInv, TypeOK
<1>2. at # 0 /\ ~slot.pending /\ VerifyRtt(slot) /\ Update(at, new)
  BY DEF GetPacketAndMarkAsPending, MayRetransmit
<1>3. at \in 1 .. Len(h) /\ slot.full /\ slot \in Slot
  BY <1>1, <1>2, FoundIsStored
<1>4. slot.seq = s
  BY <1>1, <1>2, FoundSeq
<1>5. /\ h' = [h EXCEPT ![at] = new]
      /\ UNCHANGED <<now, mode_, packets_inserted_, newest>>
  BY <1>2 DEF Update, config
<1> HIDE DEF at
<1>6. /\ new \in Slot /\ new.pending /\ new.order = slot.order /\ new.seq = slot.seq
      /\ new.sent = slot.sent /\ new.times = slot.times
  BY <1>3 DEF Slot
<1> HIDE DEF new
<1>7. \A x \in Stored(h') : x = new \/ (x \in Stored(h) /\ x.order # slot.order)
  BY <1>1, <1>3, <1>5, <1>6, UpdateStored DEF IInv
<1>8. slot \in Stored(h)
  BY <1>1, <1>3, StoredMember
<1> HIDE DEF slot
<1>9. Rewritten(h, h', slot, new)
  BY <1>6, <1>7, <1>8 DEF Rewritten
<1>10. QED
  BY <1>2, <1>4, <1>5, <1>6, <1>9 DEF at, slot

LEMMA MarkSentRewrites ==
    ASSUME IInv, NEW s \in SeqNo, MarkPacketAsSent(s)
    PROVE  /\ UNCHANGED <<now, mode_, packets_inserted_, newest>>
           /\ \E slot, new : /\ Rewritten(packet_history_, packet_history_', slot, new)
                             /\ slot.seq = s /\ ~new.pending /\ new.sent # NoTime
<1> DEFINE h == packet_history_
           at == GetStoredPacket(h, s)
           slot == h[at]
           new == [Retransmitted(slot) EXCEPT !.sent = now, !.pending = FALSE]
<1>1. h \in Seq(Slot) /\ newest \in SeqNo /\ GoodDeque(h, newest) /\ now \in Nat
  BY DEF IInv, TypeOK
<1>2. at # 0 /\ Update(at, new)
  BY DEF MarkPacketAsSent
<1>3. at \in 1 .. Len(h) /\ slot.full /\ slot \in Slot
  BY <1>1, <1>2, FoundIsStored
<1>4. slot.seq = s
  BY <1>1, <1>2, FoundSeq
<1>5. /\ h' = [h EXCEPT ![at] = new]
      /\ UNCHANGED <<now, mode_, packets_inserted_, newest>>
  BY <1>2 DEF Update, config
<1> HIDE DEF at
<1>6. /\ new \in Slot /\ new.order = slot.order /\ new.seq = slot.seq
      /\ new.sent # NoTime /\ ~new.pending
  <2> DEFINE r == Retransmitted(slot)
  <2>1. r \in Slot /\ r.full /\ r.seq = slot.seq /\ r.order = slot.order
    BY <1>3 DEF Slot, Retransmitted
  <2>2. new = [r EXCEPT !.sent = now, !.pending = FALSE]
    OBVIOUS
  <2> HIDE DEF r, new
  <2>3. ~[r EXCEPT !.sent = now, !.pending = FALSE].pending
    BY <2>1 DEF Slot
  <2>4. QED
    BY <1>1, <2>1, <2>2, <2>3, SentSlot
<1> HIDE DEF new
<1>7. \A x \in Stored(h') : x = new \/ (x \in Stored(h) /\ x.order # slot.order)
  BY <1>1, <1>3, <1>5, <1>6, UpdateStored DEF IInv
<1>8. slot \in Stored(h)
  BY <1>1, <1>3, StoredMember
<1> HIDE DEF slot
<1>9. Rewritten(h, h', slot, new)
  BY <1>6, <1>7, <1>8 DEF Rewritten
<1>10. QED
  BY <1>4, <1>5, <1>6, <1>9

LEMMA PaddingRewrites ==
    ASSUME IInv, GetPayloadPaddingPacket
    PROVE  /\ UNCHANGED <<now, mode_, packets_inserted_, newest>>
           /\ \E slot, new : /\ Rewritten(packet_history_, packet_history_', slot, new)
                             /\ ~slot.pending /\ ~new.pending /\ new.sent # NoTime
<1> DEFINE h == packet_history_
           at == PaddingChoice
           slot == h[at]
           new == [Retransmitted(slot) EXCEPT !.sent = now]
<1>1. at # 0 /\ ~slot.pending /\ Update(at, new)
  BY DEF GetPayloadPaddingPacket
<1>2. h \in Seq(Slot) /\ now \in Nat
  BY DEF IInv, TypeOK
<1>3. at \in 1 .. Len(h) /\ slot.full
  BY <1>1, PaddingChoiceIsStored
<1>4. /\ h' = [h EXCEPT ![at] = new]
      /\ UNCHANGED <<now, mode_, packets_inserted_, newest>>
  BY <1>1 DEF Update, config
<1> HIDE DEF at
<1>5. slot \in Slot /\ slot \in Stored(h)
  BY <1>2, <1>3, StoredMember
<1>6. /\ new \in Slot /\ new.order = slot.order /\ new.seq = slot.seq
      /\ new.sent # NoTime /\ ~new.pending
  <2> DEFINE r == Retransmitted(slot)
  <2>1. r \in Slot /\ r.seq = slot.seq /\ r.order = slot.order /\ ~r.pending
    BY <1>1, <1>5 DEF Slot, Retransmitted
  <2>2. new = [r EXCEPT !.sent = now]
    OBVIOUS
  <2> HIDE DEF r
  <2>3. /\ [r EXCEPT !.sent = now] \in Slot /\ [r EXCEPT !.sent = now].seq = r.seq
        /\ [r EXCEPT !.sent = now].order = r.order /\ [r EXCEPT !.sent = now].sent = now
        /\ [r EXCEPT !.sent = now].pending = r.pending
    BY <1>2, <2>1 DEF Slot
  <2>4. now # NoTime
    BY <1>2 DEF NoTime
  <2>5. QED
    BY <2>1, <2>2, <2>3, <2>4
<1> HIDE DEF new
<1>7. \A x \in Stored(h') : x = new \/ (x \in Stored(h) /\ x.order # slot.order)
  BY <1>2, <1>3, <1>4, <1>5, <1>6, UpdateStored DEF IInv
<1> HIDE DEF slot
<1>8. Rewritten(h, h', slot, new)
  BY <1>5, <1>6, <1>7 DEF Rewritten
<1>9. QED
  BY <1>1, <1>4, <1>6, <1>8
-----------------------------------------------------------------------------
(* Types, and that every step is a step of the history or leaves it alone. *)

LEMMA NackedSeqs ==
    ASSUME NEW distances \in NackLists, media_sequence_number_ \in SeqNo
    PROVE  Asked(distances) \in Seq(SeqNo) /\ Asked(distances) # <<>>
<1> DEFINE last == media_sequence_number_ - 1
           seqs == [i \in 1 .. Len(distances) |-> (last - distances[i]) % SeqSpan]
<1>1. distances \in Seq(Nat) /\ distances # <<>>
  BY NackAssumption
<1>2. /\ Len(distances) \in Nat /\ Len(distances) # 0
      /\ \A i \in 1 .. Len(distances) : distances[i] \in Nat
  BY <1>1
<1>3. SeqSpan \in Nat /\ SeqSpan > 0
  BY SpanAssumption DEF MaxDistance
<1>4. last \in Int
  BY SpanAssumption DEF SeqNo
<1>5. Asked(distances) = seqs
  BY DEF Asked
<1> HIDE DEF last
<1>6. \A i \in 1 .. Len(distances) : last - distances[i] \in Int
  BY <1>2, <1>4
<1>7. \A a \in Int : a % SeqSpan \in 0 .. SeqSpan - 1
  BY <1>3
<1>8. \A i \in 1 .. Len(distances) : (last - distances[i]) % SeqSpan \in SeqNo
  BY <1>6, <1>7 DEF SeqNo
<1>9. seqs \in Seq(SeqNo) /\ Len(seqs) = Len(distances)
  BY <1>2, <1>8
<1>10. QED
  BY <1>2, <1>5, <1>9

LEMMA ListHead ==
    ASSUME RTyped, nack_phase # "idle"
    PROVE  nack_list # <<>> /\ Head(nack_list) \in SeqNo /\ Tail(nack_list) \in Seq(SeqNo)
<1>1. nack_list \in Seq(SeqNo) /\ nack_list # <<>>
  BY DEF RTyped, GoodNack
<1>2. QED
  BY <1>1

\* The handler's next list and phase.
LEMMA NextNackTyped ==
    ASSUME RTyped, nack_phase # "idle", NextNack(Tail(nack_list))
    PROVE  /\ nack_phase' \in {"idle", "check"} /\ nack_list' \in Seq(SeqNo)
           /\ (nack_phase' = "idle") = (nack_list' = <<>>)
  BY ListHead DEF NextNack

LEMMA RNextIsNext ==
    ASSUME RTyped, [RNext]_rvars
    PROVE  [Next]_vars
<1>1. ASSUME NEW s, NEW r \in Rtts, OnReceivedNack(s, r) PROVE Next
  BY <1>1 DEF OnReceivedNack, Next
<1>2. ASSUME MarkAsPending PROVE Next
  <2>1. GetPacketAndMarkAsPending(Head(nack_list)) /\ Head(nack_list) \in SeqNo
    BY <1>2, ListHead DEF MarkAsPending
  <2>2. QED
    BY <2>1 DEF Next
<1>3. ASSUME SendMedia PROVE [Next]_vars
  <2>1. PutRtpPacket(media_sequence_number_, now) \/ UNCHANGED vars
    BY <1>3 DEF SendMedia
  <2>2. media_sequence_number_ \in SeqNo
    BY DEF RTyped
  <2>3. QED
    BY <2>1, <2>2 DEF Next
<1>4. ASSUME SendRetransmission PROVE [Next]_vars
  <2>1. MarkPacketAsSent(Head(pacer_retransmissions).seq) \/ UNCHANGED vars
    BY <1>4 DEF SendRetransmission
  <2>2. pacer_retransmissions \in Seq(Retransmission) /\ pacer_retransmissions # <<>>
    BY <1>4 DEF SendRetransmission, RTyped
  <2>3. Head(pacer_retransmissions) \in Retransmission
    BY <2>2
  <2>4. Head(pacer_retransmissions).seq \in SeqNo
    BY <2>3 DEF Retransmission
  <2>5. QED
    BY <2>1, <2>4 DEF Next
<1>5. ASSUME \/ GeneratePadding \/ Clock
             \/ \E s \in SeqNo : OnPacketsAcknowledged(s)
             \/ \E r \in Rtts : set_rtt_ms(r)
      PROVE  Next
  BY <1>5 DEF GeneratePadding, Clock, OnPacketsAcknowledged, set_rtt_ms, Next
<1>6. ASSUME \/ CheckPacketState \/ MarkFails \/ EnqueueRetransmission
             \/ SendUnstored
             \/ SetSendingMediaStatus(~sending_media_) \/ UNCHANGED rvars
      PROVE  UNCHANGED vars
  BY <1>6 DEF CheckPacketState, MarkFails, EnqueueRetransmission, SendUnstored,
              SetSendingMediaStatus, rvars
<1>7. QED
  BY <1>1, <1>2, <1>3, <1>4, <1>5, <1>6 DEF RNext

\* The types of what is not the history.
LEMMA OthersTyped ==
    ASSUME RTyped, [RNext]_rvars
    PROVE  /\ GoodNack' /\ pacer_retransmissions' \in Seq(Retransmission)
           /\ sending_media_' \in BOOLEAN /\ media_sequence_number_' \in SeqNo /\ Enabled'
<1>1. /\ IInv /\ Enabled /\ sending_media_ \in BOOLEAN /\ media_sequence_number_ \in SeqNo
      /\ GoodNack /\ pacer_retransmissions \in Seq(Retransmission) /\ newest \in SeqNo
      /\ in_hand \in Seq(Retransmission)
  BY DEF RTyped, IInv, TypeOK, GoodNack
<1>2. ASSUME UNCHANGED <<sender, nack, pacer_retransmissions>> PROVE
             /\ GoodNack' /\ pacer_retransmissions' \in Seq(Retransmission)
             /\ sending_media_' \in BOOLEAN /\ media_sequence_number_' \in SeqNo
  BY <1>1, <1>2 DEF sender, nack, GoodNack
<1>3. ASSUME NEW distances \in NackLists, NEW r \in Rtts, OnReceivedNack(Asked(distances), r)
      PROVE  /\ GoodNack' /\ UNCHANGED <<sender, pacer_retransmissions, mode_>>
  <2> DEFINE seqs == Asked(distances)
  <2>1. seqs \in Seq(SeqNo) /\ seqs # <<>>
    BY <1>1, NackedSeqs
  <2> HIDE DEF seqs
  <2>2. /\ nack_phase = "idle" /\ nack_phase' = "check" /\ nack_list' = seqs
        /\ UNCHANGED <<in_hand, sender, pacer_retransmissions, mode_>>
    BY <1>3 DEF OnReceivedNack, seqs, SetRtt, config
  <2>3. QED
    BY <1>1, <2>1, <2>2 DEF GoodNack
<1>4. ASSUME CheckPacketState \/ MarkFails
      PROVE  GoodNack' /\ UNCHANGED <<sender, pacer_retransmissions, mode_>>
  <2>1. /\ in_hand' = in_hand /\ nack_phase \in {"check", "mark"}
        /\ UNCHANGED <<sender, pacer_retransmissions, mode_>>
    BY <1>4 DEF CheckPacketState, MarkFails, vars
  <2>2. \/ nack_phase = "check" /\ nack_phase' = "mark" /\ nack_list' = nack_list
        \/ NextNack(Tail(nack_list))
        \/ nack_phase' = "idle" /\ nack_list' = <<>>
    BY <1>4 DEF CheckPacketState, MarkFails
  <2>3. CASE NextNack(Tail(nack_list))
    BY <1>1, <2>1, <2>3, NextNackTyped DEF GoodNack
  <2>4. CASE ~NextNack(Tail(nack_list))
    BY <1>1, <2>1, <2>2, <2>4 DEF GoodNack
  <2>5. QED
    BY <2>1, <2>3, <2>4
<1>5. ASSUME MarkAsPending PROVE GoodNack' /\ UNCHANGED <<sender, pacer_retransmissions, mode_>>
  <2> DEFINE at == GetStoredPacket(packet_history_, Head(nack_list))
             copy == [seq |-> Head(nack_list), rtt |-> rtt_ms_, order |-> packet_history_[at].order]
  <2>1. /\ nack_phase = "mark" /\ nack_phase' = "enqueue" /\ in_hand' = <<copy>>
        /\ UNCHANGED <<nack_list, sender, pacer_retransmissions, mode_>> /\ at # 0
    BY <1>5 DEF MarkAsPending, GetPacketAndMarkAsPending, MayRetransmit, Update, config
  <2>2. Head(nack_list) \in SeqNo /\ packet_history_ \in Seq(Slot) /\ rtt_ms_ \in Nat \cup {-1}
    BY <1>1, <2>1, ListHead DEF IInv, TypeOK
  <2>3. packet_history_[at].order \in Nat
    BY <2>1, <2>2, FoundIsStored, SlotSeqType
  <2> HIDE DEF at
  <2>4. copy \in Retransmission
    BY <2>2, <2>3 DEF Retransmission
  <2> HIDE DEF copy
  <2>5. <<copy>> \in Seq(Retransmission) /\ Len(<<copy>>) <= 1 /\ <<copy>> # <<>>
    BY <2>4
  <2>6. QED
    BY <1>1, <2>1, <2>5 DEF GoodNack
<1>6. ASSUME EnqueueRetransmission
      PROVE  /\ GoodNack' /\ pacer_retransmissions' \in Seq(Retransmission)
             /\ UNCHANGED <<sender, mode_>>
  <2>1. /\ nack_phase = "enqueue" /\ pacer_retransmissions' = pacer_retransmissions \o in_hand
        /\ in_hand' = <<>> /\ NextNack(Tail(nack_list)) /\ UNCHANGED <<sender, mode_>>
    BY <1>6 DEF EnqueueRetransmission, vars
  <2>2. pacer_retransmissions \o in_hand \in Seq(Retransmission)
    BY <1>1
  <2>3. QED
    BY <1>1, <2>1, <2>2, NextNackTyped DEF GoodNack
<1>7. ASSUME SendMedia \/ SendUnstored
      PROVE  /\ GoodNack' /\ UNCHANGED <<sending_media_, pacer_retransmissions, mode_>>
             /\ media_sequence_number_' \in SeqNo
  <2>1. UNCHANGED <<sending_media_, pacer_retransmissions, mode_, nack>>
    BY <1>7 DEF SendMedia, SendUnstored, PutRtpPacket, vars, config
  <2>2. \/ media_sequence_number_' = Plus(media_sequence_number_, 1)
        \/ media_sequence_number_' = media_sequence_number_
    BY <1>7 DEF SendMedia, SendUnstored, Sequence
  <2>3. Plus(media_sequence_number_, 1) \in SeqNo
    <3>1. 1 < SeqSpan
      BY SpanAssumption DEF MaxDistance
    <3>2. QED
      BY <1>1, <3>1, PlusAhead
  <2>4. QED
    BY <1>1, <2>1, <2>2, <2>3 DEF GoodNack, nack
<1>8. ASSUME SendRetransmission
      PROVE  /\ GoodNack' /\ pacer_retransmissions' \in Seq(Retransmission)
             /\ UNCHANGED <<sender, mode_>>
  <2>1. /\ pacer_retransmissions # <<>> /\ pacer_retransmissions' = Tail(pacer_retransmissions)
        /\ UNCHANGED <<sender, nack, mode_>>
    BY <1>8 DEF SendRetransmission, MarkPacketAsSent, Update, vars, config
  <2>2. Tail(pacer_retransmissions) \in Seq(Retransmission)
    BY <1>1, <2>1
  <2>3. QED
    BY <1>1, <2>1, <2>2 DEF GoodNack, nack
<1>9. ASSUME SetSendingMediaStatus(~sending_media_)
      PROVE  /\ GoodNack' /\ UNCHANGED <<media_sequence_number_, pacer_retransmissions, mode_>>
             /\ sending_media_' \in BOOLEAN
  <2>1. /\ UNCHANGED <<media_sequence_number_, pacer_retransmissions, mode_, nack>>
        /\ sending_media_' \in {sending_media_, ~sending_media_}
    BY <1>9 DEF SetSendingMediaStatus, vars
  <2>2. QED
    BY <1>1, <2>1 DEF GoodNack, nack
<1>10. ASSUME \/ GeneratePadding \/ Clock \/ UNCHANGED rvars
              \/ \E s \in SeqNo : OnPacketsAcknowledged(s)
              \/ \E r \in Rtts : set_rtt_ms(r)
       PROVE  UNCHANGED <<sender, nack, pacer_retransmissions, mode_>>
  BY <1>10 DEF GeneratePadding, GetPayloadPaddingPacket, Update, Clock, Tick, rvars, vars,
               OnPacketsAcknowledged, CullAcknowledgedPacket, set_rtt_ms, SetRtt, config
<1>11. QED
  BY <1>1, <1>2, <1>3, <1>4, <1>5, <1>6, <1>7, <1>8, <1>9, <1>10
     DEF RNext, Enabled, sender

LEMMA TypedStep ==
    ASSUME RTyped, [RNext]_rvars
    PROVE  RTyped' /\ [Next]_vars
<1>1. [Next]_vars
  BY RNextIsNext
<1>2. IInv'
  BY <1>1, NextPreserves DEF RTyped
<1>3. QED
  BY <1>1, <1>2, OthersTyped DEF RTyped
-----------------------------------------------------------------------------
(* The steps preserve the invariant.                                       *)

\* Culling and acknowledgements only take packets away; the other steps this
\* is used for leave packets and retransmissions alone.
LEMMA ShrinkingPreserves ==
    ASSUME RInv, RTyped', Stored(packet_history_') \subseteq Stored(packet_history_),
           UNCHANGED <<now, packets_inserted_, newest, media_sequence_number_, in_hand,
                       pacer_retransmissions, dropped>>
    PROVE  RInv'
<1>1. Waiting' = Waiting /\ GoodPacer'
  BY DEF Waiting, RInv, GoodPacer
<1>2. QED
  BY <1>1 DEF RInv, AllTimed, Matched

\* The packet that is marked had no retransmission, or it would be pending.
LEMMA MarkPreserves ==
    ASSUME RInv, RTyped', MarkAsPending
    PROVE  RInv'
<1> DEFINE h == packet_history_
           s == Head(nack_list)
           slot == h[GetStoredPacket(h, s)]
           copy == [seq |-> s, rtt |-> rtt_ms_, order |-> slot.order]
<1>1. /\ nack_phase = "mark" /\ GetPacketAndMarkAsPending(s) /\ in_hand' = <<copy>>
      /\ UNCHANGED <<sender, pacer_retransmissions, dropped>>
  BY DEF MarkAsPending
<1>2. /\ IInv /\ in_hand = <<>> /\ s \in SeqNo
  BY <1>1, ListHead DEF RInv, RTyped, GoodNack
<1>3. /\ slot.seq = s /\ ~slot.pending /\ VerifyRtt(slot)
      /\ UNCHANGED <<now, mode_, packets_inserted_, newest>>
      /\ \E new : /\ Rewritten(h, h', slot, new)
                  /\ new.pending /\ new.sent = slot.sent /\ new.times = slot.times
  BY <1>1, <1>2, MarkRewrites
<1>4. PICK new : /\ Rewritten(h, h', slot, new)
                 /\ new.pending /\ new.sent = slot.sent /\ new.times = slot.times
  BY <1>3
<1>5. copy.order = slot.order /\ copy.rtt = rtt_ms_ /\ copy.seq = s
  OBVIOUS
<1> HIDE DEF copy, slot
<1>6. /\ slot \in Stored(h) /\ new.order = slot.order /\ new.seq = slot.seq
      /\ \A x \in Stored(h') : x = new \/ (x \in Stored(h) /\ x.order # slot.order)
  BY <1>4 DEF Rewritten
<1>7. slot.sent # NoTime
  BY <1>6 DEF RInv, AllTimed
<1>8. /\ copy.order < packets_inserted_
      /\ \A x \in Stored(h) : x.order = slot.order <=> x.seq = slot.seq
  <2>1. /\ GoodDeque(h, newest) /\ GoodOrders(h, packets_inserted_) /\ newest \in SeqNo
        /\ h \in Seq(Slot)
    BY <1>2 DEF IInv, TypeOK
  <2>2. slot.order < packets_inserted_
    BY <1>6, <2>1, StoredMember DEF GoodOrders
  <2>3. QED
    BY <1>5, <1>6, <2>1, <2>2, StoredDiffer
<1>9. \A y \in Waiting : y.order # slot.order
  BY <1>3, <1>6 DEF RInv, Matched, Agree
<1> DEFINE W == Waiting
<1>10. Waiting' = W \cup {copy} /\ Members(in_hand') = {copy}
  <2>1. Members(<<copy>>) = {copy} /\ Members(<<>>) = {}
    BY DEF Members
  <2>2. QED
    BY <1>1, <1>2, <2>1 DEF Waiting
<1>11. GoodPacer'
  <2>1. pacer_retransmissions' = pacer_retransmissions /\ GoodPacer
    BY <1>1 DEF RInv
  <2>2. \A y \in Members(pacer_retransmissions) : copy.order # y.order
    BY <1>5, <1>9 DEF Waiting
  <2>3. QED
    BY <1>10, <2>1, <2>2 DEF GoodPacer
<1>12. AllTimed(Stored(h'))
  BY <1>4, <1>6, <1>7 DEF RInv, AllTimed
<1>13. Matched(Stored(h'), Waiting', now, dropped)
  <2>1. ASSUME NEW x \in Stored(h'), NEW y \in Waiting' PROVE Agree(x, y, now)
    <3>1. CASE x = new /\ y = copy
      BY <1>3, <1>4, <1>6, <1>7, <1>5, <3>1 DEF Agree, VerifyRtt
    <3>2. CASE x = new /\ y \in W
      <4>1. Agree(slot, y, now)
        BY <1>6, <3>2 DEF RInv, Matched
      <4>2. QED
        BY <1>6, <1>9, <3>2, <4>1 DEF Agree
    <3>3. CASE x # new /\ y = copy
      BY <1>3, <1>5, <1>6, <1>8, <3>3 DEF Agree
    <3>4. CASE x # new /\ y \in W
      BY <1>6, <3>4 DEF RInv, Matched
    <3>5. QED
      BY <1>10, <3>1, <3>2, <3>3, <3>4
  <2>2. ASSUME NEW x \in Stored(h'), x.pending, x.order \notin dropped
        PROVE  \E y \in Waiting' : y.order = x.order
    <3>1. CASE x = new
      BY <1>5, <1>6, <1>10, <3>1
    <3>2. CASE x # new
      BY <1>6, <1>10, <2>2, <3>2 DEF RInv, Matched
    <3>3. QED
      BY <3>1, <3>2
  <2>3. QED
    BY <2>1, <2>2 DEF Matched
<1>14. (\A x \in Waiting : x.order < packets_inserted_)'
  BY <1>3, <1>8, <1>10 DEF RInv
<1>15. (Ahead(newest, media_sequence_number_) \in 1 .. MaxGap + 1)'
  BY <1>1, <1>3 DEF RInv, sender
<1>16. QED
  BY <1>1, <1>3, <1>11, <1>12, <1>13, <1>14, <1>15 DEF RInv

LEMMA EnqueuePreserves ==
    ASSUME RInv, RTyped', EnqueueRetransmission
    PROVE  RInv'
<1> DEFINE p == pacer_retransmissions
<1>1. /\ nack_phase = "enqueue" /\ p' = p \o in_hand /\ in_hand' = <<>>
      /\ UNCHANGED <<vars, sender, dropped>>
  BY DEF EnqueueRetransmission
<1>2. /\ in_hand \in Seq(Retransmission) /\ p \in Seq(Retransmission) /\ Len(in_hand) = 1
  <2>1. /\ in_hand \in Seq(Retransmission) /\ p \in Seq(Retransmission)
        /\ in_hand # <<>> /\ Len(in_hand) <= 1
    BY <1>1 DEF RInv, RTyped, GoodNack
  <2>2. QED
    BY <2>1, OneElement
<1>3. Waiting' = Waiting
  <2>1. Members(p \o in_hand) = Members(p) \cup Members(in_hand)
    BY <1>2, ConcatMembers
  <2>2. Members(<<>>) = {}
    BY DEF Members
  <2>3. QED
    BY <1>1, <2>1, <2>2 DEF Waiting
<1>4. GoodPacer'
  <2> DEFINE q == p \o in_hand
  <2>1. /\ Len(q) = Len(p) + 1
        /\ \A i \in 1 .. Len(p) : q[i] = p[i]
        /\ q[Len(p) + 1] = in_hand[1] /\ Len(p) \in Nat
    BY <1>2, ConcatOne
  <2>2. in_hand[1] \in Members(in_hand) /\ \A i \in 1 .. Len(p) : p[i] \in Members(p)
    BY <1>2 DEF Members
  <2>3. \A i \in 1 .. Len(p) : p[i].order # in_hand[1].order
    BY <2>2 DEF RInv, GoodPacer
  <2> HIDE DEF q
  <2>4. ASSUME NEW i \in 1 .. Len(q), NEW j \in 1 .. Len(q), q[i].order = q[j].order
        PROVE  i = j
    <3>1. \A k \in 1 .. Len(q) : k \in 1 .. Len(p) \/ k = Len(p) + 1
      BY <2>1
    <3>2. CASE i \in 1 .. Len(p) /\ j \in 1 .. Len(p)
      BY <2>1, <2>4, <3>2 DEF RInv, GoodPacer
    <3>3. CASE i = Len(p) + 1 /\ j \in 1 .. Len(p)
      BY <2>1, <2>3, <2>4, <3>3
    <3>4. CASE i \in 1 .. Len(p) /\ j = Len(p) + 1
      BY <2>1, <2>3, <2>4, <3>4
    <3>5. QED
      BY <3>1, <3>2, <3>3, <3>4
  <2>5. p' = q /\ Members(in_hand') = {}
    BY <1>1 DEF q, Members
  <2>6. QED
    BY <2>1, <2>4, <2>5 DEF GoodPacer
<1>5. QED
  BY <1>1, <1>3, <1>4 DEF RInv, vars, sender

\* The packet that is put has a new order, and a number that no retransmission
\* waits for.
LEMMA PutMediaPreserves ==
    ASSUME RInv, RTyped', RetransmissionsAreRecent,
           PutRtpPacket(media_sequence_number_, now), Sequence,
           UNCHANGED <<in_hand, pacer_retransmissions, dropped>>
    PROVE  RInv'
<1> DEFINE s == media_sequence_number_
           P == Stored(packet_history_)
           W == Waiting
<1>1. /\ IInv /\ Enabled /\ newest \in SeqNo /\ packets_inserted_ \in Nat /\ s \in SeqNo
      /\ packet_history_ \in Seq(Slot) /\ Ahead(newest, s) \in 1 .. MaxGap + 1
  BY DEF RInv, RTyped, IInv, TypeOK
<1>2. /\ 1 \in Nat /\ 1 < SeqSpan /\ MaxGap + 1 < SeqSpan - MaxReorder
      /\ MaxGap \in Nat /\ MaxReorder \in Nat
  BY SpanAssumption DEF MaxDistance
<1>3. newest' = Newer(s) /\ now' = now /\ packets_inserted_' = packets_inserted_ + 1
  BY <1>1 DEF PutRtpPacket, config
<1>4. newest' = s
  <2>1. Ahead(s, newest) = SeqSpan - Ahead(newest, s)
    BY <1>1, SpanAssumption DEF Ahead, SeqNo
  <2>2. ~(Ahead(s, newest) <= MaxReorder)
    BY <1>1, <1>2, <2>1, SpanAssumption
  <2>3. QED
    BY <1>3, <2>2 DEF Newer
<1>5. PICK packet \in Slot :
          /\ packet.seq = s /\ packet.order = packets_inserted_
          /\ ~packet.pending /\ packet.sent # NoTime
          /\ Stored(packet_history_') \subseteq P \cup {packet}
  BY <1>1, PutStores
<1>6. Waiting' = W
  BY DEF Waiting
<1>7. ASSUME NEW y \in W
      PROVE  /\ y.order \in Nat /\ y.order < packets_inserted_
             /\ y.order # packets_inserted_ /\ y.seq # s
  <2>1. y.order \in Nat /\ y.order < packets_inserted_
    BY WaitingType DEF RInv
  <2>2. QED
    BY <1>1, <2>1 DEF RetransmissionsAreRecent
<1>8. Matched(Stored(packet_history_'), W, now, dropped)
  <2>1. ASSUME NEW x \in Stored(packet_history_'), NEW y \in W PROVE Agree(x, y, now)
    <3>1. CASE x = packet
      BY <1>5, <1>7, <3>1 DEF Agree
    <3>2. CASE x # packet
      BY <1>5, <3>2 DEF RInv, Matched
    <3>3. QED
      BY <3>1, <3>2
  <2>2. ASSUME NEW x \in Stored(packet_history_'), x.pending, x.order \notin dropped
        PROVE  \E y \in W : y.order = x.order
    BY <1>5, <2>2 DEF RInv, Matched
  <2>3. QED
    BY <2>1, <2>2 DEF Matched
<1>9. AllTimed(Stored(packet_history_'))
  BY <1>5 DEF RInv, AllTimed
<1>10. GoodPacer'
  BY DEF RInv, GoodPacer
<1>11. \A y \in W : y.order < packets_inserted_ + 1
  BY <1>1, <1>7
<1>12. Ahead(s, Plus(s, 1)) = 1
  BY <1>1, <1>2, PlusAhead
<1>13. (Ahead(newest, media_sequence_number_) \in 1 .. MaxGap + 1)'
  BY <1>2, <1>4, <1>12 DEF Sequence
<1>14. /\ \A y \in Waiting' : y.order < packets_inserted_'
       /\ Matched(Stored(packet_history_'), Waiting', now', dropped')
       /\ AllTimed(Stored(packet_history_'))
  BY <1>3, <1>6, <1>8, <1>9, <1>11
<1>15. QED
  BY <1>10, <1>13, <1>14 DEF RInv

\* A number that is spent without storing a packet changes nothing else.
LEMMA SendUnstoredPreserves ==
    ASSUME RInv, RTyped', SendUnstored
    PROVE  RInv'
<1>1. /\ UNCHANGED <<vars, in_hand, pacer_retransmissions, dropped>>
      /\ Ahead(newest, media_sequence_number_) <= MaxGap
      /\ media_sequence_number_' = Plus(media_sequence_number_, 1)
  BY DEF SendUnstored, Sequence, nack
<1>2. /\ newest \in SeqNo /\ media_sequence_number_ \in SeqNo
      /\ Ahead(newest, media_sequence_number_) \in 1 .. MaxGap + 1
  BY DEF RInv, RTyped, IInv, TypeOK
<1>3. MaxGap \in Nat /\ MaxGap + 1 < SeqSpan
  BY SpanAssumption DEF MaxDistance
<1>4. (Ahead(newest, media_sequence_number_) \in 1 .. MaxGap + 1)'
  <2>1. Ahead(newest, media_sequence_number_) + 1 < SeqSpan
    BY <1>1, <1>2, <1>3, SpanAssumption
  <2>2. Ahead(newest, Plus(media_sequence_number_, 1)) = Ahead(newest, media_sequence_number_) + 1
    BY <1>2, <2>1, OneFurther
  <2>3. newest' = newest
    BY <1>1 DEF vars
  <2>4. QED
    BY <1>1, <1>2, <1>3, <2>2, <2>3
<1>5. UNCHANGED <<now, packet_history_, packets_inserted_>>
  BY <1>1 DEF vars
<1>6. Waiting' = Waiting /\ GoodPacer'
  BY <1>1 DEF Waiting, RInv, GoodPacer
<1>7. QED
  BY <1>1, <1>4, <1>5, <1>6 DEF RInv

\* What SendRetransmission leaves waiting, and that no other copy of the
\* packet is among it.
LEMMA SentLeavesWaiting ==
    ASSUME RInv, pacer_retransmissions # <<>>,
           pacer_retransmissions' = Tail(pacer_retransmissions), in_hand' = in_hand
    PROVE  /\ Head(pacer_retransmissions) \in Waiting
           /\ Waiting = Waiting' \cup {Head(pacer_retransmissions)}
           /\ \A y \in Waiting' : y.order # Head(pacer_retransmissions).order
           /\ GoodPacer'
<1> DEFINE p == pacer_retransmissions
           t == Tail(p)
<1>1. p \in Seq(Retransmission)
  BY DEF RInv, RTyped, GoodPacer
<1>2. /\ Members(p) = Members(t) \cup {Head(p)} /\ t \in Seq(Retransmission)
      /\ Len(t) = Len(p) - 1 /\ \A i \in 1 .. Len(t) : t[i] = p[i + 1]
  BY <1>1, TailMembers
<1>3. Head(p) = p[1] /\ 1 \in 1 .. Len(p) /\ Len(p) \in Nat
  BY <1>1
<1>4. Waiting = Waiting' \cup {Head(p)} /\ Head(p) \in Members(p)
  BY <1>2 DEF Waiting
<1> HIDE DEF t
<1>5. ASSUME NEW i \in 1 .. Len(t)
      PROVE  i + 1 \in 1 .. Len(p) /\ i + 1 # 1 /\ t[i] = p[i + 1]
  BY <1>2, <1>3
<1>6. \A y \in Members(t) : y.order # p[1].order
  <2>1. SUFFICES ASSUME NEW i \in 1 .. Len(t) PROVE t[i].order # p[1].order
    BY DEF Members
  <2>2. QED
    BY <1>3, <1>5 DEF RInv, RTyped, GoodPacer
<1>7. \A y \in Members(in_hand) : y.order # p[1].order
  BY <1>3, <1>4 DEF RInv, RTyped, GoodPacer
<1>8. GoodPacer'
  <2>1. ASSUME NEW i \in 1 .. Len(t), NEW j \in 1 .. Len(t), t[i].order = t[j].order
        PROVE  i = j
    <3>1. i + 1 = j + 1
      BY <1>5, <2>1 DEF RInv, RTyped, GoodPacer
    <3>2. QED
      BY <3>1
  <2>2. \A x \in Members(in_hand), y \in Members(t) : x.order # y.order
    BY <1>2 DEF RInv, RTyped, GoodPacer
  <2>3. QED
    BY <1>2, <2>1, <2>2 DEF GoodPacer, t
<1>9. QED
  BY <1>3, <1>4, <1>6, <1>7, <1>8 DEF Waiting, t

\* Egress marks the packet the copy was made of, or drops the copy.
LEMMA SendRetransmissionPreserves ==
    ASSUME RInv, RTyped', SendRetransmission
    PROVE  RInv'
<1> DEFINE h == packet_history_
           head == Head(pacer_retransmissions)
           at == GetStoredPacket(h, head.seq)
           W == Waiting
<1>1. /\ pacer_retransmissions # <<>> /\ pacer_retransmissions' = Tail(pacer_retransmissions)
      /\ dropped' = IF sending_media_ THEN dropped ELSE dropped \cup {head.order}
      /\ UNCHANGED <<sender, in_hand>>
      /\ sending_media_ /\ Enabled /\ at # 0 => MarkPacketAsSent(head.seq)
      /\ ~(sending_media_ /\ Enabled /\ at # 0) => UNCHANGED vars
  BY DEF SendRetransmission, nack
<1>2. /\ IInv /\ Enabled /\ h \in Seq(Slot) /\ newest \in SeqNo /\ packets_inserted_ \in Nat
      /\ GoodDeque(h, newest)
  BY DEF RInv, RTyped, IInv, TypeOK
<1>3. /\ head \in W /\ W = Waiting' \cup {head} /\ GoodPacer'
      /\ \A y \in Waiting' : y.order # head.order
  BY <1>1, SentLeavesWaiting
<1>4. /\ head.seq \in SeqNo /\ head.order \in Nat
      /\ \A x \in Stored(h) : x.order = head.order <=> x.seq = head.seq
  BY <1>3, WaitingType DEF RInv, Matched, Agree
<1> HIDE DEF head
<1>6. CASE sending_media_ /\ at # 0
  <2>1. MarkPacketAsSent(head.seq) /\ dropped' = dropped
    BY <1>1, <1>2, <1>6
  <2>2. /\ UNCHANGED <<now, mode_, packets_inserted_, newest>>
        /\ \E slot, new : /\ Rewritten(h, h', slot, new)
                          /\ slot.seq = head.seq /\ ~new.pending /\ new.sent # NoTime
    BY <1>2, <1>4, <2>1, MarkSentRewrites
  <2>3. PICK slot, new : /\ Rewritten(h, h', slot, new)
                         /\ slot.seq = head.seq /\ ~new.pending /\ new.sent # NoTime
    BY <2>2
  <2>4. /\ slot \in Stored(h) /\ new.order = slot.order /\ new.seq = slot.seq
        /\ \A x \in Stored(h') : x = new \/ (x \in Stored(h) /\ x.order # slot.order)
    BY <2>3 DEF Rewritten
  <2>5. slot.order = head.order
    BY <1>4, <2>3, <2>4
  <2>6. AllTimed(Stored(h'))
    BY <2>3, <2>4 DEF RInv, AllTimed
  <2>7. Matched(Stored(h'), Waiting', now, dropped)
    <3>1. ASSUME NEW x \in Stored(h'), NEW y \in Waiting' PROVE Agree(x, y, now)
      <4>1. CASE x = new
        <5>1. Agree(slot, y, now)
          BY <1>3, <2>4 DEF RInv, Matched
        <5>2. QED
          BY <1>3, <2>4, <2>5, <4>1, <5>1 DEF Agree
      <4>2. CASE x # new
        BY <1>3, <2>4, <4>2 DEF RInv, Matched
      <4>3. QED
        BY <4>1, <4>2
    <3>2. ASSUME NEW x \in Stored(h'), x.pending, x.order \notin dropped
          PROVE  \E y \in Waiting' : y.order = x.order
      <4>1. x \in Stored(h) /\ x.order # head.order
        BY <2>3, <2>4, <2>5, <3>2
      <4>2. PICK y \in W : y.order = x.order
        BY <3>2, <4>1 DEF RInv, Matched
      <4>3. QED
        BY <1>3, <4>1, <4>2
    <3>3. QED
      BY <3>1, <3>2 DEF Matched
  <2>8. QED
    BY <1>1, <1>3, <2>1, <2>2, <2>6, <2>7 DEF RInv, sender
<1>7. CASE ~(sending_media_ /\ at # 0)
  <2>1. UNCHANGED <<now, packet_history_, packets_inserted_, newest>>
    BY <1>1, <1>7 DEF vars
  <2>2. ASSUME NEW x \in Stored(h), x.order = head.order PROVE x.order \in dropped'
    <3>1. CASE ~sending_media_
      BY <1>1, <2>2, <3>1
    <3>2. CASE sending_media_
      <4>1. PICK i \in 1 .. Len(h) : h[i].full /\ x = h[i]
        BY <1>2, StoredMember
      <4>2. x.seq = head.seq
        BY <1>4, <2>2
      <4>3. at = i
        BY <1>2, <4>1, <4>2, StoredIsFound
      <4>4. QED
        BY <1>7, <3>2, <4>1, <4>3
    <3>3. QED
      BY <3>1, <3>2
  <2>3. Matched(Stored(h), Waiting', now, dropped')
    <3>1. dropped \subseteq dropped'
      BY <1>1
    <3>2. ASSUME NEW x \in Stored(h), x.pending, x.order \notin dropped'
          PROVE  \E y \in Waiting' : y.order = x.order
      <4>1. PICK y \in W : y.order = x.order
        BY <3>1, <3>2 DEF RInv, Matched
      <4>2. QED
        BY <1>3, <2>2, <3>2, <4>1
    <3>3. QED
      BY <1>3, <3>2 DEF RInv, Matched
  <2>4. QED
    BY <1>1, <1>3, <2>1, <2>3 DEF RInv, sender
<1>8. QED
  BY <1>6, <1>7

\* Padding never touches a packet that has a retransmission waiting.
LEMMA GeneratePaddingPreserves ==
    ASSUME RInv, RTyped', GeneratePadding
    PROVE  RInv'
<1> DEFINE h == packet_history_
<1>1. GetPayloadPaddingPacket /\ IInv /\ UNCHANGED <<sender, nack, pacer_retransmissions, dropped>>
  BY DEF GeneratePadding, RInv, RTyped
<1>2. UNCHANGED <<now, mode_, packets_inserted_, newest>>
  BY <1>1, PaddingRewrites
<1>3. PICK slot, new : /\ Rewritten(h, h', slot, new)
                       /\ ~slot.pending /\ ~new.pending /\ new.sent # NoTime
  BY <1>1, PaddingRewrites
<1>4. /\ slot \in Stored(h) /\ new.order = slot.order /\ new.seq = slot.seq
      /\ \A x \in Stored(h') : x = new \/ (x \in Stored(h) /\ x.order # slot.order)
  BY <1>3 DEF Rewritten
<1>5. \A y \in Waiting : y.order # slot.order
  BY <1>3, <1>4 DEF RInv, Matched, Agree
<1>6. Waiting' = Waiting /\ GoodPacer'
  BY <1>1 DEF Waiting, RInv, GoodPacer, nack
<1>7. AllTimed(Stored(h'))
  BY <1>3, <1>4 DEF RInv, AllTimed
<1>8. Matched(Stored(h'), Waiting, now, dropped)
  <2>1. ASSUME NEW x \in Stored(h'), NEW y \in Waiting PROVE Agree(x, y, now)
    <3>1. CASE x = new
      <4>1. Agree(slot, y, now)
        BY <1>4 DEF RInv, Matched
      <4>2. QED
        BY <1>4, <1>5, <3>1, <4>1 DEF Agree
    <3>2. CASE x # new
      BY <1>4, <3>2 DEF RInv, Matched
    <3>3. QED
      BY <3>1, <3>2
  <2>2. ASSUME NEW x \in Stored(h'), x.pending, x.order \notin dropped
        PROVE  \E y \in Waiting : y.order = x.order
    BY <1>3, <1>4, <2>2 DEF RInv, Matched
  <2>3. QED
    BY <2>1, <2>2 DEF Matched
<1>9. QED
  BY <1>1, <1>2, <1>6, <1>7, <1>8 DEF RInv, sender

\* Time passing keeps every waiting retransmission at least as far apart.
LEMMA ClockPreserves ==
    ASSUME RInv, RTyped', Clock
    PROVE  RInv'
<1>1. /\ now' = now + 1
      /\ UNCHANGED <<packet_history_, packets_inserted_, newest, sender, nack,
                     pacer_retransmissions, dropped>>
  BY DEF Clock, Tick, config
<1>2. now \in Nat /\ packet_history_ \in Seq(Slot)
  BY DEF RInv, RTyped, IInv, TypeOK
<1>3. Waiting' = Waiting /\ GoodPacer'
  BY <1>1 DEF Waiting, RInv, GoodPacer, nack
<1>4. ASSUME NEW x \in Stored(packet_history_), NEW y \in Waiting PROVE Agree(x, y, now + 1)
  <2>1. x.sent \in Int /\ y.rtt \in Int
    <3>1. x \in Slot /\ y.rtt \in Int
      BY <1>2, StoredMember, WaitingType DEF RInv
    <3>2. QED
      BY <3>1 DEF Slot, NoTime
  <2>2. Agree(x, y, now)
    BY DEF RInv, Matched
  <2>3. QED
    BY <1>2, <2>1, <2>2 DEF Agree
<1>5. Matched(Stored(packet_history_), Waiting, now + 1, dropped)
  BY <1>4 DEF RInv, Matched
<1>6. QED
  BY <1>1, <1>3, <1>5 DEF RInv, sender

LEMMA SendMediaPreserves ==
    ASSUME RInv, RTyped', SendMedia, RetransmissionsAreRecent
    PROVE  RInv'
<1>1. UNCHANGED <<in_hand, pacer_retransmissions, dropped>>
  BY DEF SendMedia, nack
<1>2. CASE sending_media_
  <2>1. Sequence /\ PutRtpPacket(media_sequence_number_, now)
    BY <1>2 DEF SendMedia
  <2>2. QED
    BY <1>1, <2>1, PutMediaPreserves
<1>3. CASE ~sending_media_
  <2>1. UNCHANGED <<vars, media_sequence_number_>>
    BY <1>3 DEF SendMedia
  <2>2. UNCHANGED <<now, packet_history_, packets_inserted_, newest>>
    BY <2>1 DEF vars
  <2>3. QED
    BY <1>1, <2>1, <2>2, ShrinkingPreserves
<1>4. QED
  BY <1>2, <1>3

LEMMA InitEstablishes ==
    ASSUME RInit
    PROVE  RInv /\ packets_inserted_ = 0 /\ Stored(packet_history_) = {}
<1>1. newest \in SeqNo /\ number_to_store_ \in 0 .. kMaxCapacity
  <2>1. PICK n \in Capacities : number_to_store_ = Min({kMaxCapacity, n})
    BY DEF RInit, HistoryInit
  <2>2. n \in Nat /\ kMaxCapacity \in Nat
    BY DurationAssumption, SpanAssumption
  <2>3. {kMaxCapacity, n} \subseteq Nat /\ {kMaxCapacity, n} # {}
    BY <2>2
  <2>4. Min({kMaxCapacity, n}) \in Nat /\ Min({kMaxCapacity, n}) <= kMaxCapacity
    BY <2>3, MinIsLeast
  <2>5. QED
    BY <2>1, <2>2, <2>4, SpanAssumption DEF RInit, HistoryInit
<1>2. /\ GoodDeque(<<>>, newest) /\ GoodOrders(<<>>, 0) /\ GoodPriority(<<>>, {})
      /\ <<>> \in Seq(Slot)
  BY <1>1, EmptyGood
<1>3. IInv /\ Enabled
  BY <1>1, <1>2 DEF RInit, HistoryInit, IInv, TypeOK, Enabled
<1>4. Stored(<<>>) = {} /\ Members(<<>>) = {}
  BY DEF Stored, Members
<1>5. Waiting = {} /\ Stored(packet_history_) = {}
  BY <1>4 DEF Waiting, RInit, HistoryInit
<1>6. GoodNack /\ GoodPacer /\ pacer_retransmissions \in Seq(Retransmission)
  BY <1>4 DEF RInit, GoodNack, GoodPacer
<1>7. /\ Plus(newest, 1) \in SeqNo
      /\ Ahead(newest, Plus(newest, 1)) \in 1 .. MaxGap + 1
  <2>1. 1 < SeqSpan /\ MaxGap \in Nat
    BY SpanAssumption DEF MaxDistance
  <2>2. Plus(newest, 1) \in SeqNo /\ Ahead(newest, Plus(newest, 1)) = 1
    BY <1>1, <2>1, PlusAhead
  <2>3. QED
    BY <2>1, <2>2
<1>8. RTyped
  BY <1>3, <1>6, <1>7 DEF RInit, RTyped
<1>9. QED
  BY <1>5, <1>6, <1>7, <1>8 DEF RInit, HistoryInit, RInv, AllTimed, Matched

\* The steps that take packets away, or leave them alone.
Quiet ==
    \/ \E s : \E r \in Rtts : OnReceivedNack(s, r)
    \/ CheckPacketState \/ MarkFails
    \/ \E s \in SeqNo : OnPacketsAcknowledged(s)
    \/ \E r \in Rtts : set_rtt_ms(r)
    \/ SetSendingMediaStatus(~sending_media_) \/ UNCHANGED rvars

LEMMA QuietStep ==
    ASSUME RTyped, Quiet
    PROVE  /\ Stored(packet_history_') \subseteq Stored(packet_history_)
           /\ UNCHANGED <<now, packets_inserted_, newest, media_sequence_number_, in_hand,
                          pacer_retransmissions, dropped>>
<1>1. IInv /\ Enabled /\ \A r \in Rtts : r \in Nat
  BY DurationAssumption DEF RTyped
<1>2. ASSUME NEW r \in Rtts, SetRtt(r)
      PROVE  /\ Stored(packet_history_') \subseteq Stored(packet_history_)
             /\ UNCHANGED <<now, packets_inserted_, newest>>
  BY <1>1, <1>2, SetRttShrinks
<1>3. CASE \E s : \E r \in Rtts : OnReceivedNack(s, r)
  BY <1>2, <1>3 DEF OnReceivedNack, sender
<1>4. CASE \E r \in Rtts : set_rtt_ms(r)
  BY <1>2, <1>4 DEF set_rtt_ms, sender, nack
<1>5. CASE \E s \in SeqNo : OnPacketsAcknowledged(s)
  BY <1>1, <1>5, AckShrinks DEF OnPacketsAcknowledged, sender, nack
<1>6. CASE \/ CheckPacketState \/ MarkFails
           \/ SetSendingMediaStatus(~sending_media_) \/ UNCHANGED rvars
  BY <1>6 DEF CheckPacketState, MarkFails, SetSendingMediaStatus,
              rvars, vars, sender, nack
<1>7. QED
  BY <1>3, <1>4, <1>5, <1>6 DEF Quiet

\* Every step but that of a media packet preserves RInv without a condition.
LEMMA StepPreserves ==
    ASSUME RInv, [RNext]_rvars, SendMedia => RetransmissionsAreRecent
    PROVE  RInv'
<1>1. RTyped /\ RTyped'
  BY TypedStep DEF RInv
<1>2. ASSUME Quiet PROVE RInv'
  BY <1>1, <1>2, QuietStep, ShrinkingPreserves
<1>3. QED
  BY <1>1, <1>2, MarkPreserves, EnqueuePreserves, SendMediaPreserves, SendUnstoredPreserves,
     SendRetransmissionPreserves, GeneratePaddingPreserves, ClockPreserves DEF RNext, Quiet
-----------------------------------------------------------------------------
(* What holds without a condition.                                         *)

\* Every variable keeps its type; the history keeps its own invariant, which
\* RtpPacketHistoryProofs proves for every way of using it.
THEOREM RetransmissionTyped == RSpec => []RTyped
<1>1. RInit => RTyped
  BY InitEstablishes DEF RInv
<1>2. RTyped /\ [RNext]_rvars => RTyped'
  BY TypedStep
<1>3. QED
  BY <1>1, <1>2, PTL DEF RSpec

\* The worker thread, the pacer thread and the transport's callbacks change the
\* history by the operations of RtpPacketHistory only: the NACK path implements
\* the history's specification, so what is proved of the one holds in the other.
THEOREM UsesHistoryOperations == RSpec => HistorySpec
<1>1. RInit => HistoryInit
  BY DEF RInit
<1>2. RTyped /\ [RNext]_rvars => [Next]_vars
  BY TypedStep
<1>3. QED
  BY <1>1, <1>2, RetransmissionTyped, PTL DEF RSpec, HistorySpec

\* The history stays within its capacity and the padding set within its own on
\* the NACK path too, whose packets arrive while others are pending.
THEOREM NackPathKeepsLimits == RSpec => []WithinLimits
<1>1. RInit => WithinLimits
  <2>1. SUFFICES ASSUME RInit PROVE WithinLimits
    OBVIOUS
  <2>2. padding_priority_ = {} /\ packet_history_ = <<>>
    BY <2>1 DEF RInit, HistoryInit
  <2>3. {i \in 1 .. Len(packet_history_) : packet_history_[i].full} = {}
    BY <2>2
  <2>4. Cardinality({}) = 0
    BY FS_EmptySet
  <2>5. QED
    BY <2>2, <2>3, <2>4, SpanAssumption, DurationAssumption DEF WithinLimits
<1>2. RTyped /\ RTyped' /\ WithinLimits /\ [RNext]_rvars => WithinLimits'
  BY TypedStep, StepKeepsLimits DEF RTyped
<1>3. QED
  BY <1>1, <1>2, RetransmissionTyped, PTL DEF RSpec

\* On the NACK path every stored packet has a send time: the DCHECK of
\* MarkPacketAsSent (rtp_packet_history.cc:263) holds.
THEOREM SendTimeAlways == RSpec => []AlwaysHasSendTime
<1> DEFINE h == packet_history_
           Timed == AllTimed(Stored(packet_history_))
<1>1. RInit => Timed
  BY InitEstablishes DEF AllTimed
<1>2. ASSUME RTyped, Timed, [RNext]_rvars PROVE Timed'
  <2>1. IInv /\ Enabled /\ media_sequence_number_ \in SeqNo
    BY <1>2 DEF RTyped
  <2>2. ASSUME Stored(h') \subseteq Stored(h) PROVE Timed'
    BY <1>2, <2>2 DEF AllTimed
  <2>3. ASSUME NEW slot, NEW new, Rewritten(h, h', slot, new), new.sent # NoTime
        PROVE  Timed'
    BY <1>2, <2>3 DEF Rewritten, AllTimed
  <2>4. CASE Quiet
    BY <1>2, <2>2, <2>4, QuietStep
  <2>5. CASE MarkAsPending
    <3> DEFINE s == Head(nack_list)
               slot == h[GetStoredPacket(h, s)]
    <3>1. GetPacketAndMarkAsPending(s) /\ s \in SeqNo
      BY <1>2, <2>5, ListHead DEF MarkAsPending
    <3>2. \E new : /\ Rewritten(h, h', slot, new)
                   /\ new.pending /\ new.sent = slot.sent /\ new.times = slot.times
      BY <2>1, <3>1, MarkRewrites
    <3>3. slot \in Stored(h)
      BY <3>2 DEF Rewritten
    <3> HIDE DEF slot
    <3>4. slot.sent # NoTime
      BY <1>2, <3>3 DEF AllTimed
    <3>5. QED
      BY <2>3, <3>2, <3>4
  <2>6. CASE SendMedia
    <3>1. PutRtpPacket(media_sequence_number_, now) \/ UNCHANGED vars
      BY <2>6 DEF SendMedia
    <3>2. CASE UNCHANGED vars
      BY <2>2, <3>2 DEF vars
    <3>3. CASE PutRtpPacket(media_sequence_number_, now)
      BY <1>2, <2>1, <3>3, PutStores DEF AllTimed
    <3>4. QED
      BY <3>1, <3>2, <3>3
  <2>7. CASE SendRetransmission
    <3> DEFINE s == Head(pacer_retransmissions).seq
    <3>1. MarkPacketAsSent(s) \/ UNCHANGED vars
      BY <2>7 DEF SendRetransmission
    <3>2. s \in SeqNo
      <4>1. pacer_retransmissions \in Seq(Retransmission) /\ pacer_retransmissions # <<>>
        BY <1>2, <2>7 DEF SendRetransmission, RTyped
      <4>2. Head(pacer_retransmissions) \in Retransmission
        BY <4>1
      <4>3. QED
        BY <4>2 DEF Retransmission
    <3>3. CASE UNCHANGED vars
      BY <2>2, <3>3 DEF vars
    <3>4. CASE MarkPacketAsSent(s)
      BY <2>1, <2>3, <3>2, <3>4, MarkSentRewrites
    <3>5. QED
      BY <3>1, <3>3, <3>4
  <2>8. CASE GeneratePadding
    BY <2>1, <2>3, <2>8, PaddingRewrites DEF GeneratePadding
  <2>9. CASE EnqueueRetransmission \/ SendUnstored \/ Clock
    BY <2>2, <2>9 DEF EnqueueRetransmission, SendUnstored, Clock, Tick, vars
  <2>10. QED
    BY <1>2, <2>4, <2>5, <2>6, <2>7, <2>8, <2>9 DEF RNext, Quiet
<1>3. ASSUME RTyped, Timed PROVE AlwaysHasSendTime
  BY <1>3 DEF AllTimed, Stored, AlwaysHasSendTime
<1> HIDE DEF Timed
<1>4. QED
  BY <1>1, <1>2, <1>3, RetransmissionTyped, PTL DEF RSpec
-----------------------------------------------------------------------------
(* What holds while no retransmission outlives its sequence number.        *)

\* RInv holds in every state, whatever numbers are skipped, as long as no
\* retransmission waits in the pacer until its own number comes around again.
THEOREM RetransmissionInvariant == RSpec /\ []RetransmissionsAreRecent => []RInv
<1>1. RInit => RInv
  BY InitEstablishes
<1>2. RInv /\ RetransmissionsAreRecent /\ [RNext]_rvars => RInv'
  BY StepPreserves
<1>3. QED
  BY <1>1, <1>2, PTL DEF RSpec

\* A retransmission of Outstanding is one that waits.
LEMMA OutstandingIsWaiting ==
    ASSUME RInv
    PROVE  /\ Outstanding \in Seq(Retransmission)
           /\ \A k \in 1 .. Len(Outstanding) : Outstanding[k] \in Waiting
           /\ \A x \in Waiting : \E k \in 1 .. Len(Outstanding) : Outstanding[k] = x
<1>1. in_hand \in Seq(Retransmission) /\ pacer_retransmissions \in Seq(Retransmission)
  BY DEF RInv, RTyped, GoodNack
<1>2. Outstanding \in Seq(Retransmission)
  BY <1>1 DEF Outstanding
<1>3. Members(Outstanding) = Waiting
  BY <1>1, ConcatMembers DEF Waiting, Outstanding
<1>4. QED
  BY <1>2, <1>3 DEF Members

\* No two copies of one packet wait for retransmission, however NACKs, the
\* pacer, acknowledgements, padding and the switching of media interleave.
THEOREM NoDuplicates ==
    RSpec /\ []RetransmissionsAreRecent => []NoDuplicateRetransmission
<1>1. ASSUME RInv PROVE NoDuplicateRetransmission
  <2> DEFINE o == Outstanding
             p == pacer_retransmissions
             n == Len(in_hand)
  <2>1. SUFFICES ASSUME NEW i \in 1 .. Len(o), NEW j \in 1 .. Len(o), o[i].order = o[j].order
                 PROVE  i = j
    BY DEF NoDuplicateRetransmission
  <2>2. /\ in_hand \in Seq(Retransmission) /\ p \in Seq(Retransmission) /\ n <= 1
    BY <1>1 DEF RInv, RTyped, GoodNack, GoodPacer
  <2>3. /\ Len(o) = n + Len(p) /\ n \in Nat /\ Len(p) \in Nat
        /\ \A k \in 1 .. n + Len(p) : o[k] = IF k <= n THEN in_hand[k] ELSE p[k - n]
    BY <2>2, ConcatProperties, LenProperties DEF Outstanding
  <2> HIDE DEF o, p, n
  <2>4. ASSUME NEW k \in 1 .. Len(o)
        PROVE  \/ k \in 1 .. n /\ k = 1 /\ n = 1 /\ o[k] = in_hand[k]
               \/ k - n \in 1 .. Len(p) /\ o[k] = p[k - n]
    BY <2>2, <2>3
  <2>5. \A k \in 1 .. n, m \in 1 .. Len(p) : in_hand[k].order # p[m].order
    BY <1>1 DEF RInv, RTyped, GoodPacer, Members, n, p
  <2>6. CASE i \in 1 .. n /\ j \in 1 .. n
    BY <2>2, <2>3, <2>6
  <2>7. CASE i - n \in 1 .. Len(p) /\ j - n \in 1 .. Len(p)
    <3>1. o[i] = p[i - n] /\ o[j] = p[j - n]
      BY <2>3, <2>7
    <3>2. i - n = j - n
      BY <1>1, <2>1, <2>7, <3>1 DEF RInv, RTyped, GoodPacer, p
    <3>3. QED
      BY <2>3, <3>2
  <2>8. CASE i \in 1 .. n /\ j - n \in 1 .. Len(p)
    <3>1. o[i] = in_hand[i] /\ o[j] = p[j - n]
      BY <2>3, <2>8
    <3>2. QED
      BY <2>1, <2>5, <2>8, <3>1
  <2>9. CASE i - n \in 1 .. Len(p) /\ j \in 1 .. n
    <3>1. o[i] = p[i - n] /\ o[j] = in_hand[j]
      BY <2>3, <2>9
    <3>2. QED
      BY <2>1, <2>5, <2>9, <3>1
  <2>10. QED
    BY <2>4, <2>6, <2>7, <2>8, <2>9
<1>2. QED
  BY <1>1, RetransmissionInvariant, PTL

\* A pending packet has its retransmission in the pacer or on its way there,
\* unless TrySendPacket dropped it: only then do later NACKs for it fail.
THEOREM PendingIsQueuedOrDropped ==
    RSpec /\ []RetransmissionsAreRecent => []PendingUnlessDropped
<1>1. ASSUME RInv PROVE PendingUnlessDropped
  <2> DEFINE h == packet_history_
  <2>1. SUFFICES ASSUME NEW i \in 1 .. Len(h), h[i].full, h[i].pending, h[i].order \notin dropped
                 PROVE  \E k \in 1 .. Len(Outstanding) : Outstanding[k].order = h[i].order
    BY DEF PendingUnlessDropped
  <2>2. h[i] \in Stored(h)
    BY <2>1 DEF Stored
  <2>3. PICK x \in Waiting : x.order = h[i].order
    BY <1>1, <2>1, <2>2 DEF RInv, RTyped, Matched
  <2>4. PICK k \in 1 .. Len(Outstanding) : Outstanding[k] = x
    BY <1>1, OutstandingIsWaiting
  <2>5. QED
    BY <2>3, <2>4
<1>2. QED
  BY <1>1, RetransmissionInvariant, PTL

\* A packet retransmitted before waits for retransmission only when the RTT
\* known at the NACK has passed since it was last sent, as media, as a
\* retransmission or as padding.
THEOREM RoundTripBetweenRetransmissions ==
    RSpec /\ []RetransmissionsAreRecent => []RetransmissionsSpaced
<1>1. ASSUME RInv PROVE RetransmissionsSpaced
  <2> DEFINE h == packet_history_
  <2>1. SUFFICES ASSUME NEW k \in 1 .. Len(Outstanding), NEW i \in 1 .. Len(h),
                        h[i].full, h[i].order = Outstanding[k].order, h[i].times > 0
                 PROVE  now >= h[i].sent + Outstanding[k].rtt
    BY DEF RetransmissionsSpaced
  <2>2. Outstanding[k] \in Waiting /\ h[i] \in Stored(h)
    BY <1>1, <2>1, OutstandingIsWaiting DEF Stored
  <2>3. Agree(h[i], Outstanding[k], now)
    BY <1>1, <2>2 DEF RInv, RTyped, Matched
  <2>4. QED
    BY <2>1, <2>3 DEF Agree
<1>2. QED
  BY <1>1, RetransmissionInvariant, PTL
=============================================================================
