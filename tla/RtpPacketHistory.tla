-------------------------- MODULE RtpPacketHistory --------------------------
(***************************************************************************)
(* The history of sent RTP packets that answers NACKs and feeds payload    *)
(* padding: src/rtp_rtcp/rtp_packet_history.{h,cc}.  Every public method   *)
(* runs under lock_, so each is one atomic action.                         *)
(*                                                                         *)
(* packet_history_ is a deque of StoredPacket slots.  The slot at distance *)
(* d from the front is the slot of the d-th sequence number after that of  *)
(* the front packet; a slot whose packet_ is nullptr is a hole.            *)
(* padding_priority_ is a std::set of pointers to slots ordered by         *)
(* MoreUseful; a pointer is represented by the slot's insert_order_, and   *)
(* membership is decided, as in std::set, by the comparator's key.         *)
(***************************************************************************)
EXTENDS Integers, Sequences, FiniteSets, FiniteSetsExt

CONSTANTS SeqSpan,                   \* kSeqNumSpan, 2^16 in the code
          kMaxCapacity,              \* 9600
          kMaxPaddingHistory,        \* 63
          kMinPacketDurationMs,      \* 1000
          kMinPacketDurationRtt,     \* 3
          kPacketCullingDelayFactor, \* 3
          EnablePaddingPrio,         \* constructor argument
          MaxGap,                    \* sequence numbers the sender may skip
          MaxReorder,                \* how far behind the newest a packet may be put
          InitialNewest,             \* last sequence number before the first packet
          Rtts, Capacities,          \* arguments of SetRtt / SetStorePacketsStatus
          MaxTime, MaxInserted, MaxRetransmit   \* bounds of the state space

SeqNo == 0 .. SeqSpan - 1
HalfSpan == SeqSpan \div 2

\* The farthest the newest sequence number gets from the front packet.
MaxDistance == kMaxCapacity + MaxReorder + MaxGap

ASSUME SpanAssumption ==
    /\ SeqSpan \in Nat /\ HalfSpan \in Nat /\ SeqSpan = 2 * HalfSpan
    /\ kMaxCapacity \in Nat \ {0}
    /\ MaxGap \in Nat /\ MaxReorder \in Nat
    /\ MaxDistance < HalfSpan
    /\ InitialNewest \subseteq SeqNo

ASSUME DurationAssumption ==
    /\ kMinPacketDurationMs \in Nat /\ kMinPacketDurationRtt \in Nat
    /\ kPacketCullingDelayFactor \in Nat
    /\ kMaxPaddingHistory \in Nat \ {0, 1}
    /\ EnablePaddingPrio \in BOOLEAN
    /\ Rtts \subseteq Nat /\ Capacities \subseteq Nat
    /\ MaxTime \in Nat /\ MaxInserted \in Nat /\ MaxRetransmit \in Nat

VARIABLES now,               \* clock_->TimeInMilliseconds()
          mode_, number_to_store_, rtt_ms_,
          packet_history_, packets_inserted_, padding_priority_,
          newest             \* environment: newest sequence number the sender used

vars == <<now, mode_, number_to_store_, rtt_ms_, packet_history_,
          packets_inserted_, padding_priority_, newest>>
config == <<mode_, number_to_store_>>
-----------------------------------------------------------------------------
(* Slots.                                                                  *)

NoTime == -1

Slot == [full : BOOLEAN, seq : SeqNo, pending : BOOLEAN,
         sent : Nat \cup {NoTime}, times : Nat, order : Nat]

StoredPacketNeverPending(seq, sent, order) ==
    [full |-> TRUE, seq |-> seq, pending |-> FALSE,
     sent |-> sent, times |-> 0, order |-> order]

\* StoredPacket(packet, send_time_ms, insert_order): pending unless the packet
\* was sent without the pacer.
StoredPacket(seq, sent, order) ==
    [full |-> TRUE, seq |-> seq, pending |-> sent = NoTime,
     sent |-> sent, times |-> 0, order |-> order]

\* StoredPacket(nullptr, nullopt, 0); its seq field is never read.
Hole == [full |-> FALSE, seq |-> 0, pending |-> TRUE,
         sent |-> NoTime, times |-> 0, order |-> 0]
-----------------------------------------------------------------------------
(* Sequence number arithmetic.                                             *)

\* How many increments of a 16-bit counter lead from a to b.
Ahead(a, b) == IF b >= a THEN b - a ELSE b - a + SeqSpan

Plus(s, n) == IF s + n < SeqSpan THEN s + n ELSE s + n - SeqSpan

\* webrtc::IsNewerSequenceNumber (external): half the span breaks the tie.
IsNewerSequenceNumber(s, prev) ==
    \/ s # prev /\ Ahead(prev, s) < HalfSpan
    \/ Ahead(prev, s) = HalfSpan /\ s > prev

IndexFromShortWrap(first_seq, s) ==
    IF s = first_seq THEN 0
    ELSE IF IsNewerSequenceNumber(s, first_seq)
         THEN s - first_seq + (IF s < first_seq THEN SeqSpan - 1 ELSE 0)
         ELSE s - first_seq - (IF s > first_seq THEN SeqSpan - 1 ELSE 0)

\* The signed distance of GetPacketIndex, with its forward and backward wraps.
IndexFrom(first_seq, s) ==
    IF s = first_seq THEN 0
    ELSE IF IsNewerSequenceNumber(s, first_seq)
         THEN s - first_seq + (IF s < first_seq THEN SeqSpan ELSE 0)
         ELSE s - first_seq - (IF s > first_seq THEN SeqSpan ELSE 0)

GetPacketIndex(h, s) == IF h = <<>> THEN 0 ELSE IndexFrom(h[1].seq, s)

\* 1-based position of s in the deque, 0 when GetStoredPacket returns nullptr.
GetStoredPacket(h, s) ==
    LET index == GetPacketIndex(h, s)
    IN  IF index >= 0 /\ index < Len(h) /\ h[index + 1].full THEN index + 1 ELSE 0
-----------------------------------------------------------------------------
(* The deque.                                                              *)

DropFront(h, k) == [i \in 1 .. Len(h) - k |-> h[i + k]]

ExpandFront(h, k) == [i \in 1 .. Len(h) + k |-> IF i <= k THEN Hole ELSE h[i - k]]

ExpandBack(h, n) ==
    [i \in 1 .. (IF n > Len(h) THEN n ELSE Len(h)) |-> IF i <= Len(h) THEN h[i] ELSE Hole]

\* Number of front slots pop_front() takes until the front is populated.
FrontHoles(h) == Min({k \in 0 .. Len(h) : k = Len(h) \/ h[k + 1].full})

\* The members of the priority set that MoreUseful cannot tell from `slot':
\* what padding_priority_.erase(slot) removes.
Equivalent(h, prio, slot) ==
    {m \in prio : /\ m = slot.order
                  /\ \E i \in 1 .. Len(h) : h[i].full /\ h[i].order = m
                                              /\ h[i].times = slot.times}

EraseFromPriority(h, prio, slot) ==
    IF EnablePaddingPrio THEN prio \ Equivalent(h, prio, slot) ELSE prio

\* RemovePacket moves packet_ out of the slot, which keeps its priority key (its
\* other fields are not read again), and at the front only pops the holes.
Emptied(slot) ==
    [full |-> FALSE, seq |-> 0, pending |-> TRUE,
     sent |-> NoTime, times |-> slot.times, order |-> slot.order]

RemovePacketKeepingHoles(h, i) == [h EXCEPT ![i] = Emptied(h[i])]

RemovePacket(h, i) ==
    LET emptied == [h EXCEPT ![i] = Emptied(h[i])]
    IN  IF i = 1 THEN DropFront(emptied, FrontHoles(emptied)) ELSE emptied

PacketDuration(rtt) ==
    IF kMinPacketDurationRtt * rtt > kMinPacketDurationMs
    THEN kMinPacketDurationRtt * rtt ELSE kMinPacketDurationMs

RemovedByCullingPendingToo(slot, size, t, rtt, to_store) ==
    \/ size >= kMaxCapacity
    \/ /\ slot.sent + PacketDuration(rtt) <= t
       /\ \/ size >= to_store
          \/ slot.sent + PacketDuration(rtt) * kPacketCullingDelayFactor <= t

\* The body of CullOldPackets' loop for a front slot of a deque of `size'.
RemovedByCulling(slot, size, t, rtt, to_store) ==
    \/ size >= kMaxCapacity
    \/ /\ ~slot.pending
       /\ slot.sent + PacketDuration(rtt) <= t
       /\ \/ size >= to_store
          \/ slot.sent + PacketDuration(rtt) * kPacketCullingDelayFactor <= t

\* The loop stops at the first populated slot it does not remove.
CullPoint(h, t, rtt, to_store) ==
    Min({k \in 0 .. Len(h) :
            \/ k = Len(h)
            \/ /\ h[k + 1].full
               /\ ~RemovedByCulling(h[k + 1], Len(h) - k, t, rtt, to_store)})

OrdersUpTo(h, k) == {h[i].order : i \in {j \in 1 .. k : h[j].full}}

\* CullOldPackets: the deque and the priority set it leaves.
CullOldPackets(h, t, rtt, to_store) ==
    DropFront(h, CullPoint(h, t, rtt, to_store))

CullPriorityForgetting(h, prio, t, rtt, to_store) == prio

CullPriority(h, prio, t, rtt, to_store) ==
    prio \ OrdersUpTo(h, CullPoint(h, t, rtt, to_store))
-----------------------------------------------------------------------------
(* The padding priority set.                                               *)

TimesOf(h, m) == LET i == CHOOSE i \in 1 .. Len(h) : h[i].full /\ h[i].order = m
                 IN  h[i].times

\* MoreUseful: fewer retransmissions first, then the newer packet.
MoreUseful(h, l, r) ==
    \/ TimesOf(h, l) < TimesOf(h, r)
    \/ TimesOf(h, l) = TimesOf(h, r) /\ l > r

MostUseful(h, prio) == CHOOSE m \in prio : \A n \in prio \ {m} : MoreUseful(h, m, n)
LeastUseful(h, prio) == CHOOSE m \in prio : \A n \in prio \ {m} : MoreUseful(h, n, m)

InsertIntoPriorityUnbounded(h, prio, order) ==
    IF EnablePaddingPrio THEN prio \cup {order} ELSE prio

\* The insertion of PutRtpPacket, which first makes room.
InsertIntoPriority(h, prio, order) ==
    CASE ~EnablePaddingPrio -> prio
      [] EnablePaddingPrio /\ Cardinality(prio) >= kMaxPaddingHistory - 1 ->
             (prio \ {LeastUseful(h, prio)}) \cup {order}
      [] OTHER -> prio \cup {order}
-----------------------------------------------------------------------------
(* The operations.                                                         *)

Enabled == mode_ = "kStoreAndCull"

SetStoreUnclamped(mode, number_to_store) ==
    /\ packet_history_' = <<>>
    /\ padding_priority_' = {}
    /\ mode_' = mode
    /\ number_to_store_' = number_to_store
    /\ UNCHANGED <<now, rtt_ms_, packets_inserted_, newest>>

SetStorePacketsStatus(mode, number_to_store) ==
    /\ packet_history_' = <<>>
    /\ padding_priority_' = {}
    /\ mode_' = mode
    /\ number_to_store_' = Min({kMaxCapacity, number_to_store})
    /\ UNCHANGED <<now, rtt_ms_, packets_inserted_, newest>>

SetRtt(rtt) ==
    /\ rtt_ms_' = rtt
    /\ IF Enabled
       THEN /\ packet_history_' = CullOldPackets(packet_history_, now, rtt, number_to_store_)
            /\ padding_priority_' = CullPriority(packet_history_, padding_priority_,
                                                 now, rtt, number_to_store_)
       ELSE UNCHANGED <<packet_history_, padding_priority_>>
    /\ UNCHANGED <<now, config, packets_inserted_, newest>>

\* The deque after culling and, for a duplicate, after removing the old copy.
MadeReady(s) ==
    LET culled == CullOldPackets(packet_history_, now, rtt_ms_, number_to_store_)
        at == GetStoredPacket(culled, s)
    IN  IF at # 0 THEN RemovePacket(culled, at) ELSE culled

ReadyPriority(s) ==
    LET culled == CullOldPackets(packet_history_, now, rtt_ms_, number_to_store_)
        prio == CullPriority(packet_history_, padding_priority_, now, rtt_ms_, number_to_store_)
        at == GetStoredPacket(culled, s)
    IN  IF at # 0 THEN EraseFromPriority(culled, prio, culled[at]) ELSE prio

InsertedWithoutHoles(h, packet) ==
    LET index == GetPacketIndex(h, packet.seq)
    IN  IF index < 0
        THEN [ExpandFront(h, -index) EXCEPT ![1] = packet]
        ELSE IF index < Len(h) THEN [h EXCEPT ![index + 1] = packet] ELSE Append(h, packet)

\* The insertion itself: expand the front or the back up to the packet's slot.
Inserted(h, packet) ==
    LET index == GetPacketIndex(h, packet.seq)
    IN  IF index < 0
        THEN [ExpandFront(h, -index) EXCEPT ![1] = packet]
        ELSE [ExpandBack(h, index + 1) EXCEPT ![index + 1] = packet]

\* The sequence numbers the sender may be putting: a little ahead of the newest
\* one (others were not stored) or a little behind it (reordered by the pacer).
PutWindow == {Plus(newest, g) : g \in 1 .. MaxGap + 1}
                \cup {s \in SeqNo : Ahead(s, newest) <= MaxReorder}

Newer(s) == IF Ahead(s, newest) <= MaxReorder THEN newest ELSE s

PutRtpPacket(s, sent) ==
    /\ packets_inserted_ < MaxInserted
    /\ s \in PutWindow
    /\ newest' = Newer(s)
    /\ IF Enabled
       THEN LET packet == StoredPacket(s, sent, packets_inserted_)
                h == Inserted(MadeReady(s), packet)
            IN  /\ packet_history_' = h
                /\ packets_inserted_' = packets_inserted_ + 1
                /\ padding_priority_' = InsertIntoPriority(h, ReadyPriority(s), packet.order)
       ELSE UNCHANGED <<packet_history_, packets_inserted_, padding_priority_>>
    /\ UNCHANGED <<now, config, rtt_ms_>>

VerifyRttAlways(slot) == TRUE

\* VerifyRtt: a packet already retransmitted waits one RTT.
VerifyRtt(slot) ==
    slot.sent # NoTime /\ slot.times > 0 => now >= slot.sent + rtt_ms_

\* IncrementTimesRetransmitted re-keys the slot inside the set: the set of
\* pointers is the same afterwards.
Retransmitted(slot) == [slot EXCEPT !.times = @ + 1]

Update(at, slot) ==
    /\ packet_history_' = [packet_history_ EXCEPT ![at] = slot]
    /\ UNCHANGED <<now, config, rtt_ms_, packets_inserted_, padding_priority_, newest>>

\* Each getter returns nullptr, and changes nothing, when its guard fails.
GetPacketAndSetSendTime(s) ==
    /\ Enabled
    /\ GetStoredPacket(packet_history_, s) # 0
    /\ LET at == GetStoredPacket(packet_history_, s)
           slot == packet_history_[at]
       IN  /\ VerifyRtt(slot)
           /\ slot.times < MaxRetransmit
           /\ Update(at, [(IF slot.sent # NoTime THEN Retransmitted(slot) ELSE slot)
                              EXCEPT !.sent = now, !.pending = FALSE])

MayRetransmitPendingToo(s) ==
    /\ Enabled
    /\ GetStoredPacket(packet_history_, s) # 0
    /\ VerifyRtt(packet_history_[GetStoredPacket(packet_history_, s)])

\* GetPacketState answers with a packet that is not pending (ReSendPacket's
\* check); GetPacketAndMarkAsPending applies the same conditions.
MayRetransmit(s) ==
    /\ Enabled
    /\ GetStoredPacket(packet_history_, s) # 0
    /\ ~packet_history_[GetStoredPacket(packet_history_, s)].pending
    /\ VerifyRtt(packet_history_[GetStoredPacket(packet_history_, s)])

\* encapsulate may refuse, in which case nothing changes.
GetPacketAndMarkAsPending(s) ==
    /\ MayRetransmit(s)
    /\ LET at == GetStoredPacket(packet_history_, s)
       IN  Update(at, [packet_history_[at] EXCEPT !.pending = TRUE])

MarkPacketAsSent(s) ==
    /\ Enabled
    /\ GetStoredPacket(packet_history_, s) # 0
    /\ LET at == GetStoredPacket(packet_history_, s)
           slot == packet_history_[at]
       IN  /\ slot.times < MaxRetransmit
           /\ Update(at, [Retransmitted(slot) EXCEPT !.sent = now, !.pending = FALSE])

SetPendingTransmission(s) ==
    /\ Enabled
    /\ GetStoredPacket(packet_history_, s) # 0
    /\ LET at == GetStoredPacket(packet_history_, s)
       IN  Update(at, [packet_history_[at] EXCEPT !.pending = TRUE])

\* The slot GetPayloadPaddingPacket picks, 0 for none.
PaddingChoice ==
    IF EnablePaddingPrio
    THEN IF padding_priority_ = {} THEN 0
         ELSE CHOOSE i \in 1 .. Len(packet_history_) :
                  /\ packet_history_[i].full
                  /\ packet_history_[i].order = MostUseful(packet_history_, padding_priority_)
    ELSE Max({0} \cup {i \in 1 .. Len(packet_history_) : packet_history_[i].full})

GetPayloadPaddingPacketPendingToo ==
    /\ Enabled
    /\ PaddingChoice # 0
    /\ LET slot == packet_history_[PaddingChoice]
       IN  /\ slot.times < MaxRetransmit
           /\ Update(PaddingChoice, [Retransmitted(slot) EXCEPT !.sent = now])

GetPayloadPaddingPacket ==
    /\ Enabled
    /\ PaddingChoice # 0
    /\ LET slot == packet_history_[PaddingChoice]
       IN  /\ ~slot.pending
           /\ slot.times < MaxRetransmit
           /\ Update(PaddingChoice, [Retransmitted(slot) EXCEPT !.sent = now])

\* One element of CullAcknowledgedPackets' list.  The slot may be a hole: it is
\* removed again, and so is whatever its key matches in the priority set.
CullAcknowledgedPacket(s) ==
    /\ GetPacketIndex(packet_history_, s) >= 0
    /\ GetPacketIndex(packet_history_, s) < Len(packet_history_)
    /\ LET at == GetPacketIndex(packet_history_, s) + 1
       IN  /\ packet_history_' = RemovePacket(packet_history_, at)
           /\ padding_priority_' = EraseFromPriority(packet_history_, padding_priority_,
                                                     packet_history_[at])
    /\ UNCHANGED <<now, config, rtt_ms_, packets_inserted_, newest>>

Clear ==
    /\ packet_history_' = <<>>
    /\ padding_priority_' = {}
    /\ UNCHANGED <<now, config, rtt_ms_, packets_inserted_, newest>>

Tick ==
    /\ now < MaxTime
    /\ now' = now + 1
    /\ UNCHANGED <<config, rtt_ms_, packet_history_, packets_inserted_,
                   padding_priority_, newest>>
-----------------------------------------------------------------------------
Init ==
    /\ now = 0
    /\ mode_ = "kDisabled"
    /\ number_to_store_ = 0
    /\ rtt_ms_ = -1
    /\ packet_history_ = <<>>
    /\ packets_inserted_ = 0
    /\ padding_priority_ = {}
    /\ newest \in InitialNewest

Next ==
    \/ \E n \in Capacities : SetStorePacketsStatus("kStoreAndCull", n)
    \/ SetStorePacketsStatus("kDisabled", 0)
    \/ \E r \in Rtts : SetRtt(r)
    \/ \E s \in SeqNo : PutRtpPacket(s, now) \/ PutRtpPacket(s, NoTime)
    \/ \E s \in SeqNo : GetPacketAndSetSendTime(s)
    \/ \E s \in SeqNo : GetPacketAndMarkAsPending(s)
    \/ \E s \in SeqNo : MarkPacketAsSent(s)
    \/ \E s \in SeqNo : SetPendingTransmission(s)
    \/ \E s \in SeqNo : CullAcknowledgedPacket(s)
    \/ GetPayloadPaddingPacket
    \/ Clear
    \/ Tick

Spec == Init /\ [][Next]_vars
-----------------------------------------------------------------------------
(* Properties.                                                             *)

\* Every variable keeps its type; number_to_store_ never exceeds kMaxCapacity.
TypeOK ==
    /\ now \in Nat
    /\ mode_ \in {"kDisabled", "kStoreAndCull"}
    /\ number_to_store_ \in 0 .. kMaxCapacity
    /\ rtt_ms_ \in Nat \cup {-1}
    /\ packet_history_ \in Seq(Slot)
    /\ packets_inserted_ \in Nat
    /\ padding_priority_ \subseteq Nat
    /\ newest \in SeqNo

\* GetPacketIndex reads the front packet's sequence number without a check
\* (rtp_packet_history.cc:467): the front slot of a non-empty deque is populated.
FrontPopulated == packet_history_ # <<>> => packet_history_[1].full

\* Whatever was culled, acknowledged, reordered or wrapped around, the distance
\* between two stored packets in the deque is the distance of their sequence
\* numbers.
SlotOrder ==
    \A i, j \in 1 .. Len(packet_history_) :
        i <= j /\ packet_history_[i].full /\ packet_history_[j].full
            => Ahead(packet_history_[i].seq, packet_history_[j].seq) = j - i

\* A NACK for a packet that is still stored finds it: GetPacketIndex of the
\* sequence number of a populated slot is that slot.
EveryStoredPacketIsFound ==
    \A i \in 1 .. Len(packet_history_) :
        packet_history_[i].full
            => GetStoredPacket(packet_history_, packet_history_[i].seq) = i

\* CullOldPackets dereferences send_time_ms_ of a front packet that is not
\* pending (lines 422 and 428): such a packet has a send time.
SentUnlessPending ==
    \A i \in 1 .. Len(packet_history_) :
        packet_history_[i].full /\ ~packet_history_[i].pending
            => packet_history_[i].sent # NoTime

\* No two stored packets share an insertion order, so MoreUseful is a strict
\* order on them and the DCHECKs on insertion into the set (72, 176) hold.
InsertOrderUnique ==
    \A i, j \in 1 .. Len(packet_history_) :
        /\ packet_history_[i].full => packet_history_[i].order < packets_inserted_
        /\ i # j /\ packet_history_[i].full /\ packet_history_[j].full
               => packet_history_[i].order # packet_history_[j].order

\* The priority set holds raw pointers into the deque: none dangles, each points
\* to a slot that still has its packet.
PaddingPointersLive ==
    \A m \in padding_priority_ :
        \E i \in 1 .. Len(packet_history_) :
            packet_history_[i].full /\ packet_history_[i].order = m

\* The priority set stays below its limit, and the deque holds at most
\* kMaxCapacity packets even when a gap makes it longer than that.
WithinLimits ==
    /\ Cardinality(padding_priority_) <= kMaxPaddingHistory - 1
    /\ Cardinality({i \in 1 .. Len(packet_history_) : packet_history_[i].full}) <= kMaxCapacity

CullingSparesLive ==
    (\E r \in Rtts : SetRtt(r)) /\ Len(packet_history_) < kMaxCapacity =>
        \A i \in 1 .. Len(packet_history_) :
            LET slot == packet_history_[i]
            IN  /\ slot.full
                /\ slot.pending \/ slot.sent + PacketDuration(rtt_ms_') > now
                => GetStoredPacket(packet_history_', slot.seq) # 0

\* Culling on a new RTT takes no packet that is pending in the pacer, nor one
\* sent within max(kMinPacketDurationMs, kMinPacketDurationRtt * rtt), unless
\* the deque is at capacity.
CullingSparesLivePackets == [][CullingSparesLive]_vars

(* The inductive invariant.  SlotOrder alone is not inductive: that an inserted
   packet lands in its own slot needs every distance below half the span,
   which follows from the capacity culling enforces and from how far the
   newest packet can be from the back of the deque.                        *)

GoodDeque(h, newest_seq) ==
    /\ h \in Seq(Slot)
    /\ h # <<>> =>
           /\ h[1].full
           /\ \A i \in 1 .. Len(h) : h[i].full => Ahead(h[1].seq, h[i].seq) = i - 1
           /\ Len(h) - 1 <= Ahead(h[1].seq, newest_seq)
           /\ Ahead(h[1].seq, newest_seq) <= Len(h) - 1 + MaxReorder
           /\ Ahead(h[1].seq, newest_seq) <= MaxDistance
    /\ \A i \in 1 .. Len(h) : h[i].full /\ ~h[i].pending => h[i].sent # NoTime

GoodOrders(h, inserted) ==
    /\ \A i \in 1 .. Len(h) : h[i].full => h[i].order < inserted
    /\ \A i, j \in 1 .. Len(h) :
           i # j /\ h[i].full /\ h[j].full => h[i].order # h[j].order

GoodPriority(h, prio) ==
    /\ prio \subseteq Nat
    /\ \A m \in prio : \E i \in 1 .. Len(h) : h[i].full /\ h[i].order = m
    /\ ~EnablePaddingPrio => prio = {}

\* The inductive invariant: types, and the deque, the insertion orders and the
\* priority set fit together.
IInv ==
    /\ TypeOK
    /\ GoodDeque(packet_history_, newest)
    /\ GoodOrders(packet_history_, packets_inserted_)
    /\ GoodPriority(packet_history_, padding_priority_)
    /\ ~Enabled => packet_history_ = <<>>
=============================================================================
