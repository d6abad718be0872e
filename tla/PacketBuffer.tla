---------------------------- MODULE PacketBuffer ----------------------------
(***************************************************************************)
(* The ring buffer that turns received RTP packets into complete frames    *)
(* (packet_buffer.cpp, class PacketBuffer).                                *)
(*                                                                         *)
(* The object is the record                                                *)
(*   slots    buffer_, a function from 0..size-1 to a packet or NoPacket   *)
(*   first    first_seq_num_                                               *)
(*   started  first_packet_received_                                       *)
(*   cleared  is_cleared_to_first_seq_num_                                 *)
(*   newest   newest_inserted_seq_num_, NoSeq when it is not set           *)
(*   missing  missing_packets_                                             *)
(* and an operation is an operator from the object to its next value and   *)
(* what the method returns.  A packet is the record                        *)
(*   seq, ts   sequence number and timestamp                               *)
(*   begin     is_first_packet_in_frame, as the depacketizer sets it       *)
(*   end       is_last_packet_in_frame                                     *)
(*   key       generic: the frame type; H.264: the packet holds an IDR     *)
(*   many      H.264: nalus_length has reached kMaxNalusPerPacket          *)
(*   cont      continuous                                                  *)
(*   at        position in the sender's stream (a history variable: the    *)
(*             code never sees it)                                         *)
(***************************************************************************)
EXTENDS Integers, FiniteSets, Sequences

CONSTANTS
    SeqSpace,         \* 2^16: the number of sequence numbers
    StartSize,      \* start_buffer_size
    MaxSize,        \* max_buffer_size
    MissingAge,     \* kMaxPaddingAge = 1000 of UpdateMissingPackets
    NoPacket        \* an empty slot

ASSUME SeqSpaceAssumption == SeqSpace \in Nat /\ SeqSpace % 2 = 0 /\ SeqSpace > 2 * MaxSize

ASSUME SizeAssumption == StartSize \in 1..MaxSize /\ MaxSize % StartSize = 0

Seq16 == 0..(SeqSpace - 1)

NoSeq == -1

Refused == -2

-----------------------------------------------------------------------------
(* Wrap-around arithmetic of rtc_base/numerics, external to the repository. *)

Plus(s, k) == (s + k) % SeqSpace

ForwardDiff(a, b) == (b - a) % SeqSpace

AheadOf(a, b) ==
    LET d == ForwardDiff(b, a)
    IN  /\ a # b
        /\ IF d = SeqSpace \div 2 THEN b < a ELSE d < SeqSpace \div 2

\* The elements that precede upper_bound(s) in a set ordered oldest first.
NotAfter(S, s) == {x \in S : ~AheadOf(x, s)}

\* The last of the elements S in that order.
Latest(S) == CHOOSE x \in S : \A y \in S : ~AheadOf(y, x)

-----------------------------------------------------------------------------
EmptySlots(n) == [i \in 0..(n - 1) |-> NoPacket]

Size(b) == Cardinality(DOMAIN b.slots)

Slot(b, s) == b.slots[s % Size(b)]

Cleared(b) ==
    [slots |-> EmptySlots(Size(b)), first |-> b.first, started |-> FALSE,
     cleared |-> FALSE, newest |-> NoSeq, missing |-> {}]

NewBuffer ==
    [slots |-> EmptySlots(StartSize), first |-> 0, started |-> FALSE,
     cleared |-> FALSE, newest |-> NoSeq, missing |-> {}]

-----------------------------------------------------------------------------
(* ClearTo(seq_num): forget everything up to and including seq_num.        *)

MissingAfterClear(missing, s) ==
    LET old == NotAfter(missing, s)
    IN  IF old = {} THEN missing ELSE missing \ (old \ {Latest(old)})

ClearTo(b, seq) ==
    LET s == Plus(seq, 1)
        d == ForwardDiff(b.first, s)
        visited == {Plus(b.first, k) % Size(b) : k \in 0..(d - 1)}
        gone(i) == /\ i \in visited
                   /\ b.slots[i] # NoPacket
                   /\ AheadOf(s, b.slots[i].seq)
    IN  IF (b.cleared /\ AheadOf(b.first, seq)) \/ ~b.started
        THEN b
        ELSE [b EXCEPT !.slots = [i \in DOMAIN b.slots |->
                                    IF gone(i) THEN NoPacket ELSE b.slots[i]],
                       !.first = s,
                       !.cleared = TRUE,
                       !.missing = MissingAfterClear(b.missing, s)]

-----------------------------------------------------------------------------
(* UpdateMissingPackets(seq_num): the gaps below the newest packet.        *)

UpdateMissingPackets(b, s) ==
    LET newest == IF b.newest = NoSeq THEN s ELSE b.newest
        old == Plus(s, -MissingAge)
        from == Plus(IF AheadOf(old, newest) THEN old ELSE newest, 1)
        gap == {Plus(from, k) : k \in 0..(ForwardDiff(from, s) - 1)}
    IN  IF AheadOf(s, newest)
        THEN [b EXCEPT !.newest = s,
                       !.missing = {x \in @ : ~AheadOf(old, x)} \cup gap]
        ELSE [b EXCEPT !.newest = newest, !.missing = @ \ {s}]

-----------------------------------------------------------------------------
(* FindFrames(seq_num): hand out the frames that the packet completes.     *)

\* The slot k positions before that of s.
Before(b, s, k) == b.slots[((s % Size(b)) + Size(b) - k) % Size(b)]

PotentialNewFrame(b, s) ==
    LET e == Slot(b, s)
        p == Before(b, s, 1)
    IN  /\ e # NoPacket
        /\ e.seq = s
        /\ \/ e.begin
           \/ /\ p # NoPacket
              /\ p.seq = Plus(s, -1)
              /\ p.ts = e.ts
              /\ p.cont

\* How many packets the backward search from the last packet s steps over.
\* H.264 has no frame_begin bit: the search runs while the timestamp stays
\* the same.  Otherwise it runs to the packet with the bit, and dereferences
\* every slot on the way: NoSeq when one of them is empty.  An H.264 packet with
\* kMaxNalusPerPacket NAL units or more ends FindFrames: Refused.
BackwardSearch(b, s, h264) ==
    LET back == 0..(Size(b) - 1)
        stop(k) == IF h264
                   THEN \/ k = Size(b) - 1
                        \/ Before(b, s, k + 1) = NoPacket
                        \/ Before(b, s, k + 1).ts # Slot(b, s).ts
                   ELSE \/ k = Size(b) - 1
                        \/ Before(b, s, k) = NoPacket
                        \/ Before(b, s, k).begin
        n == CHOOSE k \in back : stop(k) /\ \A j \in 0..(k - 1) : ~stop(j)
    IN  CASE Before(b, s, n) = NoPacket -> NoSeq
          [] h264 /\ \E k \in 0..n : Before(b, s, k).many -> Refused
          [] OTHER -> n

\* The packets of the frame that ends at s, its boundary flags set, the type
\* of an H.264 frame decided by whether an IDR was seen.
FramePackets(b, s, n, h264) ==
    LET start == Plus(s, -n)
        idr == \E k \in 0..n : Before(b, s, k).key
    IN  [k \in 1..(n + 1) |->
            [Slot(b, Plus(start, k - 1)) EXCEPT
                !.begin = (k = 1), !.end = (k = n + 1),
                !.key = IF h264 /\ k = 1 THEN idr ELSE @]]

\* One frame found at s: the packets leave the buffer and the gaps before the
\* frame no longer matter.
TakeFrame(b, s, n) ==
    LET taken == {Plus(s, -k) % Size(b) : k \in 0..n}
    IN  [b EXCEPT !.slots = [i \in DOMAIN @ |-> IF i \in taken THEN NoPacket ELSE @[i]],
                  !.missing = @ \ NotAfter(@, s)]

\* The loop of FindFrames from its i-th iteration.  The result is the buffer,
\* the packets found, and whether a null slot was dereferenced.
RECURSIVE FindFramesFrom(_, _, _, _, _)

\* The packet s, which ends a frame of n packets before it, in the buffer b.
EndOfFrame(b, s, n, i, h264, found) ==
    IF n = NoSeq
    THEN [pb |-> b, found |-> <<>>, null |-> TRUE]
    ELSE IF \/ n = Refused
            \/ h264 /\ ~FramePackets(b, s, n, h264)[1].key
                    /\ NotAfter(b.missing, Plus(s, -n)) # {}
    THEN [pb |-> b, found |-> found, null |-> FALSE]
    ELSE FindFramesFrom(TakeFrame(b, s, n), Plus(s, 1), i + 1, h264,
                        Append(found, FramePackets(b, s, n, h264)))

\* The packet s, which is now marked continuous.
AtPacket(b, s, i, h264, found) ==
    IF Slot(b, s).end
    THEN EndOfFrame(b, s, BackwardSearch(b, s, h264), i, h264, found)
    ELSE FindFramesFrom(b, Plus(s, 1), i + 1, h264, found)

FindFramesFrom(b, s, i, h264, found) ==
    IF i = Size(b) \/ ~PotentialNewFrame(b, s)
    THEN [pb |-> b, found |-> found, null |-> FALSE]
    ELSE AtPacket([b EXCEPT !.slots[s % Size(b)].cont = TRUE], s, i, h264, found)

FindFrames(b, s, h264) == FindFramesFrom(b, s, 0, h264, <<>>)

-----------------------------------------------------------------------------
(* InsertPacket, InsertPadding.                                            *)

\* ExpandBufferSize, repeated until the slot of s is free or the limit is met.
RECURSIVE Expand(_, _)
Expand(b, s) ==
    LET n == IF 2 * Size(b) < MaxSize THEN 2 * Size(b) ELSE MaxSize
        kept == {i \in DOMAIN b.slots : b.slots[i] # NoPacket}
        home(j) == {i \in kept : b.slots[i].seq % n = j}
        bigger == [b EXCEPT !.slots = [j \in 0..(n - 1) |->
                     IF home(j) = {} THEN NoPacket
                     ELSE b.slots[CHOOSE i \in home(j) : TRUE]]]
    IN  IF Size(b) = MaxSize \/ Slot(b, s) = NoPacket THEN b ELSE Expand(bigger, s)

Found(r, full) == [pb |-> r.pb, found |-> r.found, null |-> r.null, full |-> full]

NoneFound(b, full) == Found([pb |-> b, found |-> <<>>, null |-> FALSE], full)

\* The packet goes into its slot, unless the slot is taken in the largest buffer.
Store(b, p, h264) ==
    IF Slot(b, p.seq) # NoPacket THEN NoneFound(Cleared(b), TRUE)
    ELSE Found(FindFrames(UpdateMissingPackets(
                              [b EXCEPT !.slots[p.seq % Size(b)] = [p EXCEPT !.cont = FALSE]], p.seq),
                          p.seq, h264),
               FALSE)

\* A packet that is in the buffer already is ignored.
StoreNew(b, p, h264) ==
    IF Slot(b, p.seq) # NoPacket /\ Slot(b, p.seq).seq = p.seq THEN NoneFound(b, FALSE)
    ELSE Store(Expand(b, p.seq), p, h264)

InsertPacket(b, p, h264) ==
    LET old == b.started /\ AheadOf(b.first, p.seq)
    IN  IF old /\ b.cleared THEN NoneFound(b, FALSE)
        ELSE StoreNew(IF b.started /\ ~old THEN b
                      ELSE [b EXCEPT !.first = p.seq, !.started = TRUE], p, h264)

InsertPadding(b, s, h264) ==
    Found(FindFrames(UpdateMissingPackets(b, s), Plus(s, 1), h264), FALSE)

=============================================================================
