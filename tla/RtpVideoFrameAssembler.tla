----------------------- MODULE RtpVideoFrameAssembler -----------------------
(***************************************************************************)
(* The video receive path (rtp_video_frame_assembler.cpp): RTP packets of  *)
(* one stream, in whatever order the network delivers them, go through the *)
(* packet buffer and the reference finder and come out as frames a decoder *)
(* can use.                                                                *)
(*                                                                         *)
(* The sender's stream is fixed in the initial state; the network loses,   *)
(* repeats and reorders its packets.  A packet of the stream is            *)
(*   kind   "media", "bare" (the depacketizer accepts it and finds nothing *)
(*          after the payload header) or "empty" (no payload at all, what  *)
(*          RTP padding looks like: the depacketizer refuses it)           *)
(*   frame  the frame it belongs to, 0 when it is not media                *)
(*   begin, end, key, many   as in PacketBuffer                            *)
(*   keyframe          the frame is a keyframe                             *)
(***************************************************************************)
EXTENDS RtpSeqNumOnlyRefFinder

CONSTANTS
    Streams(_),     \* the streams a sender may send with a codec
    FirstSeq,       \* the sequence number of a stream's first packet
    OldSeqNumThreshold,     \* kOldSeqNumThreshold = 2000
    MaxReorder,     \* bound: how far behind the newest packet one may arrive
    MaxDeliveries   \* bound: packets sent and packets delivered twice, together

VARIABLES
    codec,      \* "generic" or "h264", the payload format of the assembler
    stream,     \* the packets sent
    arrived,    \* how many times each packet has been received
    pb,         \* packet_buffer_
    rf,         \* reference_finder_
    shown,      \* the frames returned so far, in order
    overflowed, \* the packet buffer was cleared because it was full
    nullSlot,   \* FindFrames dereferenced an empty slot: the program is gone
    outrun,     \* padding outran the frames, see PaddingOutruns
    joined      \* the first packet that was not empty, 0 before it

vars == <<codec, stream, arrived, pb, rf, shown, overflowed, nullSlot, outrun, joined>>

Positions == DOMAIN stream

Newest == LET got == {i \in Positions : arrived[i] > 0}
          IN  IF got = {} THEN 0 ELSE CHOOSE i \in got : \A j \in got : j <= i

Repeats == Cardinality({i \in Positions : arrived[i] > 1})

PacketsOf(t) == {i \in Positions : stream[i].frame = t}

Keyframes == {stream[i].frame : i \in {j \in Positions : stream[j].keyframe}}

-----------------------------------------------------------------------------
Init ==
    /\ codec \in {"generic", "h264"}
    /\ stream \in Streams(codec)
    /\ arrived = [i \in DOMAIN stream |-> 0]
    /\ pb = NewBuffer
    /\ rf = NewFinder
    /\ shown = <<>>
    /\ overflowed = FALSE
    /\ nullSlot = FALSE
    /\ outrun = FALSE
    /\ joined = 0

h264 == codec = "h264"

SeqAt(i) == Plus(FirstSeq, i - 1)

PacketAt(i) ==
    [seq |-> SeqAt(i), ts |-> stream[i].frame, begin |-> stream[i].begin,
     end |-> stream[i].end, key |-> stream[i].key, many |-> stream[i].many,
     cont |-> FALSE, at |-> i]

\* AssembleFrames: the packets found become frame objects.
AssembleFrames(found) ==
    [k \in DOMAIN found |->
        [first |-> found[k][1].seq, last |-> Last(found[k]).seq,
         key |-> found[k][1].key,
         pkts |-> {found[k][j].at : j \in DOMAIN found[k]}]]

\* FindReferences: every frame through the reference finder, in order.
Following(acc, r) == [rf |-> r.rf, out |-> acc.out \o r.out]

FindReferences(f, frames) ==
    FoldLeft(LAMBDA acc, fr : Following(acc, ManageFrame(acc.rf, fr)),
             [rf |-> f, out |-> <<>>], frames)

\* What the decoder is given: the frame, and whether all of it is there.
Shown(out) ==
    [k \in DOMAIN out |->
        LET t == stream[CHOOSE i \in out[k].pkts : TRUE].frame
        IN  [frame |-> t, whole |-> out[k].pkts = PacketsOf(t)]]

OldBefore(i) == Plus(SeqAt(i), -OldSeqNumThreshold)

\* Mutant: ClearOldData returns at once (the commented-out line in the code).
UnclearedBuffer(i) == pb

\* ClearOldData on the two objects.
ClearedBuffer(i) == ClearTo(pb, OldBefore(i))

ClearedFinder(i) == FinderClearTo(rf, OldBefore(i))

\* Padding s comes before the reference finder exists, which then never hears
\* of it, or makes it forget the age of a group of pictures whose frames before
\* s are still to come.  In H.264 it may overtake any packet: FindFrames, called
\* for that packet, stops at the padding, which is not in the buffer, and never
\* gets to the frames behind it that waited for the packet.
PaddingOutruns(b, f, s) ==
    \/ ~f.made
    \/ h264 /\ NotAfter(b.missing, s) # {}
    \/ /\ GopsOf(f, s) # {}
       /\ ForwardDiff(Latest(GopsOf(f, s)), s) > RekeyAge

Delivered(i) ==
    /\ ~nullSlot
    /\ Newest - i <= MaxReorder
    /\ \/ arrived[i] = 0
       \/ arrived[i] = 1 /\ Len(stream) + Repeats < MaxDeliveries
    /\ arrived' = [arrived EXCEPT ![i] = @ + 1]
    /\ joined' = IF joined = 0 /\ stream[i].kind # "empty" THEN i ELSE joined
    /\ UNCHANGED <<codec, stream>>

\* InsertPacket, the payload empty: the depacketizer refuses it.
InsertEmpty(i) ==
    /\ Delivered(i)
    /\ stream[i].kind = "empty"
    /\ UNCHANGED <<pb, rf, shown, overflowed, nullSlot, outrun>>

\* InsertPacket, nothing after the payload header: UpdateWithPadding.
InsertBare(i) ==
    /\ Delivered(i)
    /\ stream[i].kind = "bare"
    /\ \E r \in {InsertPadding(ClearedBuffer(i), SeqAt(i), h264)} :
       \E refs \in {FindReferences(ClearedFinder(i), AssembleFrames(r.found))} :
       \E pad \in {PaddingReceived(refs.rf, SeqAt(i))} :
           /\ pb' = r.pb
           /\ rf' = pad.rf
           /\ shown' = shown \o Shown(refs.out \o pad.out)
           /\ nullSlot' = r.null
           /\ outrun' = (outrun \/ PaddingOutruns(r.pb, refs.rf, SeqAt(i)))
    /\ UNCHANGED overflowed

\* InsertPacket, a media packet.
InsertMedia(i) ==
    /\ Delivered(i)
    /\ stream[i].kind = "media"
    /\ \E r \in {InsertPacket(ClearedBuffer(i), PacketAt(i), h264)} :
       \E refs \in {FindReferences(ClearedFinder(i), AssembleFrames(r.found))} :
           /\ pb' = r.pb
           /\ rf' = refs.rf
           /\ shown' = shown \o Shown(refs.out)
           /\ nullSlot' = r.null
           /\ overflowed' = (overflowed \/ r.full)
    /\ UNCHANGED outrun

Next ==
    \E i \in Positions : InsertEmpty(i) \/ InsertBare(i) \/ InsertMedia(i)

Spec == Init /\ [][Next]_vars

-----------------------------------------------------------------------------
(* Properties.                                                             *)

\* Type: buffer slots hold packets of their own residue, and the finder's map,
\* stash and padding hold sequence numbers and frames of this stream.
TypeOK ==
    /\ arrived \in [Positions -> 0..2]
    /\ Size(pb) \in StartSize..MaxSize
    /\ \A k \in DOMAIN pb.slots :
          pb.slots[k] # NoPacket => pb.slots[k].seq % Size(pb) = k
    /\ pb.missing \subseteq Seq16
    /\ DOMAIN rf.gop \subseteq Seq16
    /\ rf.padding \subseteq Seq16
    /\ Len(rf.stash) <= MaxStashedFrames + 1

\* FindFrames (packet_buffer.cpp:236-237) is to "find the first packet of the
\* frame and add all packets of the frame": the backward search never meets an
\* empty slot, because a packet marked continuous still has the packets before
\* it in the buffer.
SearchFindsFrameStart == ~nullSlot

\* AssembleFrames ignores buffer_cleared, the request for a keyframe: the
\* buffer must never be full, since ClearOldData frees the slots that a packet
\* within the sequence number window needs.
BufferNeverFull == ~overflowed

FirstOf(t) == CHOOSE i \in PacketsOf(t) : \A j \in PacketsOf(t) : i <= j

LastOf(t) == CHOOSE i \in PacketsOf(t) : \A j \in PacketsOf(t) : j <= i

ShownFrames == {shown[k].frame : k \in DOMAIN shown}

KeyOf(t) == CHOOSE k \in Keyframes : k <= t /\ \A j \in Keyframes : j <= t => j <= k

\* Every packet from the start of t's keyframe to the end of t has come.
Arrived(t) == \A i \in FirstOf(KeyOf(t))..LastOf(t) : arrived[i] > 0

\* None of them is padding that the depacketizer refuses, or a packet with so
\* many NAL units that FindFrames gives its frame up (packet_buffer.cpp:264).
Usable(t) ==
    \A i \in FirstOf(KeyOf(t))..LastOf(t) : stream[i].kind # "empty" /\ ~stream[i].many

\* No frame is withheld: once all packets back to its keyframe have arrived, in
\* any order, a frame has been shown, unless one of them cannot be used, a later
\* keyframe has replaced it or padding outran the frames.  An H.264 receiver must
\* also have joined before the keyframe: it takes the first packet that comes for
\* the start of a frame.
NothingWithheld ==
    \A t \in {stream[i].frame : i \in Positions} \ {0} :
        (/\ Arrived(t)
         /\ Usable(t)
         /\ ~outrun
         /\ h264 => joined <= FirstOf(KeyOf(t))
         /\ ~\E k \in Keyframes : k > t /\ k \in ShownFrames)
            => t \in ShownFrames

\* The receive path implements the abstract stream.
Abstract == INSTANCE DecodableStream WITH keys <- Keyframes

\* Refinement: whatever the network loses, repeats or reorders, what the
\* assembler returns can be decoded in the order it is returned: a frame that
\* is not a keyframe comes whole, once, and after the frame it refers to.
ShowsOnlyDecodable == Abstract!DSpec

=============================================================================
