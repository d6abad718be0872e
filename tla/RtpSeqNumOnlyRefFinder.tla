----------------------- MODULE RtpSeqNumOnlyRefFinder -----------------------
(***************************************************************************)
(* Which frame a frame refers to, worked out from sequence numbers alone   *)
(* (rtp_seq_num_only_ref_finder.cc behind rtp_frame_reference_finder.cpp). *)
(*                                                                         *)
(* The object is the record                                                *)
(*   made     the variant holds a RtpSeqNumOnlyRefFinder (the first frame  *)
(*            creates it)                                                  *)
(*   gop      last_seq_num_gop_: from the last packet of a keyframe to     *)
(*            <<last picture, last picture advanced over padding>>         *)
(*   stash    stashed_frames_, newest first                                *)
(*   padding  stashed_padding_                                             *)
(*   clearTo  cleared_to_seq_num_, NoSeq for -1                            *)
(* A frame is the record [first, last, key, pkts]; pkts, the positions of  *)
(* its packets in the sender's stream, is a history variable.              *)
(***************************************************************************)
EXTENDS PacketBuffer, SequencesExt

CONSTANTS
    MaxStashedFrames,   \* kMaxStashedFrames
    PaddingAge,         \* kMaxPaddingAge = 100 of the finder
    GopAge,             \* 100: how long a keyframe is remembered
    RekeyAge            \* 10000: how old the key of a group of pictures gets

NewFinder ==
    [made |-> FALSE, gop |-> <<>>, stash |-> <<>>, padding |-> {}, clearTo |-> NoSeq]

-----------------------------------------------------------------------------
\* The group of pictures that sequence number s belongs to.
GopsOf(f, s) == NotAfter(DOMAIN f.gop, s)

RECURSIVE OverPadding(_, _)
OverPadding(s, padding) ==
    IF Plus(s, 1) \in padding THEN OverPadding(Plus(s, 1), padding) ELSE s

\* UpdateLastPictureIdWithPadding(seq_num), in the group of pictures g, whose
\* padding reaches up to `to'.
AdvanceGop(f, g, to, s) ==
    LET from == f.gop[g][2]
        used == {Plus(from, k) : k \in 1..ForwardDiff(from, to)}
        entry == <<f.gop[g][1], to>>
    IN  [f EXCEPT
            !.padding = @ \ used,
            !.gop = IF ForwardDiff(g, s) > RekeyAge
                    THEN [x \in {s} |-> entry]
                    ELSE [@ EXCEPT ![g] = entry]]

UpdateLastPictureIdWithPadding(f, s) ==
    LET g == Latest(GopsOf(f, s))
    IN  IF GopsOf(f, s) = {} THEN f
        ELSE AdvanceGop(f, g, OverPadding(f.gop[g][2], f.padding), s)

\* The keyframes forgotten: older than GopAge, but never the last one.
CleanGop(gop, s) ==
    LET old == {g \in DOMAIN gop : AheadOf(Plus(s, -GopAge), g)}
        gone == IF old = DOMAIN gop THEN old \ {Latest(old)} ELSE old
    IN  [g \in DOMAIN gop \ gone |-> gop[g]]

\* Mutant: any later frame of the group of pictures will do.
LaterInGop(f, g, fr) == AheadOf(fr.first, f.gop[g][2])

\* The frame starts right after the last one of its group, padding included.
Continuous(f, g, fr) == Plus(fr.first, -1) = f.gop[g][2]

\* The groups of pictures, with the one a keyframe opens.
KnownGops(f, fr) ==
    IF fr.key /\ fr.last \notin DOMAIN f.gop
    THEN [g \in DOMAIN f.gop \cup {fr.last} |->
            IF g \in DOMAIN f.gop THEN f.gop[g] ELSE <<fr.last, fr.last>>]
    ELSE f.gop

\* The frame is the newest of its group of pictures g, unless it was overtaken.
Newer(f, g, fr) ==
    IF AheadOf(fr.last, f.gop[g][1]) THEN [f EXCEPT !.gop[g] = <<fr.last, fr.last>>] ELSE f

\* The decision on a frame, once the old groups of pictures are gone.
Decide(f, fr) ==
    LET g == Latest(GopsOf(f, fr.last))
    IN  IF GopsOf(f, fr.last) = {}
        THEN [decision |-> "drop", rf |-> f]
        ELSE IF ~fr.key /\ ~Continuous(f, g, fr)
        THEN [decision |-> "stash", rf |-> f]
        ELSE [decision |-> "handoff",
              rf |-> UpdateLastPictureIdWithPadding(Newer(f, g, fr), fr.last)]

\* ManageFrameInternal(frame): the decision and the finder after it.
ManageFrameInternal(f, fr) ==
    IF DOMAIN KnownGops(f, fr) = {}
    THEN [decision |-> "stash", rf |-> f]
    ELSE Decide([f EXCEPT !.gop = CleanGop(KnownGops(f, fr), fr.last)], fr)

\* RetryStashedFrames: passes over the stash until one hands off nothing.
RECURSIVE RetryFrom(_, _, _, _)

Retried(r, fr, k, again, out) ==
    IF r.decision = "stash" THEN RetryFrom(r.rf, k + 1, again, out)
    ELSE RetryFrom([r.rf EXCEPT !.stash = RemoveAt(@, k)], k, again \/ r.decision = "handoff",
                   IF r.decision = "handoff" THEN Append(out, fr) ELSE out)

RetryFrom(f, k, again, out) ==
    IF k <= Len(f.stash)
    THEN Retried(ManageFrameInternal(f, f.stash[k]), f.stash[k], k, again, out)
    ELSE IF again THEN RetryFrom(f, 1, FALSE, out) ELSE [rf |-> f, out |-> out]

RetryStashedFrames(f, out) == RetryFrom(f, 1, FALSE, out)

-----------------------------------------------------------------------------
(* The operations of RtpFrameReferenceFinder.                              *)

\* Mutant: the stash has no limit.
StashWithoutLimit(f, fr) == [f EXCEPT !.stash = <<fr>> \o @]

\* kStash: the oldest frame goes when the stash is over its limit, before the
\* new one is added.
StashFrame(f, fr) ==
    [f EXCEPT !.stash = <<fr>> \o (IF Len(@) > MaxStashedFrames THEN Front(@) ELSE @)]

Managed(r, fr) ==
    CASE r.decision = "stash" -> [rf |-> StashFrame(r.rf, fr), out |-> <<>>]
      [] r.decision = "drop" -> [rf |-> r.rf, out |-> <<>>]
      [] OTHER -> RetryStashedFrames(r.rf, <<fr>>)

ManageFrame(f, fr) ==
    IF f.clearTo # NoSeq /\ AheadOf(f.clearTo, fr.first)
    THEN [rf |-> f, out |-> <<>>]
    ELSE Managed(ManageFrameInternal([f EXCEPT !.made = TRUE], fr), fr)

\* Mutant: the stashed frames are not tried again.
PaddingWithoutRetry(f, s) ==
    IF ~f.made THEN [rf |-> f, out |-> <<>>]
    ELSE [rf |-> UpdateLastPictureIdWithPadding([f EXCEPT !.padding = @ \cup {s}], s),
          out |-> <<>>]

\* Before the first frame there is no finder, and the padding is forgotten.
PaddingReceived(f, s) ==
    LET kept == {x \in f.padding : ~AheadOf(Plus(s, -PaddingAge), x)} \cup {s}
    IN  IF ~f.made
        THEN [rf |-> f, out |-> <<>>]
        ELSE RetryStashedFrames(
                UpdateLastPictureIdWithPadding([f EXCEPT !.padding = kept], s), <<>>)

FinderClearTo(f, s) ==
    [f EXCEPT !.clearTo = s,
              !.stash = SelectSeq(@, LAMBDA fr : ~AheadOf(s, fr.first))]

=============================================================================
