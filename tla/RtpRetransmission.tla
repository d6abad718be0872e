------------------------- MODULE RtpRetransmission --------------------------
(***************************************************************************)
(* The path of a retransmission: a NACK reaches RTPSender::OnReceivedNack  *)
(* on the worker thread, which checks the packet history, marks the packet *)
(* as pending and enqueues a copy in the pacer, each under a lock of its   *)
(* own; the pacer thread later hands the copy to ModuleRtpRtcpImpl2::      *)
(* TrySendPacket and RtpSenderEgress::SendPacket, which updates the        *)
(* history.  Meanwhile the pacer also sends new media (which culls the     *)
(* history), the transport acknowledges packets, payload padding is        *)
(* generated, and sending may be switched off.  Not every number ends up   *)
(* in the history: media that must not be retransmitted and padding on the *)
(* media SSRC take sequence numbers too.                                   *)
(*                                                                         *)
(* The pacer is abstracted to its retransmissions, FIFO among themselves;  *)
(* media packets and padding may be there, and be next, at any time.       *)
(***************************************************************************)
EXTENDS RtpPacketHistory

CONSTANT NackLists          \* sequences of distances behind the last number spent

\* A NACK message carries at least one sequence number.
ASSUME NackAssumption == NackLists \subseteq Seq(Nat) \ {<<>>}

VARIABLES sending_media_,         \* RTPSender::sending_media_
          media_sequence_number_, \* PacketSequencer
          nack_phase, nack_list,  \* where OnReceivedNack is, what it still has to resend
          in_hand,                \* the copy made by GetPacketAndMarkAsPending, not yet enqueued
          pacer_retransmissions,
          dropped                 \* history variable: the packets (insertion orders)
                                  \* whose retransmission TrySendPacket refused

sender == <<sending_media_, media_sequence_number_>>
nack == <<nack_phase, nack_list, in_hand>>
rvars == <<vars, sender, nack, pacer_retransmissions, dropped>>
-----------------------------------------------------------------------------
(* The worker thread: OnReceivedNack and ReSendPacket.                     *)

\* The numbers a NACK asks for, counted back from the last number spent.
Asked(distances) ==
    [i \in 1 .. Len(distances) |-> (media_sequence_number_ - 1 - distances[i]) % SeqSpan]

\* SetRtt(5 + avg_rtt), then the loop over the list.
OnReceivedNack(seqs, rtt) ==
    /\ nack_phase = "idle"
    /\ Enabled
    /\ SetRtt(rtt)
    /\ nack_phase' = "check"
    /\ nack_list' = seqs
    /\ UNCHANGED <<in_hand, sender, pacer_retransmissions, dropped>>

\* The next element of the list, or the end of the handler.
NextNack(rest) ==
    /\ nack_list' = rest
    /\ nack_phase' = IF rest = <<>> THEN "idle" ELSE "check"

\* ReSendPacket's GetPacketState: not found, pending or too soon is skipped.
CheckPacketState ==
    /\ nack_phase = "check"
    /\ IF MayRetransmit(Head(nack_list))
       THEN nack_phase' = "mark" /\ UNCHANGED nack_list
       ELSE NextNack(Tail(nack_list))
    /\ UNCHANGED <<vars, in_hand, sender, pacer_retransmissions, dropped>>

\* A failure, by the history or by the rate limiter inside encapsulate, makes
\* OnReceivedNack discard the rest of the list.
MarkFails ==
    /\ nack_phase = "mark"
    /\ nack_phase' = "idle"
    /\ nack_list' = <<>>
    /\ UNCHANGED <<vars, in_hand, sender, pacer_retransmissions, dropped>>

MarkAsPending ==
    /\ nack_phase = "mark"
    /\ GetPacketAndMarkAsPending(Head(nack_list))
    /\ in_hand' = <<[seq |-> Head(nack_list), rtt |-> rtt_ms_,
                     order |-> packet_history_[GetStoredPacket(packet_history_,
                                                               Head(nack_list))].order]>>
    /\ nack_phase' = "enqueue"
    /\ UNCHANGED <<nack_list, sender, pacer_retransmissions, dropped>>

EnqueueRetransmission ==
    /\ nack_phase = "enqueue"
    /\ pacer_retransmissions' = pacer_retransmissions \o in_hand
    /\ in_hand' = <<>>
    /\ NextNack(Tail(nack_list))
    /\ UNCHANGED <<vars, sender, dropped>>
-----------------------------------------------------------------------------
(* The encoder and the pacer thread.                                       *)

\* PacketSequencer::Sequence for a packet on the media SSRC.
Sequence == media_sequence_number_' = Plus(media_sequence_number_, 1)

SendMediaWithoutTime ==
    /\ IF sending_media_
       THEN /\ Sequence
            /\ PutRtpPacket(media_sequence_number_, NoTime)
       ELSE UNCHANGED <<media_sequence_number_, vars>>
    /\ UNCHANGED <<sending_media_, nack, pacer_retransmissions, dropped>>

\* TrySendPacket and egress for a media packet that may be retransmitted: it
\* gets its sequence number here and is put in the history with its send time.
SendMedia ==
    /\ IF sending_media_
       THEN /\ Sequence
            /\ PutRtpPacket(media_sequence_number_, now)
       ELSE UNCHANGED <<media_sequence_number_, vars>>
    /\ UNCHANGED <<sending_media_, nack, pacer_retransmissions, dropped>>

\* A packet that takes a number and is not stored: media without
\* allow_retransmission(), or padding on the media SSRC.  There are no more than
\* MaxGap of them in a row.
SendUnstored ==
    /\ sending_media_
    /\ Ahead(newest, media_sequence_number_) <= MaxGap
    /\ Sequence
    /\ UNCHANGED <<vars, sending_media_, nack, pacer_retransmissions, dropped>>

SendRetransmissionUnmarked ==
    /\ pacer_retransmissions # <<>>
    /\ pacer_retransmissions' = Tail(pacer_retransmissions)
    /\ UNCHANGED <<vars, sender, nack, dropped>>

\* Egress marks the stored packet as sent, if it is still there.  TrySendPacket
\* drops the retransmission when media is not being sent.
SendRetransmission ==
    /\ pacer_retransmissions # <<>>
    /\ pacer_retransmissions' = Tail(pacer_retransmissions)
    /\ IF sending_media_ /\ Enabled
             /\ GetStoredPacket(packet_history_, Head(pacer_retransmissions).seq) # 0
       THEN MarkPacketAsSent(Head(pacer_retransmissions).seq)
       ELSE UNCHANGED vars
    /\ dropped' = IF sending_media_ THEN dropped
                  ELSE dropped \cup {Head(pacer_retransmissions).order}
    /\ UNCHANGED <<sender, nack>>

GeneratePadding ==
    /\ sending_media_
    /\ GetPayloadPaddingPacket
    /\ UNCHANGED <<sender, nack, pacer_retransmissions, dropped>>
-----------------------------------------------------------------------------
(* Other threads.                                                          *)

OnPacketsAcknowledged(s) ==
    /\ CullAcknowledgedPacket(s)
    /\ UNCHANGED <<sender, nack, pacer_retransmissions, dropped>>

set_rtt_ms(rtt) == SetRtt(rtt) /\ UNCHANGED <<sender, nack, pacer_retransmissions, dropped>>

SetSendingMediaStatus(sending) ==
    /\ sending_media_' = sending
    /\ UNCHANGED <<vars, media_sequence_number_, nack, pacer_retransmissions, dropped>>

Clock == Tick /\ UNCHANGED <<sender, nack, pacer_retransmissions, dropped>>
-----------------------------------------------------------------------------
\* The history is configured (SetStorePacketsStatus) before packets flow.
HistoryInit ==
    /\ now = 0 /\ mode_ = "kStoreAndCull"
    /\ number_to_store_ \in {Min({kMaxCapacity, n}) : n \in Capacities}
    /\ rtt_ms_ = -1 /\ packet_history_ = <<>> /\ packets_inserted_ = 0
    /\ padding_priority_ = {} /\ newest \in InitialNewest

RInit ==
    /\ HistoryInit
    /\ media_sequence_number_ = Plus(newest, 1)
    /\ sending_media_ = TRUE
    /\ nack_phase = "idle" /\ nack_list = <<>> /\ in_hand = <<>>
    /\ pacer_retransmissions = <<>> /\ dropped = {}

RNext ==
    \/ \E distances \in NackLists, r \in Rtts : OnReceivedNack(Asked(distances), r)
    \/ CheckPacketState \/ MarkFails \/ MarkAsPending \/ EnqueueRetransmission
    \/ SendMedia \/ SendUnstored \/ SendRetransmission \/ GeneratePadding
    \/ \E s \in SeqNo : OnPacketsAcknowledged(s)
    \/ \E r \in Rtts : set_rtt_ms(r)
    \/ Clock
    \/ SetSendingMediaStatus(~sending_media_)

RSpec == RInit /\ [][RNext]_rvars

\* What the NACK path implements as far as the history is concerned: the threads
\* change it by its operations only, one lock_ at a time.
HistorySpec == HistoryInit /\ [][Next]_vars
-----------------------------------------------------------------------------
\* The retransmissions that exist: enqueued, or made and about to be.
Outstanding == in_hand \o pacer_retransmissions

\* However the NACK thread, the pacer, acknowledgements and padding interleave,
\* no two copies of one packet wait for retransmission: "Packet already in
\* pacer queue, ignore this request" (rtp_packet_history.cc:232).
NoDuplicateRetransmission ==
    \A i, j \in 1 .. Len(Outstanding) :
        Outstanding[i].order = Outstanding[j].order => i = j

\* A packet that was retransmitted before is sent again only once a full RTT,
\* as known when the NACK was accepted, has passed since its last transmission,
\* padding included (VerifyRtt).
RetransmissionsSpaced ==
    \A k \in 1 .. Len(Outstanding), i \in 1 .. Len(packet_history_) :
        LET slot == packet_history_[i]
        IN  slot.full /\ slot.order = Outstanding[k].order /\ slot.times > 0
                => now >= slot.sent + Outstanding[k].rtt

\* MarkPacketAsSent and CullOldPackets rely on a send time (DCHECK at 263): on
\* this path every stored packet has one, pending or not.
AlwaysHasSendTime ==
    \A i \in 1 .. Len(packet_history_) :
        packet_history_[i].full => packet_history_[i].sent # NoTime

\* rtp_packet_history.h:177, "True if the packet is currently in the pacer queue
\* pending transmission": a pending packet has an outstanding retransmission.
PendingIsInPacer ==
    \A i \in 1 .. Len(packet_history_) :
        packet_history_[i].full /\ packet_history_[i].pending
            => \E k \in 1 .. Len(Outstanding) : Outstanding[k].order = packet_history_[i].order

\* What the code does guarantee: a pending packet has an outstanding
\* retransmission unless TrySendPacket dropped it while media was not being
\* sent; only then is the packet lost to later NACKs.
PendingUnlessDropped ==
    \A i \in 1 .. Len(packet_history_) :
        packet_history_[i].full /\ packet_history_[i].pending
            => \/ packet_history_[i].order \in dropped
               \/ \E k \in 1 .. Len(Outstanding) :
                      Outstanding[k].order = packet_history_[i].order

(* The inductive invariant.  A retransmission names its packet by sequence
   number, and egress marks as sent whatever the history stores under it: so
   a stored packet and a retransmission have to have the same number exactly
   when the one is a copy of the other, whatever numbers were skipped and
   whatever packets were culled, removed or put in between.                *)

Retransmission == [seq : SeqNo, rtt : Nat \cup {-1}, order : Nat]

Stored(h) == {h[i] : i \in {j \in 1 .. Len(h) : h[j].full}}
Members(s) == {s[i] : i \in 1 .. Len(s)}
Waiting == Members(in_hand) \cup Members(pacer_retransmissions)

\* What a stored packet and a retransmission of it have to agree on.
Agree(slot, copy, t) ==
    /\ slot.order = copy.order <=> slot.seq = copy.seq
    /\ slot.order = copy.order =>
           slot.pending /\ (slot.times > 0 => t >= slot.sent + copy.rtt)

GoodNack ==
    /\ nack_phase \in {"idle", "check", "mark", "enqueue"}
    /\ nack_list \in Seq(SeqNo)
    /\ (nack_phase = "idle") = (nack_list = <<>>)
    /\ in_hand \in Seq(Retransmission) /\ Len(in_hand) <= 1
    /\ (nack_phase = "enqueue") = (in_hand # <<>>)

GoodPacer ==
    /\ \A i, j \in 1 .. Len(pacer_retransmissions) :
           pacer_retransmissions[i].order = pacer_retransmissions[j].order => i = j
    /\ \A x \in Members(in_hand), y \in Members(pacer_retransmissions) : x.order # y.order

AllTimed(stored) == \A x \in stored : x.sent # NoTime

Matched(stored, waiting, t, gone) ==
    /\ \A x \in stored, y \in waiting : Agree(x, y, t)
    /\ \A x \in stored : x.pending /\ x.order \notin gone =>
           \E y \in waiting : y.order = x.order

\* The types of the composition, and of the history it uses.
RTyped ==
    /\ IInv /\ Enabled
    /\ sending_media_ \in BOOLEAN /\ media_sequence_number_ \in SeqNo
    /\ GoodNack
    /\ pacer_retransmissions \in Seq(Retransmission)

RInv ==
    /\ RTyped
    /\ Ahead(newest, media_sequence_number_) \in 1 .. MaxGap + 1
    /\ GoodPacer
    /\ AllTimed(Stored(packet_history_))
    /\ \A x \in Waiting : x.order < packets_inserted_
    /\ Matched(Stored(packet_history_), Waiting, now, dropped)

\* No retransmission waits until its own sequence number is the next to be
\* spent.  The code does not see to it, its pacer does in practice: it empties
\* its queue within seconds, and 2^16 numbers are minutes of video.
RetransmissionsAreRecent ==
    \A x \in Waiting : x.seq # media_sequence_number_
=============================================================================
