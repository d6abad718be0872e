# TLA+ models of clibmedia_transfer_protocol

Models, model-checking runs and machine-checked proofs for the parts of this
repository that carry protocol state: the RTP send path (packet history,
retransmission, pacer and its queue, transport feedback), the video receive path
from packets to decodable frames, the SCTP transport of data channels, and the
GB28181 media session.  Paths below are relative to the repository.

## The system and its parts

The library moves media between sockets and codecs.  Its send side is derived
from WebRTC (`rtp_rtcp/`, `pacing/`, `congestion_controller/`); its protocol
servers (`libgb28181/`, `librtsp/`, `libhttp/`, `libsip/`, `librtc/`) run on top
of `libnetwork/`.

| Component | State it keeps | Operations | What makes it correct |
|---|---|---|---|
| Packet history (`rtp_rtcp/rtp_packet_history.cc`) | deque of sent packets with holes, padding priority set of pointers, RTT | put, get and mark, mark sent, padding, acknowledge, set RTT, culling | a stored packet is found under its number across wraps and holes; no pointer dangles; send times exist where they are read; limits hold |
| Retransmission path (`rtp_sender.cc`, `rtp_rtcp_impl2.cc`, `rtp_sender_egress.cc`) | the list of a NACK being handled, pacer contents, sending switch | NACK, check, mark, enqueue, send, acknowledge | no duplicate in the pacer, one RTT between retransmissions, pending means queued |
| Pacer queue (`pacing/round_robin_packet_queue.cpp`) | packets per stream, multimap of scheduled streams, sums of size and time, fast path for one packet | push, pop, pause, overheads | schedule, sizes and times agree with contents; FIFO per stream and type; bounded bypass |
| Pacing controller, prober, budgets (`pacing/pacing_controller.cpp`, `bitrate_prober.cpp`, `interval_budget.cpp`) | debts, probe clusters, last process time, keep-alive | enqueue, process, next send time, probes, congestion | something queued is eventually sent, probes end, debts bounded |
| Paced senders (`pacing/task_queue_paced_sender.cpp`, `paced_sender.cpp`) | next wake-up, hold-back window | schedule and run process tasks | no lost wake-up |
| Packet router (`pacing/packet_router.cpp`) | modules by SSRC, last padding module, REMB candidates | add, remove, send, padding | the cached module is registered |
| Packet buffer (`packet_buffer.cpp`) | ring buffer, missing packets | insert, clear, expand, find frames | a frame is handed out whole; the buffer never overflows |
| Reference finder and frame assembler (`rtp_seq_num_only_ref_finder.cc`, `rtp_frame_reference_finder.cpp`, `rtp_video_frame_assembler.cpp`) | groups of pictures, stashed frames and padding | insert packet, padding, clear old data | every frame shown can be decoded; none that can be is withheld |
| Transport feedback (`rtp_rtcp/rtcp_packet/transport_feedback.cc`, `rtp/transport_feedback_adapter.cpp`) | the message being encoded; history of sent packets, time offset | add received packet, create, parse; add, sent, feedback | parsing gives back what was encoded; each packet is reported as received once, at a consistent time |
| GB28181 session (`libgb28181/gb28181_session.cpp`) | unparsed tail, task queue of the worker, receive stream | read, posted tasks | frames survive any splitting; one receive stream that misses nothing; everything complete is delivered |
| SCTP transport (`sctp/usrsctp_transport.cpp`) | status of each stream's resets, half-sent and half-received message, readiness | start, open, reset, send; callbacks of usrsctp | messages arrive whole; closing a stream ends, at both ends, and loses nothing; a blocked writer is woken |
| TCP server and connections (`libnetwork/`) | connection map, buffers | accept, read, send, close | no task on a deleted connection |
| HTTP, RTSP, SIP, WebRTC servers | parser and session state | requests, responses, datagrams | requests in order, framing, classification |
| Congestion control, bitrate estimation, RTCP, FEC, formats | estimators, reports, tables | see `PROJECT.json` | see `PROJECT.json` |

How they interact.  The encoder enqueues packets in the pacer through
`RTPSender::SendToNetwork`; the pacer's thread takes them from the queue and
gives them, through the packet router, to `ModuleRtpRtcpImpl2::TrySendPacket` and
`RtpSenderEgress::SendPacket`, which records them in the history.  NACKs arrive
on another thread and read and mark the history, then enqueue copies in the
pacer.  Acknowledgements and padding touch the history as well.  Each packet sent
is entered in the feedback adapter; the peer's transport feedback turns it into a
result for the congestion controller, which sets the pacer's rates and probes.  On
the receive side a session reads its socket on the network thread and posts packets
to the worker thread, which owns the receive stream; video packets go through the
packet buffer and the reference finder to the decoder.  Data channels use an SCTP
transport, which calls usrsctp on the network thread and gets its callbacks there as
posted tasks.

What is hard: the history's lock is taken several times by one NACK, with other
threads in between; sequence numbers wrap in a deque that has holes; raw
pointers are ordered by mutable keys; the pacer's sums are maintained
incrementally across pauses and across a fast path; the pacer sleeps until a task
that may be late, stale or not worth posting; media packets are lost, repeated and
reordered while frames wait for each other; feedback is packed into variable chunks
and overtakes itself; closing an SCTP stream takes a reset in each direction, one at a
time, while messages are half sent; TCP splits frames anywhere;
an unsynchronised test decides whether a stream is created.  `PROJECT.json`
lists each hazard with its line and the properties that would catch it.

## Modules

| Module | Models | Runs |
|---|---|---|
| `RtpPacketHistory` | every state-changing method of the history, each one action since each holds `lock_` | `history` |
| `RtpRetransmission` | extends it with the NACK thread, the pacer's contents, egress, padding, acknowledgements, the sending switch | `retransmission`, `retransmission_pending` |
| `RoundRobinPacketQueue` | every method of the pacer queue; one step each, it runs on one task queue | `queue`, `queue_fairness` |
| `BitrateProber`, `PacketRouter`, `PacingController` | the three parts of the pacer, as operators on a record of their state | through the next |
| `TaskQueuePacedSender` | composes them: one action per task of the pacer's task queue, delayed tasks, the clock, modules that come and go | `pacing` |
| `PacketBuffer`, `RtpSeqNumOnlyRefFinder` | the ring buffer and the reference finder, as operators on a record of their state | through the next |
| `RtpVideoFrameAssembler` | composes them behind a network that loses, repeats and reorders packets | `receive`, `receive_frame_start` |
| `DecodableStream` | abstract: what the receive path promises the decoder | refined in `receive` |
| `TransportFeedback` | the feedback message: encoder, wire, parser | through the next |
| `TransportFeedbackAdapter` | the sender's adapter, with the packets' way to the peer and the messages' way back | `feedback` |
| `UsrsctpTransport` | two transports at the ends of an association, usrsctp between them as an external part | `sctp`, `sctp_stranded` |
| `Gb28181Session` | a session over TCP: network thread, worker thread, the peer | `gb28181` |
| `RtpPacketHistoryProofs` | theorems about `RtpPacketHistory`: its invariants, its limits and what culling spares | TLAPS |
| `RtpRetransmissionProofs` | theorems about `RtpRetransmission`, which reuse the ones above | TLAPS |
| `SetSums` | sums over finite sets: what an element more or less, another function or another index set does to them | TLAPS |
| `RoundRobinPacketQueueProofs` | theorems about `RoundRobinPacketQueue`: schedule and order, sums and fairness | TLAPS |
| `Gb28181SessionProofs` | theorems about `Gb28181Session` | TLAPS |
| `UsrsctpTransportProofs` | theorems about `UsrsctpTransport`: resets and what closing loses | TLAPS |
| `UsrsctpTransportDelivery` | more of them: messages arrive whole, nobody is left waiting | TLAPS |
| `TransportFeedbackProofs` | theorems about the operators of `TransportFeedback` and `TransportFeedbackAdapter` | TLAPS |
| `MC...` | constants of the runs | |

Correspondence.

* `RtpPacketHistory`: `packet_history_` is a sequence of slots; a hole is a slot
  with `full = FALSE`.  A pointer in `padding_priority_` is the `insert_order_` of
  its slot, which identifies it; equality in the `std::set` is equality of the
  comparator's key, so erasing a hole's key may erase another packet (as in the
  code).  `NoTime` is `absl::nullopt`.  Loops of the code (culling, popping holes,
  expanding) are closed forms: the number of elements dropped or added.
  `newest` is the environment: packets are put in the order the sequencer gives,
  up to `MaxGap` numbers skipped and `MaxReorder` numbers behind.
  `SetStorePacketsStatus` has a debug assertion that the argument is at most
  `kMaxCapacity`; the model is of the release build, which clamps it, and one of
  the capacities of the run is above the limit.
  `IsNewerSequenceNumber` lives outside this repository.
* `RtpRetransmission`: `nack_phase` is where `OnReceivedNack` is between two locks.
  The pacer is its retransmissions, first in first out; media and padding may be
  there, and be next, at any time.  A packet gets its sequence number when it leaves
  the pacer, as in `TrySendPacket`.  Not every number is stored: media without
  `allow_retransmission()` and padding on the media SSRC spend numbers too
  (`SendUnstored`), at most `MaxGap` of them in a row.  A NACK asks for numbers
  counted back from the last one spent, stored or not.  `MarkFails` is both the
  history's refusal and the rate limiter's (the limiter is not modelled, so it may
  refuse at any time). `dropped` is a history variable.
* `RoundRobinPacketQueue`: the streams' `packet_queue`s are one set of packets;
  `Top` is the element `std::priority_queue::top` returns.  `in_times` is the element of
  `enqueue_times_` that belongs to the packet.  `waited` and `bypassed` are history
  variables.  `stream_size` of a stream that is not in `streams_` is zero,
  which is what inserting it gives.  `SetIncludeOverhead` is taken once: the
  interface has no way to switch it off, and a second call would count the headers of
  the queued packets again.  `SetTransportOverhead` is part of the queue's interface;
  the pacing controller of this commit passes no overhead on
  (`ignore_transport_overhead_` is initialised to true), so the runs cover more uses of
  it than the library makes.
* `PacingController` is the dynamic mode, which `TaskQueuePacedSender` selects.  Time
  is in ticks, debts and rates in units per tick, both divisions as the code rounds
  them.  The packet queue is the order in which packets are popped; its own module
  shows that order.  A packet's `at` leaves out the time the queue was paused
  (`pauseSum`), as its `enqueue_time` does, and with it the average queue time that the
  target rate depends on.  Padding has the size asked for; it has payload when it
  resends packets on RTX, and none otherwise.  `out` records what the tick sent.
  Overhead accounting, FEC and queue time limits set by callers are left out.
* `PacketRouter`: `off` are the modules whose media is switched off, which refuse packets
  and generate no padding; `busy` are those that generate none at the moment because
  they are in the middle of a frame (or have sent nothing yet) and pad on the media
  SSRC.  A refused packet is gone and leaves `last_send_module_` alone; a module without
  padding passes the request on to the next one.
* `TaskQueuePacedSender`: every call of the sender posts its work to one task queue,
  so a call is one action; `wakeups` are the delayed `MaybeProcessPackets` tasks with the
  time each was posted for, several of which may be pending.  A delayed task runs at
  its time or up to `MaxLate` later, before or after any call.  `quiet` and `held` are
  history variables.  `AddModule` and `RemoveModule` take the router's mutex on another
  thread; here they run between two tasks of the pacer, not between two calls of one
  task.  `UpdateOutstandingData` is the branch that posts a task: nothing in the
  repository calls it on the task queue itself.  A packet at the probe rate takes no
  longer than a keep-alive interval (`ProbeRate`).
* `PacketBuffer`: `slots` is `buffer_`, indexed from zero.  The set `missing` is ordered by
  `DescendingSeqNumComp` in the code; `NotAfter` is what precedes `upper_bound` there.  A
  backward search that meets an empty slot has undefined behaviour in the code; the
  model stops there (`nullSlot`) and says nothing of what follows.  A packet with
  `kMaxNalusPerPacket` NAL units (`many`) ends the search of an H.264 frame, which is then
  never handed out (line 264).
* `RtpSeqNumOnlyRefFinder`: `gop` is `last_seq_num_gop_`, a pair per keyframe.  `made` says
  that the first frame has created the finder; `clearTo` is `cleared_to_seq_num_`.
* `RtpVideoFrameAssembler`: one action per kind of packet `InsertPacket` tells apart:
  with media, with a payload header and nothing after it (padding; in H.264 a fragment
  without content), with no payload (refused).  Each is the whole call: old data is
  cleared, frames are assembled and their references found. The formats are the
  generic one and H.264, both of which refuse an empty payload; the raw format, which
  accepts it (`video_rtp_depacketizer_raw.cc:31`), is not modelled. The streams are
  all sequences of frames and padding of a length, in the generic format and in H.264,
  and the packets arrive in any order within `MaxReorder`.
* `TransportFeedback`: time is in units of half a tick, so that rounding happens.  Bytes
  have `ByteSpan` values and the base time `BaseSpan`; three bytes written unsigned are
  read back signed, as the code does.  Chunks are records of their symbols; deltas are
  sequences of bytes.
* `TransportFeedbackAdapter`: `OnAddPacket`, `OnSentPacket` and `OnTransportFeedback` take the
  time and post a task each to the same queue; each is one action.  The peer that
  builds messages is external (the repository has no caller of `AddReceivedPacket`): it
  reports what has arrived from its next packet on, again from a late one when there
  is one.  A message may be processed any number of times, in any order, or never.
  Not modelled: packet sizes (`OnAddPacket` passes the length as overhead too, so the
  recorded size is twice the length), pacing information, the audio flag (set for
  video as well) and `first_unacked_send_time`.
* `UsrsctpTransport`: data is counted in units, and usrsctp's send buffer holds
  `kSctpSendBufferSize` of them, which is also the largest message.  `out` is what usrsctp
  has taken and not conveyed: chunks of messages and requests to reset streams, in
  order, because usrsctp delivers in order whatever the network does and performs a
  reset behind the data before it.  `tasks` are the callbacks posted to the network
  thread; a call of the application may come before any of them.  The answer to a
  reset arrives some time after the peer has performed it, or the peer refuses the
  reset (`FailReset`).  `usrsctp_setsockopt` refuses a second reset while one is in
  progress, and any before the association is up.  The applications agree on their
  streams, as the data channel layer does: a stream is closed by an end whose peer has
  opened it as often.  `log`, `handed` and `opens` are history variables.
* `Gb28181Session`: the connection's bytes are numbered, and a buffer is an
  interval of them; a frame carries the byte it starts at.  `OnRead` is three actions,
  because the worker runs tasks while it is in its loop: the read of everything that
  has arrived behind the kept tail (`OnRead`), one round of the loop (`ParseFrame`, at
  `parse_at`) and keeping the new tail (`KeepTail`).  A round tests
  `video_receive_stream_` without synchronisation: it may miss an assignment already
  made, and it may see one that the worker makes between two rounds.  An `OnRead` that
  stops because its 8 MB buffer is full is a read of fewer arrived bytes.  Frames that
  are not RTP packets may be empty.  The length is read as the code reads it, as a
  signed number of 16 bits (`Signed`, with `HalfSpan` for 2^15); `StreamsAssumption` says
  that frames are shorter than that, and nothing is checked or proved of longer ones.

## Runs

| Run | Checks | Bounds, and why they are enough |
|---|---|---|
| `history` | types, front populated, slots at their distances, every packet found, send times, live pointers, the inductive invariant, culling spares live packets | span 12 starting at 10, so the third packet wraps; capacity 2 and three insertions, so capacity culling happens; a gap and a reordering of one; padding set limit of two members; time 0..2 with a duration of 1 or 2, so both culling conditions happen |
| `retransmission` | no duplicate, spacing by RTT, send times, pending unless dropped, limits of the padding set and of the deque | three packets stored, in a history of one to two, and a number that is not stored before any of them; NACKs of the last two numbers spent or of the one before, stored or not; RTTs of 1 and 2, time 0..2, so that a packet can be sent and sent again an RTT later; each packet sent again at most twice; the padding set is on, with room for fewer packets than the history holds, so that evictions happen |
| `queue` | schedule, accounts, queue time, FIFO | two streams, audio and video, two sizes, headers and overhead of 0 or 1, three packets, two ticks, pauses anywhere |
| `queue_fairness` | bounded bypass | ten packets of one size on two streams, enough for one stream to get ahead of `kMaxLeadingSize` and the idle one to come back |
| `gb28181` | splitting, controller first, one sink, everything delivered | every stream of three frames out of five kinds (lengths 0 to 4, the largest below a `HalfSpan` of 5, two sources, packets and other data), split at every byte |
| `pacing` | probe rate, cached module, pending wake-up, silence, draining | two packets of audio or video, two probe clusters, two other calls (pause, resume, window, feedback, rates, modules, shutdown), three of them altogether, time 0..9 with a keep-alive every 3, a debt of at most 3 ticks, tasks up to one tick late; the rate is lowered, which stretches a debt beyond 3 ticks, or raised; a packet costs three ticks at the first rate and six at the lower one, so debts build up and several wake-ups are pending; a cluster needs several probes, so probes end, time out and are delayed; modules are switched off or are in the middle of a frame, so packets are refused and padding falls through to the next module |
| `receive` | types, no overflow, nothing withheld, refinement of `DecodableStream` | every stream of 5 or 6 packets starting with a keyframe, up to two keyframes, two padding packets and one packet that cannot be used (empty, or with too many NAL units), in both formats; sequence numbers start at 14 of 16, so the third wraps; buffer of 2 that expands to 4; ages of 2 to 4, so clearing, re-keying, a full stash and the loss of old padding happen; reordering by 2 and, in the shorter streams, one repeated packet |
| `feedback` | messages faithful, received once, receive times agree | five packets numbered from 14 of 16; chunks of one, three and four statuses, so that runs and both vectors occur, also with a remainder; bytes of four values, so that gaps of 9 units need two of them and late packets give negative deltas; messages of at most five packets and 31 bytes, so that both limits refuse a packet; the peer's clock starts shortly before the base time changes sign; one packet overtaken, two messages, processed in either order or twice; a history window of two packets, so that entries age out |
| `sctp` | buffered message's stream known, messages whole, closing loses nothing, remote close real, no stream and no writer stuck | two streams, one of them opened twice; two messages from one end, empty or of 3 units in a buffer of 4, so that a second one is taken in part; closings of both streams by one end, of one stream by each end, and of one stream by both; one end connected at first, so that resets are queued; a later `Start` with a limit of 1; one refused reset |
| `retransmission_pending`, `receive_frame_start`, `sctp_stranded` | statements of comments | expected violations, see below |

Every passing run but `gb28181` checks safety only.  `gb28181` assumes weak fairness of
the network thread's steps (`OnRead`, `ParseFrame`, `KeepTail`), because the socket
server signals a socket as long as it is readable and `OnRead` runs to its end, and of
`RunTask`, because the worker thread runs its queue to the end.  The peer is not
fair: it may stop in the middle of a frame, and deadlock is not an error there.
`UsrsctpTransport` assumes weak fairness of usrsctp (it retransmits until the peer has
everything and has answered) and of the network thread (it runs what is posted), and
none of the applications and of DTLS.  `ResetStreamCompletes` is violated under it.
`NoStreamStuck` and `NoWriterStuck` say what is left of such promises as invariants: when
nothing is on its way any more, nobody waits.
The promises of the pacer that something happens (`WakeupPending`, `NeverSilent`,
`QueueDrains`) are stated with a clock and a bound instead of fairness: the clock may
not pass a delayed task by more than `MaxLate`, which is what a timer guarantees.
`NeverSilent` allows for `MaxLate` twice: a call during a late task's delay may put a task
in its place that is late too.  `QueueDrains` follows the debt that the queue waits for:
debts are clamped at the rate of their time, so a rate that is lowered afterwards holds
the queue for longer than `kMaxDebtInTime`, and the property says for how much longer.
In the other modules the clock and the insertions are bounded by `MaxTime`,
`MaxInserted`, `MaxRetransmit` and `MaxPackets`, and the numbers skipped by `MaxGap`;
configuration changes stay possible at the bounds.  `pacing`, `receive`, `feedback` and
`sctp` end when the clock, the stream, the messages or the calls do, so deadlock is not checked there.

`CompletePacketsAreHanded` is stated as "again and again everything complete has
been handed over"; it implies the delivery of each packet, since `handed` only
grows and follows the stream (`FramesSurviveSplitting`).

`ShowsOnlyDecodable` is a refinement: the state of the receive path is mapped to the
keyframes of the stream and the frames shown so far, and every call of the assembler
is a step of `DecodableStream` or leaves it alone.  A keyframe may be shown again when
the network repeats its packets; any other frame comes whole, once, and after the
frame it refers to.

`NothingWithheld` has exceptions that the model made visible: padding that arrives
before the first frame is forgotten; padding can re-key a group of pictures past
frames still to come; in H.264, padding that overtakes a missing packet stops the search
for frames that the packet starts when it comes, and the complete frames behind the
padding are not found; padding inside the media numbering that carries no payload
is refused by the generic and the H.264 depacketizer; and an H.264 frame with a packet of
`kMaxNalusPerPacket` NAL units is given up.  The frames after it wait for the next
keyframe.

`ReceiveTimesAgree` has one too: `ProcessTransportFeedbackInner` skips a received packet
that is not in the history (it was reported before) or not yet signalled as sent,
without adding its delta, so the receive times of the packets after it in the same
message are early by that delta.

### Comments the code does not live up to

* `retransmission_pending`: `rtp_packet_history.h:177` says a pending packet is in the
  pacer's queue.  `TrySendPacket` drops a retransmission when media is switched off
  and nothing clears the mark; later NACKs for the packet are ignored.
  `PendingUnlessDropped` shows this is the only way.
* `receive_frame_start`: `packet_buffer.cpp:236` describes the search for the first packet
  of a frame whose packets are all continuous.  `ClearTo` may take the first packets of
  a frame while a later one keeps `continuous`; when the last packet of the frame comes
  late, by less than the 2000 numbers that count as old, the frame is taken for complete
  and the search dereferences an empty slot.
* `sctp_stranded`: `sctp_transport_internal.h:123` says that `ResetStream` eventually results
  in `SignalClosingProcedureComplete`.  `SendQueuedStreamResets` leaves a stream with a
  half-sent message out of its request, and after the request marks every stream that
  needs a reset as initiated (line 1108), that one too.  When the message is gone,
  `SendBufferedMessage` finds nothing to reset: the stream stays closing at both ends.
  `NoStreamStuck` shows this, and the too small limit below, are the only ways.

Three more observations without a run.  In `rtp_packet_history.h:220`, "The first and last
entry in the queue will however always be populated" is not true of the last entry:
acknowledging the newest packet leaves a hole at the back (harmless: nothing reads it).
`OldestEnqueueTime` of the pacer queue subtracts the pause time for a packet of the fast
path, so that the wait `rtp_packet_pacer.h:52` describes is too long by it.  And
`SendData` of an SCTP transport returns false ("Nothing was sent",
`usrsctp_transport.cpp:736`) for an empty message that was sent, with the result
`SDR_SUCCESS`.

`sctp` leaves out two uses of the transport, each named in the module.  A later `Start`
with a limit below the rest of a half-sent message blocks that message, and with it
every later one, for good (`Oversize`).  And `ReuseAfterRefusal` is false: after a refused
reset (line 1528) the transport sends the resets of all streams still closing again,
also those the peer has performed; if the peer has opened the stream anew meanwhile,
the repeated reset closes it.  With `ReuseAfterRefusal = TRUE` TLC finds
`RemoteCloseIsReal`, `ClosedStreamsLoseNothing`, `NoStreamStuck`, `BufferedStreamKnown` and
`NoWriterStuck` violated; the comment at line 1531 calls the association crippled then.

## Proofs

TLAPS checks the theorems below for every value of the constants that satisfies the
named assumptions; TLC evaluates the assumptions on every run.  Each inductive
invariant was also checked by TLC on the instance of the component's run, the quantifiers
of `QTyped` and `BInv` over infinite sets restricted to the values of that instance.

| Module | Theorems | States for all constants what the run checks as |
|---|---|---|
| `RtpPacketHistoryProofs` | `InductiveInvariant`, `TypeCorrect`, `FrontAlwaysPopulated`, `SlotsInOrder`, `StoredPacketsAreFound`, `SendTimeIsSet`, `PrioritySetSound`, `LimitsKept`, `CullingSpares` | everything `history` checks, and `WithinLimits` |
| `RtpRetransmissionProofs` | `UsesHistoryOperations`, `RetransmissionTyped`, `RetransmissionInvariant`, `NoDuplicates`, `PendingIsQueuedOrDropped`, `RoundTripBetweenRetransmissions`, `SendTimeAlways`, `NackPathKeepsLimits` | all invariants of `retransmission` |
| `RoundRobinPacketQueueProofs` | `QueueInvariant`, `ScheduleMatches`, `StreamsAreFifo`, `AccountsMatch`, `TimeWaited`, `BypassIsBounded` | everything `queue` and `queue_fairness` check |
| `Gb28181SessionProofs` | `SessionInvariant`, `SplittingIsHarmless`, `ControllerIsThere`, `SinkMissesNothing` | `FramesSurviveSplitting`, `ControllerExistsFirst`, `OneSinkMissesNothing` |
| `UsrsctpTransportProofs` | `SctpTyped`, `ResetsAccounted`, `DataAccounted`, `BufferedStreamIsKnown`, `RemoteClosesAreReal`, `ClosingLosesNothing` | `BufferedStreamKnown`, `RemoteCloseIsReal`, `ClosedStreamsLoseNothing` |
| `UsrsctpTransportDelivery` | `MessagesAccounted`, `MessagesHandedOutWhole`, `WritersWoken`, `NoWriterIsStuck`, `StreamsWoken`, `NoStreamIsStuck` | `MessagesArriveWhole`, `NoWriterStuck`, `NoStreamStuck` |
| `TransportFeedbackProofs` | `UnwrapRecovers`, `DeltaSurvivesWire`, `RoundingDoesNotAddUp`, `BaseDeltaRecovers`, `AddKeepsChunk`, `LastChunkSurvivesWire`, `FullChunkSurvivesWire` | steps of what `MessagesFaithful` and `ReceiveTimesAgree` say of whole messages |

**Packet history.**  Assumptions.  `SpanAssumption`: the span is even, and the capacity
plus the largest gap and reordering is below half the span (in the code 9600 against
32768, so a sender may skip or reorder about 23000 numbers).  `DurationAssumption`:
the durations and limits are naturals, and the padding limit is at least two.

`SlotOrder` is not inductive: a packet lands in its own slot only if the signed
distance `GetPacketIndex` computes is the true one, which needs every distance from
the front to the newest packet to be below half the span.  `GoodDeque` therefore also
relates the deque's length to the newest sequence number (at most `MaxReorder` beyond
the back, at most `MaxDistance` from the front); culling at capacity restores the
bound before each insertion.  `GoodOrders` (insertion orders are unique and below the
counter) and `GoodPriority` (the set holds orders of populated slots) make a pointer's
representation exact.  `IInv` also says that a disabled history is empty, because
acknowledgements are processed without looking at the mode.  The proof has a lemma per
operation on the deque (drop, replace, remove, cull, insert at either end) and one per
action.  The limits need the number of populated slots, not the length of the deque:
each operation is shown to populate at most one, and an insertion culls first.

**Retransmission path.**  `UsesHistoryOperations` shows that the path implements the
history's specification: each of its steps is an operation of the history or leaves it
alone.  So `IInv` and what follows from it hold in the composition.  A retransmission
names its packet by number, and egress marks as sent whatever is stored under it.
`RInv` therefore says that a stored packet and a waiting copy have the same number
exactly when they have the same insertion order (`Agree`), and that the packet is then
pending and its round-trip time kept (`Matched`); from it follow at most one copy, its
spacing and its place in the pacer.  Insertion orders and numbers are otherwise
unrelated: media that is not stored and padding spend numbers, packets are culled and
acknowledged while their copies wait.  What `Agree` needs of the numbering is only that
the next number is ahead of the newest stored one, by at most `MaxGap + 1`.

New media could get the number of a waiting copy whose own packet is gone.  That this
does not happen is a condition, `RetransmissionsAreRecent`, and not a fact: nothing in
the code stops a retransmission from waiting in a paused pacer until its number is the
next to be spent.  In practice the pacer empties within seconds, and 2^16 numbers are
minutes of video.  `RetransmissionInvariant` and the theorems on duplicates, pending
packets and spacing suppose it.  It holds on the instance of the run, which spends
fewer numbers than there are.  Types, send times and limits need no condition.

**Pacer queue.**  `QueueAssumption` says that sizes are positive and the other
quantities naturals.  `QInv` says that enqueue orders are unique, that the fast path
(`single_packet_queue_`) is used alone, and that the schedule is sorted and names
exactly the streams with packets, each at the urgency of its best packet and at its
present size.  Promotion of the fast-path packet is the step that makes it necessary:
it must be shown to give the state `Push` would have given.  FIFO is an action
property: a packet that leaves has the least order of its stream and type.  The sums
(`SInv`, `TInv`) are over sets of packets; `SetSums` proves, by a least counterexample
over cardinalities, what adding, removing or replacing an element does to them.
`TInv` says that a packet's waiting time is the clock less the pause time less its
enqueue time, which survives `SetPauseState` because every queued packet is charged
the same pause.  `BypassIsBounded` is for finitely many streams, sizes and overheads
(`Bounded`); `BInv` bounds, for each waiting stream and each other one, the bytes the
other has sent since by the lead `kMaxLeadingSize` permits.

**GB28181 session.**  `StreamsAssumption`: frames follow each other without a gap, are
shorter than `HalfSpan` (so that their length is not read as negative), and RTP
packets are not empty (an empty one at the end of a buffer would wait for another
byte).  `GInv` says that the parser is always at the start of a frame or at the end
(`InStep`), that the packets handed over and then those posted are the ones in front
of it, that the constructor's task is first until it has run, and that a posted
creation is followed by its own packet (`CreatedFor`), which is why the sink is made
for the source of the first packet whatever the unsynchronised test saw.  That frames
start in the order of their indices is a least-counterexample argument over the
stream's numbering.

**SCTP transport.**  `SctpConstants`: two ends, and limits given to `Start` of at most
the positive send buffer (larger ones are refused).  The theorems but `SctpTyped`,
`MessagesAccounted` and `MessagesHandedOutWhole` suppose `~ReuseAfterRefusal`, for the
reason given above: TLC shows that the properties fail without it. `RemoteCloseIsReal`
needs to know which use of a stream a reset belongs to, and nothing in the code says
so.  `ResetsInv` therefore counts: as long as no reset was refused, the uses an end
has begun and the resets it has handled, with the one underway, are as many as the
uses and resets of its peer (`ResetsCounted`), in both directions (at most as many is
enough for closing, but not for `NoStreamStuck`: that the peer has handled every reset
that is not underway is the other half of the equation); a reset that is in flight
belongs to a stream that takes no messages and has none buffered (`FlightsClosed`);
usrsctp's queue holds at most the request in progress (`RequestsMatch`).  After a
refusal resets are repeated and the count is lost, but then every stream is in its
first use (`UsedOnce`).  `DataInv` follows the data: a message of the log was handed
out, is buffered or has its last chunk on its way (`NothingLost`), and a chunk behind
a reset of its stream is of a use that the receiver has still to begin
(`NothingOvertaken`).  Sending needs the count: a stream that takes a message while a
reset of it is underway is one use ahead (`UsedAhead`), and a stream is opened again
only when no reset of it is underway (`HandledBefore`).

`MessagesArriveWhole` follows from an account of every message (`PipeInv`): the messages
handed out are the first ones of the log, each whole (`ArrivedWhole`); what is under way
is of later ones, and what the receiver keeps is of the next (`RestToCome`); chunks are in
the order of their messages, and after the last chunk of a message comes none of it
(`InOrder`); a buffered message is the newest (`BufferedLast`); and what the receiver
keeps, what is posted, what usrsctp holds and what is still buffered of a message add up
to its size (`SumsToSize`).  So the chunk with the end-of-record mark completes exactly
one message.  None of it depends on resets: it holds with `ReuseAfterRefusal` too.

`NoWriterStuck` needs the reason why a waiting writer is woken (`WakeInv`): an end that
told its application to wait, or has part of a message buffered, has data that the peer
has not acknowledged, or the threshold callback posted.  The exception, a message larger
than the limit of a later `Start`, must not end silently: the theorems suppose that an
end's limit is changed at most once (`OneChangeOfLimit`, at most two calls of `Start`).
A third call could raise the limit again over a message that waited as too large, and
nothing would send it.  `NoStreamStuck` needs the same for resets (`StreamsInv`): a stream
that could be reset has a callback posted that sends resets; one reset in both directions
is forgotten; and after a refusal, when the count is lost, each conveyed reset is handled
or posted (`ResetArrives`).

**Transport feedback.**  `FeedbackAssumption`: the spans are even and positive, and the
capacities of chunks are naturals that increase from two-bit vectors to runs.  The
theorems are about single operators, each for all arguments: a sequence number is
recovered from its low bits if it is less than half the space from the last one, ahead
or behind; a delta is read back from its bytes; the delta of a packet, taken from the
rounded time of the packet before, puts it within half a tick of its own time, so that
rounding does not add up; base times less than half a period apart are compared rightly
across a wrap.  For chunks, `ChunkOK` says what `LastChunk` keeps true of itself (what its
flags mean, and that a chunk too long for one or two bits each can be encoded otherwise).
`Add` keeps it whenever `CanAdd` allows the size; from it follow that the last chunk is
read back as it was in all three encodings, and that a full one is read back as its
first statuses while the others open the next.

Only model-checked:

* `CompletePacketsAreHanded` (liveness under fairness);
* `MessagesFaithful`, `ReceivedOnce` and `ReceiveTimesAgree`: the encoder, the parser and the
  adapter are folds over a message, and what they compute of every message is an
  induction over data.  The steps of the folds are what is proved;
* the pacer and the receive path: the loops of `BitrateProber`, `PacingController`,
  `PacketBuffer` and `RtpSeqNumOnlyRefFinder` are RECURSIVE operators, which the prover
  does not accept, so these modules and `TaskQueuePacedSender` and
  `RtpVideoFrameAssembler` above them are for TLC only; the refinement of
  `DecodableStream` with them.

## Not modelled

Within the modelled components: RTX rewriting, FEC, header extensions and statistics
in the send path; `SetRtpState` and `SetSequenceNumber`, which restart the numbering;
the periodic mode of the pacing controller and `PacedSender`, which the transport
controller does not create; REMB and RTCP forwarding of the router; dependency and
generic descriptors in the frame assembler; feedback without timestamps and the
refusals of `Parse`, for bytes that `Create` does not write; the raw payload format;
the audio play-out of a session; frame lengths of 2^15 and more, which `OnRead` reads
as negative numbers (listed as a hazard); the 8 MB buffer limit; in the SCTP transport
failures of `Connect`, closing the socket, a lost association (which only signals),
errors of `usrsctp_sendv` other than a full buffer (line 806: a buffered message then
just stays), message types (control messages are sent without looking up their stream,
line 763) and unordered or unreliable delivery.

The models cover the stateful core and a small part of the repository's lines: most
of the rest is code in which a model checker has nothing to say beyond a unit test.
Components without a module, with the reason for each, are in `PROJECT.json`:

* serialisation and containers (RTCP packet formats, header extensions, packetizers,
  FLV, AMF0, MPEG-PS), which have byte layout and no protocol state;
* estimators (congestion control, remote bitrate), which are floating-point filters;
* text protocols (HTTP, RTSP, SIP, SDP), parsed one request at a time;
* wrappers (dcSCTP, DTLS, SRTP, sockets), whose state lives in libraries outside the
  repository;
* configuration records and interfaces (`media_channel.h`, parameters, constants).

## Plan

1. Done: packet history with proofs, retransmission path, pacer queue, GB28181
   session; pacing controller with prober, router and task queue; video receive path
   with its abstract specification; transport feedback; SCTP transport.
2. Done: proofs of the packet history, the retransmission path, the pacer queue, the
   GB28181 session and the SCTP transport, every invariant that their runs check; the
   operators of transport feedback.  Open: `ReceivedOnce` of the feedback adapter, once
   its fold over a message is separated from its state; the pacer and the receive path,
   once their loops are recursive functions with a bound on their iterations; what
   follows from `DecodableStream` (what is shown is closed under references).
3. VP8, VP9 and generic reference finders behind the same `DecodableStream`; receive
   statistics; RTCP receiver bookkeeping.
4. TCP server and connections: life of a connection against posted tasks, once the
   thread class it depends on is part of the repository; datagram classification of
   the WebRTC server.
