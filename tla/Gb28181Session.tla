--------------------------- MODULE Gb28181Session ---------------------------
(***************************************************************************)
(* A GB28181 media session over TCP:                                       *)
(* src/libgb28181/gb28181_session.{h,cpp}.  The peer sends RTP packets,    *)
(* each behind a two-byte length.  TCP delivers the bytes in pieces of any *)
(* size; OnRead (network thread) reassembles the frames, keeps an          *)
(* incomplete tail in recv_buffer_, and posts every packet to the worker   *)
(* thread, together with a task that creates the receive stream when it    *)
(* sees none.  The worker runs tasks while OnRead is in its loop, so a     *)
(* round of the loop is a step.                                            *)
(*                                                                         *)
(* The bytes of the connection are numbered 0, 1, 2...: a buffer is an     *)
(* interval of them, and the content is given by the frames the peer       *)
(* sends, each with the byte it starts at.  The length of a frame is sent  *)
(* unsigned and read into an int16_t; a peer sends frames shorter than     *)
(* HalfSpan, which is 2^15, so that the read returns what was sent.        *)
(***************************************************************************)
EXTENDS Integers, Sequences, FiniteSets

CONSTANTS Streams,    \* the sequences of frames a peer may send
          HalfSpan    \* lengths from here on are negative in an int16_t

VARIABLES frames,              \* what this peer sends
          arrived,             \* bytes the peer's TCP has delivered to the socket
          consumed,            \* bytes Recv has returned
          recv_buffer_size_,   \* the tail kept of them
          reading,             \* the network thread is in OnRead's loop
          parse_at,            \* the byte there that parse_size points to
          tasks,               \* the worker thread's queue
          rtp_stream_receive_controller_, video_receive_stream_,
          sinks,               \* the SSRCs AddSink was called with, in order
          handed,              \* packets given to the controller, in order
          received             \* those of them a sink took

network == <<consumed, recv_buffer_size_, reading, parse_at>>
worker == <<rtp_stream_receive_controller_, video_receive_stream_, sinks, handed, received>>
vars == <<frames, arrived, network, tasks, worker>>

\* "rtp96": RTP with the PS payload type.  Everything else is skipped: RTP with
\* another payload type or that does not parse, RTCP (the second branch of
\* OnRead repeats the test of the first), unknown data.
Kinds == {"rtp96", "other"}

\* len bytes behind a length of two; start is the byte the length is at.
Frame == [start : Nat, len : Nat, kind : Kinds, ssrc : Nat]

ASSUME HalfSpanAssumption == HalfSpan \in Nat

\* Frames follow each other without a gap and are shorter than HalfSpan; an RTP
\* packet is not empty.
ASSUME StreamsAssumption ==
    \A f \in Streams :
        /\ f \in Seq(Frame)
        /\ f # <<>> => f[1].start = 0
        /\ \A i \in 1 .. Len(f) - 1 : f[i + 1].start = f[i].start + 2 + f[i].len
        /\ \A i \in 1 .. Len(f) : f[i].len < HalfSpan
        /\ \A i \in 1 .. Len(f) : f[i].kind = "rtp96" => f[i].len > 0
-----------------------------------------------------------------------------
(* The byte stream.                                                        *)

EndOf(k) == frames[k].start + 2 + frames[k].len

TotalBytes == IF frames = <<>> THEN 0 ELSE EndOf(Len(frames))

FrameAt(byte) == {k \in 1 .. Len(frames) : frames[k].start = byte}

PacketAt(byte) == CHOOSE k \in FrameAt(byte) : TRUE

\* int16_t.
Signed(len) == IF len < HalfSpan THEN len ELSE len - 2 * HalfSpan

\* The length read at a byte; inside a frame it is the payload that is read.
LengthAt(byte) == IF FrameAt(byte) = {} THEN 1 ELSE Signed(frames[PacketAt(byte)].len)

\* The loop's guards for a buffer that ends before byte `limit'.
WholeFrame(byte, limit) ==
    /\ limit - byte > 2
    /\ limit - byte >= LengthAt(byte) + 2

IsPacket(byte) == FrameAt(byte) # {} /\ frames[PacketAt(byte)].kind = "rtp96"
-----------------------------------------------------------------------------
(* The network thread.                                                     *)

Create(k) == [do |-> "create", frame |-> k]
Deliver(k) == [do |-> "deliver", frame |-> k]

PostedSwapped(k, sees_stream) ==
    IF sees_stream THEN <<Deliver(k)>> ELSE <<Deliver(k), Create(k)>>

\* What OnRead posts for one packet: the receive stream, if it sees none, first.
Posted(k, sees_stream) ==
    IF sees_stream THEN <<Deliver(k)>> ELSE <<Create(k), Deliver(k)>>

OnReadWithoutTail ==
    /\ ~reading /\ consumed < arrived /\ recv_buffer_size_ = 0
    /\ reading' = TRUE
    /\ consumed' = arrived
    /\ parse_at' = consumed
    /\ UNCHANGED <<frames, arrived, recv_buffer_size_, tasks, worker>>

\* The socket is readable: read all there is behind the tail.
OnRead ==
    /\ ~reading /\ consumed < arrived
    /\ reading' = TRUE
    /\ consumed' = arrived
    /\ parse_at' = consumed - recv_buffer_size_
    /\ recv_buffer_size_' = 0
    /\ UNCHANGED <<frames, arrived, tasks, worker>>

\* One round of the loop.  video_receive_stream_ is tested here and assigned on
\* the worker thread without synchronisation: the test may miss an assignment
\* already made.
ParseFrame ==
    /\ reading /\ WholeFrame(parse_at, consumed)
    /\ parse_at' = parse_at + 2 + LengthAt(parse_at)
    /\ IF IsPacket(parse_at)
       THEN \E sees_stream \in {FALSE, video_receive_stream_} :
                tasks' = tasks \o Posted(PacketAt(parse_at), sees_stream)
       ELSE UNCHANGED tasks
    /\ UNCHANGED <<frames, arrived, consumed, recv_buffer_size_, reading, worker>>

UnparsedDropped == 0

\* The bytes behind the last whole frame.
Unparsed == IF consumed - parse_at > 0 THEN consumed - parse_at ELSE 0

\* The end of OnRead: keep the tail.
KeepTail ==
    /\ reading /\ ~WholeFrame(parse_at, consumed)
    /\ reading' = FALSE /\ parse_at' = 0
    /\ recv_buffer_size_' = Unparsed
    /\ UNCHANGED <<frames, arrived, consumed, tasks, worker>>
-----------------------------------------------------------------------------
(* The worker thread: one posted task at a time, in order.                 *)

\* Posted by the constructor.
RunInit ==
    /\ Head(tasks).do = "init"
    /\ rtp_stream_receive_controller_' = TRUE
    /\ UNCHANGED <<video_receive_stream_, sinks, handed, received>>

RunCreate ==
    /\ Head(tasks).do = "create"
    /\ video_receive_stream_' = TRUE
    /\ sinks' = IF video_receive_stream_ THEN sinks
                ELSE Append(sinks, frames[Head(tasks).frame].ssrc)
    /\ UNCHANGED <<rtp_stream_receive_controller_, handed, received>>

\* The controller's demuxer (external) finds the sink of the packet's SSRC.
RunDeliver ==
    /\ Head(tasks).do = "deliver"
    /\ handed' = Append(handed, Head(tasks).frame)
    /\ received' = IF \E i \in 1 .. Len(sinks) : sinks[i] = frames[Head(tasks).frame].ssrc
                   THEN Append(received, Head(tasks).frame) ELSE received
    /\ UNCHANGED <<rtp_stream_receive_controller_, video_receive_stream_, sinks>>

RunTask ==
    /\ tasks # <<>>
    /\ RunInit \/ RunCreate \/ RunDeliver
    /\ tasks' = Tail(tasks)
    /\ UNCHANGED <<frames, arrived, network>>

\* The peer and TCP: some more bytes arrive.
Arrive ==
    /\ \E n \in arrived + 1 .. TotalBytes : arrived' = n
    /\ UNCHANGED <<frames, network, tasks, worker>>
-----------------------------------------------------------------------------
InitWithoutController ==
    /\ frames \in Streams
    /\ arrived = 0 /\ consumed = 0 /\ recv_buffer_size_ = 0
    /\ reading = FALSE /\ parse_at = 0
    /\ tasks = <<>>
    /\ rtp_stream_receive_controller_ = FALSE /\ video_receive_stream_ = FALSE
    /\ sinks = <<>> /\ handed = <<>> /\ received = <<>>

Init ==
    /\ frames \in Streams
    /\ arrived = 0 /\ consumed = 0 /\ recv_buffer_size_ = 0
    /\ reading = FALSE /\ parse_at = 0
    /\ tasks = <<[do |-> "init", frame |-> 0]>>
    /\ rtp_stream_receive_controller_ = FALSE /\ video_receive_stream_ = FALSE
    /\ sinks = <<>> /\ handed = <<>> /\ received = <<>>

Next == Arrive \/ OnRead \/ ParseFrame \/ KeepTail \/ RunTask

\* The socket server signals a readable socket, OnRead runs to its end and the
\* worker thread drains its queue; the peer may stop anywhere.
Fairness == WF_vars(OnRead \/ ParseFrame \/ KeepTail) /\ WF_vars(RunTask)

Spec == Init /\ [][Next]_vars /\ Fairness
-----------------------------------------------------------------------------
(* Properties.                                                             *)

Packets == {k \in 1 .. Len(frames) : frames[k].kind = "rtp96"}
Deliveries == {i \in 1 .. Len(tasks) : tasks[i].do = "deliver"}
Ascending(s) == \A i, j \in 1 .. Len(s) : i < j => s[i] < s[j]
Elements(s) == {s[i] : i \in 1 .. Len(s)}

\* However TCP splits the stream, the packets handed to the controller and then
\* the ones still posted are, in order and each once, the RTP packets of the
\* stream up to where the parser is, and after OnRead all that are complete:
\* none is lost, repeated, reordered or taken from the middle of a frame.
FramesSurviveSplitting ==
    /\ Ascending(handed)
    /\ \A i, j \in Deliveries : i < j => tasks[i].frame < tasks[j].frame
    /\ \A k \in Elements(handed), i \in Deliveries : k < tasks[i].frame
    /\ Elements(handed) \cup {tasks[i].frame : i \in Deliveries} =
           {k \in Packets : EndOf(k) <= IF reading THEN parse_at ELSE consumed}

\* A task never runs on a controller that does not exist yet, although the
\* network thread posts packets without waiting for the worker (lines 195, 200).
ControllerExistsFirst ==
    \A i \in 1 .. Len(tasks) :
        tasks[i].do # "init" =>
            rtp_stream_receive_controller_ \/ \E j \in 1 .. i - 1 : tasks[j].do = "init"

\* The unsynchronised test of video_receive_stream_ may post several creations;
\* one stream is made all the same, and the packets of the SSRC it is made for
\* all reach it, the first one included.
OneSinkMissesNothing ==
    /\ Len(sinks) <= 1
    /\ Ascending(received)
    /\ Elements(received) =
           {k \in Elements(handed) : frames[k].ssrc = frames[handed[1]].ssrc}

\* Every packet whose last byte arrives is eventually handed to the controller,
\* even if the peer then stops in the middle of the next frame: again and again
\* the session has caught up with all the complete packets.
CompletePacketsAreHanded ==
    []<>(Elements(handed) = {k \in Packets : EndOf(k) <= arrived})
-----------------------------------------------------------------------------
(* The inductive invariant.                                                *)

Task == [do : {"init", "create", "deliver"}, frame : Nat]

\* Every variable keeps its type, and the kept tail is part of what was read.
TypeOK ==
    /\ frames \in Streams
    /\ arrived \in 0 .. TotalBytes /\ consumed \in 0 .. arrived
    /\ recv_buffer_size_ \in 0 .. consumed /\ parse_at \in 0 .. consumed
    /\ reading \in BOOLEAN
    /\ tasks \in Seq(Task)
    /\ rtp_stream_receive_controller_ \in BOOLEAN /\ video_receive_stream_ \in BOOLEAN
    /\ handed \in Seq(Nat) /\ received \in Seq(Nat)

\* Where the parser is, or will be when OnRead runs again.
Position == IF reading THEN parse_at ELSE consumed - recv_buffer_size_

\* It is always at the start of a frame, or behind the last one, and between
\* two calls of OnRead the frame there is incomplete.
InStep ==
    /\ FrameAt(Position) # {} \/ Position = TotalBytes
    /\ ~reading => ~WholeFrame(Position, consumed)

\* The constructor's task is first in the queue until it has run.
ControllerFirst ==
    \/ rtp_stream_receive_controller_ /\ \A i \in 1 .. Len(tasks) : tasks[i].do # "init"
    \/ /\ ~rtp_stream_receive_controller_ /\ tasks # <<>> /\ tasks[1].do = "init"
       /\ \A i \in 2 .. Len(tasks) : tasks[i].do # "init"

\* A creation is followed by the packet it was posted with.  Until it has run,
\* nothing is handed over; when it has, that packet is next.
CreatedFor ==
    /\ \A i \in 1 .. Len(tasks) :
           tasks[i].do = "create" => i < Len(tasks) /\ tasks[i + 1] = Deliver(tasks[i].frame)
    /\ ~video_receive_stream_ =>
           /\ handed = <<>> /\ received = <<>> /\ sinks = <<>>
           /\ \A i \in Deliveries : \E j \in 1 .. i - 1 : tasks[j].do = "create"
    /\ video_receive_stream_ =>
           /\ handed # <<>> => sinks = <<frames[handed[1]].ssrc>>
           /\ handed = <<>> => /\ tasks # <<>> /\ tasks[1].do = "deliver"
                               /\ sinks = <<frames[tasks[1].frame].ssrc>>

GInv ==
    /\ TypeOK
    /\ InStep
    /\ FramesSurviveSplitting
    /\ ControllerFirst
    /\ CreatedFor
    /\ OneSinkMissesNothing
=============================================================================
