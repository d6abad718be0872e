----------------------- MODULE TransportFeedbackAdapter -----------------------
(***************************************************************************)
(* The sender's side of transport feedback: the adapter that turns the     *)
(* messages of the peer into the send and receive times of each packet     *)
(* (rtp/transport_feedback_adapter.cpp), as RtpTransportControllerSend     *)
(* drives it.  Every handler of the controller takes the time and posts a  *)
(* task to one queue, which is the only user of the adapter; a handler is  *)
(* one action here, since the queue keeps the order.                       *)
(*                                                                         *)
(* The peer is external.  It notes when each packet arrives, on a clock of *)
(* its own, and reports what came since its last message, from a late      *)
(* packet onwards when there is one.  Packets and messages are lost and    *)
(* reordered, messages are also repeated.                                  *)
(***************************************************************************)
EXTENDS TransportFeedback, FiniteSets

CONSTANTS
    Nothing,         \* no value yet
    FirstSeq,        \* the transport sequence number of the first packet
    HistoryWindow,   \* kSendTimeHistoryWindow
    MsUnits,         \* the units of time in a millisecond
    StartTime,       \* the sender's clock at the beginning
    SendGaps,        \* the time between two packets at the sender
    PeerStarts,      \* the peer's clock at the beginning
    ArrivalGaps,     \* the time between two arrivals
    \* Bounds.
    MaxPackets, MaxUnsignalled, MaxReorder, MaxMessages, MaxProcessed

ASSUME AdapterAssumption == BaseScale % MsUnits = 0 /\ StartTime % MsUnits = 0

VARIABLES
    now,             \* the sender's clock
    added,           \* packets given to the adapter and to the network
    signalled,       \* of these, the packets whose sending was signalled
    history,         \* history_: unwrapped sequence number -> creation time, sent or not
    unwrapper,       \* the last value of seq_num_unwrapper_, Nothing before the first
    lastAck,         \* last_ack_seq_num_
    offset,          \* current_offset_, Nothing before the first message
    lastTimestamp,   \* last_timestamp_, Nothing before the first message
    arrivals,        \* external: the packets that arrived, with their times
    peer,            \* external: the peer's clock and the first packet to report
    messages,        \* the messages of the peer
    processed,       \* how many messages were processed, repetitions included
    reports          \* every result the controller was given, in order

adapter == <<history, unwrapper, lastAck, offset, lastTimestamp>>
network == <<arrivals, peer, messages>>
vars == <<now, added, signalled, adapter, network, processed, reports>>

\* The unwrapped sequence number of a packet, and the one it carries.
Unwrapped(n) == FirstSeq + n - 1

TransportSeq(n) == Unwrapped(n) % SeqSpace

\* webrtc::SequenceNumberUnwrapper: the number closest to the last one.
Unwrap(last, s) ==
    IF last = Nothing THEN s
    ELSE LET c == last % SeqSpace
             d == s - c
         IN  CASE IsNewer(s, c) -> last + (IF d < 0 THEN d + SeqSpace ELSE d)
               [] ~IsNewer(s, c) /\ d > 0 /\ last + d >= SeqSpace -> last + d - SeqSpace
               [] OTHER -> last + d

\* webrtc::TimeDelta::RoundDownTo(Millis(1)).
ToMs(t) == MsUnits * Quotient(t, MsUnits)

Without(f, ks) == [k \in DOMAIN f \ ks |-> f[k]]

Init ==
    /\ now = StartTime /\ added = 0 /\ signalled = 0
    /\ history = <<>> /\ unwrapper = Nothing /\ lastAck = -1
    /\ offset = Nothing /\ lastTimestamp = Nothing
    /\ arrivals = <<>>
    /\ peer \in [now : PeerStarts, next : {1}]
    /\ messages = <<>> /\ processed = 0 /\ reports = <<>>

-----------------------------------------------------------------------------
(* The sender.                                                             *)

\* The oldest packets, from the front, that are older than the window.
Outdated(t) ==
    {k \in DOMAIN history : \A j \in DOMAIN history : j <= k => t - history[j].created > HistoryWindow}

\* OnAddPacket, then the packet is on its way.
AddPacket(gap) ==
    /\ added < MaxPackets /\ added - signalled < MaxUnsignalled
    /\ now' = now + gap
    /\ added' = added + 1
    /\ LET k    == Unwrap(unwrapper, TransportSeq(added + 1))
           left == Without(history, Outdated(now'))
       IN  /\ unwrapper' = k
           /\ history' = IF k \in DOMAIN left THEN left
                         ELSE left @@ (k :> [created |-> now', sent |-> FALSE])
    /\ UNCHANGED <<signalled, lastAck, offset, lastTimestamp, network, processed, reports>>

\* OnSentPacket: the socket has sent the packet.
ProcessSentPacket ==
    /\ signalled < added
    /\ signalled' = signalled + 1
    /\ LET k == Unwrap(unwrapper, TransportSeq(signalled + 1))
       IN  /\ unwrapper' = k
           /\ history' = IF k \in DOMAIN history THEN [history EXCEPT ![k].sent = TRUE] ELSE history
    /\ UNCHANGED <<now, added, lastAck, offset, lastTimestamp, network, processed, reports>>

\* The offset of the message's base time on the sender's clock.
OffsetFor(fb) ==
    IF lastTimestamp = Nothing THEN now
    ELSE LET delta == ToMs(GetBaseDelta(fb, lastTimestamp))
         IN  IF delta < -offset THEN now ELSE offset + delta

\* Mutant: a packet reported as received stays in the history.
KeptAfter(received, h, k) == h

\* A received packet leaves the history; a lost one may be reported again.
LeftAfter(received, h, k) == IF received THEN Without(h, {k}) ELSE h

\* A packet of the history that was sent: its result. `since' is packet_offset.
Report(r, p, k, since) ==
    [r EXCEPT !.since = since,
              !.history = LeftAfter(p.received, @, k),
              !.results = Append(@, [packet |-> k, received |-> p.received,
                  time |-> IF p.received THEN r.offset + ToMs(since) ELSE Nothing,
                  skipped |-> r.skipped])]

\* Packet k of a message.  `skipped' is a history variable: a received packet of
\* the message was passed over, and with it its delta.
ProcessUnwrapped(r, p, k) ==
    LET known == k \in DOMAIN r.history
    IN  IF known /\ (known => r.history[k].sent)
        THEN Report(r, p, k, IF p.received THEN r.since + p.delta * TickUnits ELSE r.since)
        ELSE [r EXCEPT !.skipped = @ \/ p.received]

ProcessPacket(r, p) ==
    LET k == Unwrap(r.unwrapper, p.seq)
    IN  ProcessUnwrapped([r EXCEPT !.unwrapper = k, !.lastAck = IF k > @ THEN k ELSE @], p, k)

\* OnTransportFeedback, for any message of the peer that was not lost.
ProcessTransportFeedback(i) ==
    /\ processed < MaxProcessed
    /\ processed' = processed + 1
    /\ \E fb \in {Parse(Create(messages[i]))} :
       \E r \in {FoldLeft(ProcessPacket,
                         [unwrapper |-> unwrapper, lastAck |-> lastAck, history |-> history,
                          offset |-> OffsetFor(fb), since |-> 0, skipped |-> FALSE, results |-> <<>>],
                         fb.all)} :
           /\ offset' = r.offset
           /\ lastTimestamp' = BaseTime(fb)
           /\ unwrapper' = r.unwrapper /\ lastAck' = r.lastAck /\ history' = r.history
           /\ reports' = reports \o r.results
    /\ UNCHANGED <<now, added, signalled, network>>

-----------------------------------------------------------------------------
(* The network and the peer, external.                                     *)

Arrive(n, gap) ==
    /\ n \notin DOMAIN arrivals
    /\ \A m \in DOMAIN arrivals : m - n <= MaxReorder
    /\ arrivals' = arrivals @@ (n :> peer.now + gap)
    /\ peer' = [now |-> peer.now + gap, next |-> IF n < peer.next THEN n ELSE peer.next]
    /\ UNCHANGED <<now, added, signalled, adapter, messages, processed, reports>>

\* The peer's message about the packets from its next one on, up to the first
\* that does not go into it.
AfterAdding(r, put, n) ==
    [fb |-> put.fb, full |-> ~put.ok, next |-> IF put.ok THEN n + 1 ELSE r.next]

BuildFeedback ==
    LET due == SetToSortSeq({n \in DOMAIN arrivals : n >= peer.next}, <)
    IN  FoldLeft(LAMBDA r, n :
                     IF r.full THEN r
                     ELSE AfterAdding(r, AddReceivedPacket(r.fb, TransportSeq(n), arrivals[n]), n),
                 [fb |-> SetBase(NewFeedback, TransportSeq(due[1]), arrivals[due[1]]),
                  full |-> FALSE, next |-> due[1]],
                 due)

SendFeedback ==
    /\ Len(messages) < MaxMessages
    /\ \E n \in DOMAIN arrivals : n >= peer.next
    /\ \E built \in {BuildFeedback} :
           /\ messages' = Append(messages, built.fb)
           /\ peer' = [peer EXCEPT !.next = built.next]
    /\ UNCHANGED <<now, added, signalled, adapter, arrivals, processed, reports>>

Next ==
    \/ \E gap \in SendGaps : AddPacket(gap)
    \/ ProcessSentPacket
    \/ \E n \in 1 .. added, gap \in ArrivalGaps : Arrive(n, gap)
    \/ SendFeedback
    \/ \E i \in DOMAIN messages : ProcessTransportFeedback(i)

Spec == Init /\ [][Next]_vars

-----------------------------------------------------------------------------
(* Properties.                                                             *)

\* The arrivals of the packets of a message, modulo the wrap of its base time,
\* as the message gives them.
TimesIn(fb) ==
    [i \in DOMAIN fb.all |->
        BaseTime(fb) + TickUnits * Total([j \in 1 .. i |-> fb.all[j].delta])]

PacketOf(fb, i) == CHOOSE n \in 1 .. MaxPackets : TransportSeq(n) = fb.all[i].seq

\* The distance of two times on the circle of the base time.
Apart(s, t) == LET d == (s - t) % Period IN IF d > Period \div 2 THEN Period - d ELSE d

Faithful(sent, got) ==
    /\ IsConsistent(sent) /\ IsConsistent(got)
    /\ got.all = sent.all
    /\ LET times == TimesIn(got)
       IN  \A i \in DOMAIN got.all : got.all[i].received =>
              LET n == PacketOf(got, i)
              IN  n \in DOMAIN arrivals /\ Apart(times[i], arrivals[n]) <= TickUnits \div 2

\* Every message of the peer (each is the last one once) is consistent before it
\* is written and after it is parsed, as the header asks of all methods, whatever
\* runs and vectors its chunks use and wherever AddReceivedPacket gave up; parsing
\* gives back the same packets, and each received one with the time it arrived at,
\* within half a tick, across wraps of sequence numbers and of the base time.
MessagesFaithful ==
    messages # <<>> => Faithful(Last(messages), Parse(Create(Last(messages))))

\* However messages are lost, repeated and overtake each other, a packet is
\* reported as received only if it arrived, and once: after that the controller
\* hears no more of it, not even that it was lost.
ReceivedOnce ==
    \A i \in DOMAIN reports : reports[i].received =>
        /\ reports[i].packet - FirstSeq + 1 \in DOMAIN arrivals
        /\ \A j \in i + 1 .. Len(reports) : reports[j].packet # reports[i].packet

\* The receive times given to the controller are as far apart as the arrivals
\* were, within what rounding to ticks and truncating to milliseconds take from
\* both, in one message and across messages, wraps and overtaking.  The exception
\* is a packet of a message of which an earlier received packet was passed over:
\* ProcessTransportFeedbackInner then leaves out the delta of that packet too.
ReceiveTimesAgree ==
    \A i, j \in DOMAIN reports :
        (/\ reports[i].received /\ ~reports[i].skipped
         /\ reports[j].received /\ ~reports[j].skipped) =>
        LET arrived(r) == arrivals[r.packet - FirstSeq + 1]
        IN  Abs((reports[i].time - reports[j].time)
                  - (arrived(reports[i]) - arrived(reports[j]))) <= 2 * MsUnits - TickUnits

=============================================================================
