----------------------- MODULE RoundRobinPacketQueue ------------------------
(***************************************************************************)
(* The pacer's packet queue: src/pacing/round_robin_packet_queue.{h,cpp}.  *)
(* Packets wait per stream (SSRC), most urgent first; the streams wait in  *)
(* stream_priorities_, a multimap keyed by the urgency of their next       *)
(* packet and then by the bytes they have sent.  A queue that holds one    *)
(* packet only keeps it in single_packet_queue_ instead, and promotes it   *)
(* when a second one arrives or a size has to be recomputed.               *)
(*                                                                         *)
(* The queue is called on the pacer's task queue only: each method is one  *)
(* step, and time passes between the steps.                                *)
(***************************************************************************)
EXTENDS Integers, Sequences, FiniteSets, FiniteSetsExt

CONSTANTS Ssrcs,
          Types,               \* the packet types pushed, among those of Priority
          Sizes,               \* payload_size() + padding_size()
          HeadersSize,         \* headers_size()
          Overheads,           \* arguments of SetTransportOverhead
          kMaxLeadingSize,     \* 1400 bytes
          MaxTime, MaxPackets  \* bounds of the state space

VARIABLES now,                  \* the caller's clock
          packet_counter_,      \* PacingController's enqueue order
          single_packet_queue_, \* <<>> or one packet
          queue,                \* the packets of all the streams' packet_queue
          stream_size,          \* Stream::size, zero for a stream not yet in streams_
          stream_priorities_,   \* the multimap in order: [priority, size, ssrc]
          size_packets_, size_, max_size_,
          queue_time_sum_, pause_time_sum_, time_last_updated_, paused_,
          include_overhead_, transport_overhead_per_packet_,
          bypassed              \* history variable: per stream, the bytes other streams
                                \* sent, no more urgent, since it has been waiting

contents == <<single_packet_queue_, queue, size_packets_>>
schedule == <<stream_size, stream_priorities_, max_size_, bypassed>>
times == <<queue_time_sum_, pause_time_sum_, time_last_updated_>>
overhead == <<include_overhead_, transport_overhead_per_packet_>>
vars == <<now, packet_counter_, contents, schedule, size_, times, paused_, overhead>>

\* GetPriorityForType; kProbe stands for the padding packet that opens a probe,
\* which is enqueued with kFirstPriority.  A lower number is more urgent.
Priority == [kProbe |-> 0, kAudio |-> 1, kRetransmission |-> 2, kVideo |-> 3, kPadding |-> 4]

ASSUME QueueAssumption ==
    /\ Types \subseteq DOMAIN Priority
    /\ Sizes \subseteq Nat \ {0} /\ HeadersSize \in Nat /\ Overheads \subseteq Nat
    /\ kMaxLeadingSize \in Nat
    /\ MaxTime \in Nat /\ MaxPackets \in Nat
-----------------------------------------------------------------------------
(* A queued packet.  enqueue_time is what the pause time is subtracted     *)
(* from, in_times the element of enqueue_times_ its iterator points to.    *)
(* waited is history: how long it has been in the queue while the queue    *)
(* was not paused.                                                         *)

QueuedPacket(ssrc, type, size, order, time, in_times) ==
    [ssrc |-> ssrc, type |-> type, size |-> size, order |-> order,
     enqueue_time |-> time, in_times |-> in_times, waited |-> 0]

PacketSize(p) ==
    p.size + (IF include_overhead_ THEN HeadersSize + transport_overhead_per_packet_ ELSE 0)

BeforeNewestFirst(p, q) ==
    \/ Priority[p.type] < Priority[q.type]
    \/ Priority[p.type] = Priority[q.type] /\ p.order > q.order

\* operator< of QueuedPacket, read from the end that top() returns.
Before(p, q) ==
    \/ Priority[p.type] < Priority[q.type]
    \/ /\ Priority[p.type] = Priority[q.type]
       /\ \/ p.type = "kRetransmission" /\ q.type # "kRetransmission"
          \/ /\ (p.type = "kRetransmission") = (q.type = "kRetransmission")
             /\ p.order < q.order

Of(packets, ssrc) == {p \in packets : p.ssrc = ssrc}

Top(packets) == CHOOSE p \in packets : \A q \in packets \ {p} : Before(p, q)
-----------------------------------------------------------------------------
(* The multimap of scheduled streams.                                      *)

Scheduled(prios, ssrc) == {i \in 1 .. Len(prios) : prios[i].ssrc = ssrc}

Erase(prios, at) ==
    [i \in 1 .. Len(prios) - 1 |-> IF i < at THEN prios[i] ELSE prios[i + 1]]

\* erase(priority_it), of a stream that has an entry.
Unscheduled(prios, ssrc) ==
    IF Scheduled(prios, ssrc) = {} THEN prios
    ELSE Erase(prios, CHOOSE i \in Scheduled(prios, ssrc) : TRUE)

\* The order of StreamPrioKey; entries with equal keys keep the order of arrival.
NotAfter(e, priority, size) ==
    \/ e.priority < priority
    \/ e.priority = priority /\ e.size <= size

\* emplace: after every entry whose key is not greater.
Emplace(prios, priority, size, ssrc) ==
    LET k == Cardinality({i \in 1 .. Len(prios) : NotAfter(prios[i], priority, size)})
    IN  [i \in 1 .. Len(prios) + 1 |->
            IF i <= k THEN prios[i]
            ELSE IF i = k + 1 THEN [priority |-> priority, size |-> size, ssrc |-> ssrc]
            ELSE prios[i - 1]]

ScheduleOnlyOnce(prios, p) ==
    IF Scheduled(prios, p.ssrc) = {}
    THEN Emplace(prios, Priority[p.type], stream_size[p.ssrc], p.ssrc) ELSE prios

\* The scheduling half of Push(QueuedPacket): a new entry, or a more urgent one.
Schedule(prios, p) ==
    LET at == Scheduled(prios, p.ssrc)
    IN  IF at = {} \/ \E i \in at : Priority[p.type] < prios[i].priority
        THEN Emplace(Unscheduled(prios, p.ssrc), Priority[p.type],
                     stream_size[p.ssrc], p.ssrc)
        ELSE prios
-----------------------------------------------------------------------------
(* UpdateQueueTime(t): what the two sums become.                           *)

PauseTimeAt(t) == pause_time_sum_ + (IF paused_ THEN t - time_last_updated_ ELSE 0)

QueueTimeAlways(t) == queue_time_sum_ + (t - time_last_updated_) * size_packets_

QueueTimeAt(t) ==
    queue_time_sum_ + (IF paused_ THEN 0 ELSE (t - time_last_updated_) * size_packets_)

TimesUpdated ==
    /\ pause_time_sum_' = PauseTimeAt(now)
    /\ queue_time_sum_' = QueueTimeAt(now)
    /\ time_last_updated_' = now

UpdateQueueTime ==
    /\ TimesUpdated
    /\ UNCHANGED <<now, packet_counter_, contents, schedule, size_, paused_, overhead>>

SetPauseState(paused) ==
    /\ IF paused = paused_ THEN UNCHANGED times ELSE TimesUpdated
    /\ paused_' = paused
    /\ UNCHANGED <<now, packet_counter_, contents, schedule, size_, overhead>>
-----------------------------------------------------------------------------
(* Push and Pop.                                                           *)

SinglePacket == {single_packet_queue_[i] : i \in DOMAIN single_packet_queue_}

\* MaybePromoteSinglePacketToNormalQueue: its time enters enqueue_times_ as it
\* is now, the pause time already subtracted.
Promoted ==
    queue \cup {[p EXCEPT !.in_times = p.enqueue_time] : p \in SinglePacket}

PromotedPriorities ==
    IF single_packet_queue_ = <<>> THEN stream_priorities_
    ELSE Schedule(stream_priorities_, single_packet_queue_[1])

PushSingle(ssrc, type, size) ==
    LET p == QueuedPacket(ssrc, type, size, packet_counter_, now - PauseTimeAt(now), -1)
    IN  /\ single_packet_queue_' = <<p>>
        /\ size_packets_' = 1
        /\ size_' = size_ + PacketSize(p)
        /\ UNCHANGED <<queue, stream_priorities_>>

PushNormal(ssrc, type, size) ==
    LET p == QueuedPacket(ssrc, type, size, packet_counter_, now - PauseTimeAt(now), now)
    IN  /\ single_packet_queue_' = <<>>
        /\ queue' = Promoted \cup {p}
        /\ stream_priorities_' = Schedule(PromotedPriorities, p)
        /\ size_packets_' = size_packets_ + 1
        /\ size_' = size_ + PacketSize(p)

Push(ssrc, type, size) ==
    /\ packet_counter_ < MaxPackets
    /\ packet_counter_' = packet_counter_ + 1
    /\ IF size_packets_ = 0 THEN PushSingle(ssrc, type, size) ELSE PushNormal(ssrc, type, size)
    /\ TimesUpdated
    /\ UNCHANGED <<now, stream_size, max_size_, bypassed, paused_, overhead>>

PopSingle ==
    /\ single_packet_queue_' = <<>>
    /\ queue_time_sum_' = 0
    /\ size_packets_' = 0
    /\ size_' = 0
    /\ bypassed' = [s \in Ssrcs |-> 0]
    /\ UNCHANGED <<queue, stream_size, stream_priorities_, max_size_>>

SentSizeUnlimited(ssrc, packet_size) == stream_size[ssrc] + packet_size

\* What a stream has sent counts at least max_size_ - kMaxLeadingSize: an idle
\* stream does not save up an unlimited turn.
SentSize(ssrc, packet_size) ==
    Max({stream_size[ssrc] + packet_size, max_size_ - kMaxLeadingSize})

\* The streams still waiting are bypassed unless the packet was more urgent.
Bypassing(p, prios) ==
    [s \in Ssrcs |->
        IF s = p.ssrc \/ Scheduled(prios, s) = {} THEN 0
        ELSE bypassed[s] +
             (IF \E i \in Scheduled(prios, s) : Priority[p.type] < prios[i].priority
              THEN 0 ELSE PacketSize(p))]

PopNormal ==
    LET ssrc == stream_priorities_[1].ssrc
        p == Top(Of(queue, ssrc))
        left == Of(queue, ssrc) \ {p}
        sent == SentSize(ssrc, PacketSize(p))
        others == Unscheduled(stream_priorities_, ssrc)
    IN  /\ queue' = queue \ {p}
        /\ queue_time_sum_' = queue_time_sum_
                                - (time_last_updated_ - p.enqueue_time - pause_time_sum_)
        /\ stream_size' = [stream_size EXCEPT ![ssrc] = sent]
        /\ max_size_' = Max({max_size_, sent})
        /\ size_' = size_ - PacketSize(p)
        /\ size_packets_' = size_packets_ - 1
        /\ stream_priorities_' =
               IF left = {} THEN others
               ELSE Emplace(others, Priority[Top(left).type], sent, ssrc)
        /\ bypassed' = Bypassing(p, others)
        /\ UNCHANGED single_packet_queue_

Pop ==
    /\ size_packets_ > 0
    /\ IF single_packet_queue_ # <<>> THEN PopSingle ELSE PopNormal
    /\ UNCHANGED <<now, packet_counter_, pause_time_sum_, time_last_updated_, paused_, overhead>>
-----------------------------------------------------------------------------
(* Sizes.                                                                  *)

Promote ==
    /\ queue' = Promoted
    /\ single_packet_queue_' = <<>>
    /\ stream_priorities_' = PromotedPriorities

SetIncludeOverheadUnpromoted ==
    /\ ~include_overhead_
    /\ include_overhead_' = TRUE
    /\ size_' = size_ + Cardinality(queue) * (HeadersSize + transport_overhead_per_packet_)
    /\ UNCHANGED <<now, packet_counter_, contents, schedule, times, paused_,
                   transport_overhead_per_packet_>>

\* Called once, before or while packets flow (a second call would count the
\* headers of the queued packets again).
SetIncludeOverhead ==
    /\ ~include_overhead_
    /\ Promote
    /\ include_overhead_' = TRUE
    /\ size_' = size_ + Cardinality(Promoted) * (HeadersSize + transport_overhead_per_packet_)
    /\ UNCHANGED <<now, packet_counter_, size_packets_, stream_size, max_size_, bypassed,
                   times, paused_, transport_overhead_per_packet_>>

SetTransportOverhead(overhead_per_packet) ==
    /\ Promote
    /\ size_' = size_ + (IF include_overhead_
                         THEN Cardinality(Promoted)
                                * (overhead_per_packet - transport_overhead_per_packet_)
                         ELSE 0)
    /\ transport_overhead_per_packet_' = overhead_per_packet
    /\ UNCHANGED <<now, packet_counter_, size_packets_, stream_size, max_size_, bypassed,
                   times, paused_, include_overhead_>>

Waiting(p) == [p EXCEPT !.waited = IF paused_ THEN @ ELSE @ + 1]

Tick ==
    /\ now < MaxTime
    /\ now' = now + 1
    /\ queue' = {Waiting(p) : p \in queue}
    /\ single_packet_queue_' = [i \in DOMAIN single_packet_queue_ |->
                                    Waiting(single_packet_queue_[i])]
    /\ UNCHANGED <<packet_counter_, size_packets_, schedule, size_, times, paused_, overhead>>
-----------------------------------------------------------------------------
Init ==
    /\ now = 0 /\ packet_counter_ = 0
    /\ single_packet_queue_ = <<>> /\ queue = {} /\ size_packets_ = 0 /\ size_ = 0
    /\ stream_size = [s \in Ssrcs |-> 0] /\ stream_priorities_ = <<>>
    /\ max_size_ = kMaxLeadingSize /\ bypassed = [s \in Ssrcs |-> 0]
    /\ queue_time_sum_ = 0 /\ pause_time_sum_ = 0 /\ time_last_updated_ = 0
    /\ paused_ = FALSE
    /\ include_overhead_ = FALSE /\ transport_overhead_per_packet_ = 0

Next ==
    \/ \E ssrc \in Ssrcs, type \in Types, size \in Sizes : Push(ssrc, type, size)
    \/ Pop
    \/ UpdateQueueTime
    \/ \E paused \in BOOLEAN : SetPauseState(paused)
    \/ SetIncludeOverhead
    \/ \E o \in Overheads : SetTransportOverhead(o)
    \/ Tick

Spec == Init /\ [][Next]_vars
-----------------------------------------------------------------------------
(* Readers.                                                                *)

Waiters == queue \cup SinglePacket
-----------------------------------------------------------------------------
(* Properties.                                                             *)

\* Every variable keeps its type, and no sum or size becomes negative.
TypeOK ==
    /\ now \in Nat /\ packet_counter_ \in Nat
    /\ Len(single_packet_queue_) \in 0 .. 1
    /\ \A p \in Waiters : p.ssrc \in Ssrcs /\ p.type \in Types /\ p.size \in Sizes
    /\ size_packets_ \in Nat /\ size_ \in Nat /\ max_size_ \in Nat
    /\ stream_size \in [Ssrcs -> Nat]
    /\ queue_time_sum_ \in Nat /\ pause_time_sum_ \in Nat /\ time_last_updated_ \in 0 .. now
    /\ paused_ \in BOOLEAN /\ include_overhead_ \in BOOLEAN

\* The RTC_CHECKs of Push, Pop and GetHighestPriorityStream (lines 225, 358, 413 to
\* 419): through pushes, promotions and pops, a stream is scheduled once if and
\* only if it has packets, at the urgency of its next packet and at the bytes it
\* has sent, and the multimap is in order.
SchedulingMatchesQueues ==
    /\ \A s \in Ssrcs :
           LET at == Scheduled(stream_priorities_, s)
           IN  /\ Cardinality(at) = IF Of(queue, s) = {} THEN 0 ELSE 1
               /\ \A i \in at :
                      /\ stream_priorities_[i].priority = Priority[Top(Of(queue, s)).type]
                      /\ stream_priorities_[i].size = stream_size[s]
    /\ \A i, j \in 1 .. Len(stream_priorities_) :
           LET e == stream_priorities_[i]
               f == stream_priorities_[j]
           IN  i < j => \/ e.priority < f.priority
                        \/ e.priority = f.priority /\ e.size <= f.size

\* The DCHECKs of Pop and Empty (172, 240, 243): the fast path and the normal
\* queue are never in use together, and size_packets_ and size_ count what is
\* queued, at the overhead in force, whenever the overhead was set.
AccountsMatchContents ==
    /\ single_packet_queue_ # <<>> => queue = {} /\ stream_priorities_ = <<>>
    /\ size_packets_ = Cardinality(Waiters)
    /\ size_ = MapThenSumSet(PacketSize, Waiters)

\* The average queue time that drains large queues (pacing_controller.cpp:497) is
\* right across pauses: queue_time_sum_, brought up to date, is the time the
\* queued packets have spent in the queue while it was not paused.  With an
\* empty queue it is zero, the RTC_CHECK of line 219.
QueueTimeIsTimeWaited ==
    QueueTimeAt(now) = MapThenSumSet(LAMBDA p : p.waited, Waiters)

\* "We limit `bytes' to be within kMaxLeading bytes of the stream that has sent
\* the most" (line 206): while a stream waits, every other stream sends at most
\* kMaxLeadingSize and two packets that are no more urgent before its turn comes.
MaxPacketSize == Max(Sizes) + HeadersSize + Max(Overheads)
BoundedBypass ==
    \A s \in Ssrcs :
        bypassed[s] <= (Cardinality(Ssrcs) - 1) * (kMaxLeadingSize + 2 * MaxPacketSize)

\* Packets of one stream and one type leave in the order they were pushed,
\* whatever was promoted from the fast path in between.
FifoPerStreamAndType ==
    [][\A p \in Waiters, q \in Waiters :
           /\ p.ssrc = q.ssrc /\ p.type = q.type /\ p.order < q.order
           /\ \A r \in Waiters' : r.order # q.order
           => \A r \in Waiters' : r.order # p.order]_vars
-----------------------------------------------------------------------------
(* The inductive invariant behind the properties.                          *)

Packets == [ssrc : Ssrcs, type : Types, size : Sizes, order : Nat,
            enqueue_time : Int, in_times : Int, waited : Nat]

Entries == [priority : Nat, size : Nat, ssrc : Ssrcs]

QTyped ==
    /\ now \in Nat /\ packet_counter_ \in Nat
    /\ single_packet_queue_ = <<>> \/ \E p \in Packets : single_packet_queue_ = <<p>>
    /\ queue \in SUBSET Packets /\ IsFiniteSet(queue)
    /\ stream_size \in [Ssrcs -> Nat] /\ max_size_ \in Nat
    /\ size_packets_ \in Nat /\ size_ \in Int
    /\ queue_time_sum_ \in Int /\ pause_time_sum_ \in Int /\ time_last_updated_ \in 0 .. now
    /\ paused_ \in BOOLEAN /\ include_overhead_ \in BOOLEAN
    /\ transport_overhead_per_packet_ \in Nat

\* The enqueue order tells the packets apart.
OrdersDiffer(packets) == \A p, q \in packets : p.order = q.order => p = q

FastPathAlone == single_packet_queue_ # <<>> => queue = {} /\ stream_priorities_ = <<>>

\* n is the urgency of the most urgent of the packets.
Urgency(n, packets) ==
    /\ \E p \in packets : Priority[p.type] = n
    /\ \A p \in packets : n <= Priority[p.type]

ScheduledOnce(prios) ==
    \A i, j \in 1 .. Len(prios) : prios[i].ssrc = prios[j].ssrc => i = j

InOrder(prios) ==
    \A i, j \in 1 .. Len(prios) :
        i < j => NotAfter(prios[i], prios[j].priority, prios[j].size)

\* prios schedules the streams that have packets, at the bytes each has sent.
Schedules(prios, packets, sizes) ==
    /\ prios \in Seq(Entries)
    /\ ScheduledOnce(prios) /\ InOrder(prios)
    /\ \A s \in Ssrcs : Scheduled(prios, s) # {} <=> Of(packets, s) # {}
    /\ \A i \in 1 .. Len(prios) :
           /\ Urgency(prios[i].priority, Of(packets, prios[i].ssrc))
           /\ prios[i].size = sizes[prios[i].ssrc]

QInv ==
    /\ QTyped
    /\ OrdersDiffer(Waiters) /\ \A p \in Waiters : p.order < packet_counter_
    /\ FastPathAlone
    /\ Schedules(stream_priorities_, queue, stream_size)
    /\ size_packets_ = Cardinality(Waiters)

\* The time the queue has been running, as enqueue times count it.
WaitedSinceEnqueued ==
    \A p \in Waiters : p.waited = now - PauseTimeAt(now) - p.enqueue_time
=============================================================================
