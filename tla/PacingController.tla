--------------------------- MODULE PacingController ---------------------------
(***************************************************************************)
(* The pacer (pacing/pacing_controller.cpp) in its dynamic mode, the one   *)
(* TaskQueuePacedSender uses: packets leave the queue no faster than the   *)
(* media rate pays for them, probes and audio excepted, and padding fills  *)
(* what is left.                                                           *)
(*                                                                         *)
(* The object is the record                                                *)
(*   paused               paused_                                          *)
(*   window, outst        congestion_window_size_ (PlusInfinity: none) and *)
(*                        outstanding_data_                                *)
(*   base, mrate, prate   pacing_bitrate_, media_rate_, padding_rate_      *)
(*   mdebt, pdebt         media_debt_, padding_debt_                       *)
(*   lastProc, lastSend   last_process_time_, last_send_time_              *)
(*   queue                packet_queue_, its packets in the order it pops  *)
(*                        them: [type, module, size, at] (the queue has its*)
(*                        own module; here one stream); at is the time of  *)
(*                        the push less pauseSum at the time, as there     *)
(*   pauseSum             the queue's pause_time_sum_, brought up to date  *)
(*   used                 packet_counter_ > 0                              *)
(*   prober, failed       prober_, probing_send_failure_                   *)
(*   router               packet_sender_, the packet router                *)
(*   out                  what has left since the clock moved: "queued"    *)
(*                        packets, a "keepalive" (a history variable)      *)
(***************************************************************************)
EXTENDS BitrateProber, PacketRouter

CONSTANTS
    CongestedInterval,  \* kCongestedPacketInterval = kPausedProcessInterval
    MaxDebtInTime,      \* kMaxDebtInTime
    MaxElapsedTime,     \* kMaxElapsedTime
    MaxEarlyProbe,      \* kMaxEarlyProbeProcessing
    QueueTimeLimit,     \* queue_time_limit
    PaddingDuration     \* padding_target_duration_

NewController(rate, padRate, router) ==
    [paused |-> FALSE, window |-> PlusInfinity, outst |-> 0, base |-> rate,
     mrate |-> rate, prate |-> padRate, mdebt |-> 0, pdebt |-> 0, lastProc |-> 0,
     lastSend |-> 0, queue |-> <<>>, pauseSum |-> 0, used |-> FALSE, prober |-> NewProber,
     failed |-> FALSE, router |-> router, out |-> {}]

Congested(c) == c.window # PlusInfinity /\ c.outst >= c.window

LeadingAudio(c) == c.queue # <<>> /\ Head(c.queue).type = "audio"

-----------------------------------------------------------------------------
(* Budgets.                                                                *)

UpdateBudgetWithElapsedTime(c, d) ==
    [c EXCEPT !.mdebt = @ - Smaller(@, c.mrate * d),
              !.pdebt = @ - Smaller(@, c.prate * d)]

UpdateBudgetWithSentData(c, size) ==
    [c EXCEPT !.outst = @ + size,
              !.mdebt = Smaller(@ + size, c.mrate * MaxDebtInTime),
              !.pdebt = Smaller(@ + size, c.prate * MaxDebtInTime)]

\* UpdateTimeAndGetElapsed: the time to account for, and the clock moved.
Elapsed(c, now) ==
    IF now < c.lastProc THEN 0 ELSE Smaller(now - c.lastProc, MaxElapsedTime)

MovedTo(c, now) == [c EXCEPT !.lastProc = Larger(@, now)]

\* Mutant: the elapsed time pays for nothing.
ElapsedIgnored(c, now) == MovedTo(c, now)

Drained(c, now) == UpdateBudgetWithElapsedTime(MovedTo(c, now), Elapsed(c, now))

-----------------------------------------------------------------------------
NextSendTime(c) ==
    LET keepalive == c.lastSend + CongestedInterval
        media == c.lastProc + c.mdebt \div c.mrate
        padding == c.lastProc + Larger(c.mdebt \div c.mrate, c.pdebt \div c.prate)
        probe == NextProbeTime(c.prober)
    IN  CASE c.paused -> keepalive
          [] ~c.paused /\ IsProbing(c.prober) /\ probe # PlusInfinity /\ ~c.failed -> probe
          [] OTHER ->
             IF LeadingAudio(c) THEN Head(c.queue).at
             ELSE IF Congested(c) \/ ~c.used THEN keepalive
             ELSE IF c.queue # <<>> THEN Smaller(keepalive, media)
             ELSE IF c.prate > 0 THEN Smaller(keepalive, padding)
             ELSE keepalive

Priority(type) ==
    CASE type = "probe" -> 0    \* the padding that opens a probe cluster
      [] type = "audio" -> 1
      [] type = "video" -> 3
      [] type = "padding" -> 4

\* packet_queue_.Push: after every packet that is popped no later.
Pushed(queue, p) ==
    LET before == SelectSeq(queue, LAMBDA q : Priority(q.type) <= Priority(p.type))
        after == SelectSeq(queue, LAMBDA q : Priority(q.type) > Priority(p.type))
    IN  before \o <<p>> \o after

\* payload_size(): plain padding has none, padding that resends packets on RTX
\* has; a probe's one byte is too few for that.
PayloadSize(p) ==
    IF p.type = "probe" \/ (p.type = "padding" /\ p.module \notin PayloadPadding)
    THEN 0 ELSE p.size

\* EnqueuePacketInternal: an empty queue must not turn idle time into budget.
StartedBusy(c, next, now) ==
    LET target == IF next \in {MinusInfinity, PlusInfinity} THEN now ELSE Smaller(now, next)
    IN  [Drained(c, target) EXCEPT !.lastProc = target]

Enqueued(c, p, now) ==
    [(IF c.queue = <<>> THEN StartedBusy(c, NextSendTime(c), now) ELSE c) EXCEPT
        !.queue = Pushed(@, [p EXCEPT !.at = now - c.pauseSum]), !.used = TRUE]

EnqueuePacketInternal(c, p, now) ==
    Enqueued([c EXCEPT !.prober = OnIncomingPacket(@, PayloadSize(p))], p, now)

\* SetCongestionWindow and UpdateOutstandingData: the end of a congestion
\* accounts for the time it lasted.
AfterCongestion(old, c, now) ==
    IF Congested(old) /\ ~Congested(c) THEN Drained(c, now) ELSE c

-----------------------------------------------------------------------------
(* ProcessPackets.                                                         *)

CanPad(c) == PaddingModule(c.router) # NoModule

PaddingPacket(c, type, size) ==
    [type |-> type, module |-> PaddingModule(c.router), size |-> size, at |-> 0]

\* The padding of a size, enqueued.
Padded(c, type, size, now) ==
    EnqueuePacketInternal([c EXCEPT !.router = GeneratePadding(@)],
                          PaddingPacket(c, type, size), now)

\* OnPacketSent: the time of the send is its target, late or not.
OnPacketSent(c, p, target) ==
    [(IF p.type = "audio" THEN c ELSE UpdateBudgetWithSentData(c, p.size)) EXCEPT
        !.lastSend = target, !.lastProc = target,
        !.router = SendPacket(@, p.module, p.type \in {"probe", "padding"}), !.out = @ \cup {"queued"}]

\* OnPaddingSent.
OnPaddingSent(c, size, now) ==
    [(IF size > 0 THEN UpdateBudgetWithSentData(c, size) ELSE c) EXCEPT
        !.lastSend = now, !.lastProc = now,
        !.router = SendPacket(GeneratePadding(@), PaddingModule(@), TRUE),
        !.out = IF size > 0 THEN @ \cup {"keepalive"} ELSE @]

\* Mutant: only what stops the pacer calls for a keep-alive.
KeepaliveIfStopped(c, now) ==
    (c.paused \/ Congested(c)) /\ now - c.lastSend >= CongestedInterval

\* send_padding_if_silent_ is always set.
ShouldSendKeepalive(c, now) == now - c.lastSend >= CongestedInterval

Keepalive(c, now) ==
    IF ~ShouldSendKeepalive(c, now) THEN c
    ELSE IF ~c.used THEN [c EXCEPT !.lastSend = now]
    ELSE OnPaddingSent(c, IF CanPad(c) THEN 1 ELSE 0, now)

\* The rate that empties a large queue within its time limit; the time that
\* packets waited while the pacer was paused does not count.
TargetRate(c, now) ==
    LET size == FoldLeft(LAMBDA a, p : a + p.size, 0, c.queue)
        waited == FoldLeft(LAMBDA a, p : a + now - c.pauseSum - p.at, 0, c.queue)
        left == Larger(1, QueueTimeLimit - waited \div Len(c.queue))
    IN  IF size = 0 THEN c.base ELSE Larger(c.base, size \div left)

PaddingToAdd(c, probeSize, data) ==
    IF c.queue # <<>> \/ Congested(c) \/ ~c.used THEN 0
    ELSE IF probeSize # 0 THEN Larger(0, probeSize - data)
    ELSE IF c.prate > 0 /\ c.pdebt = 0 THEN PaddingDuration * c.prate
    ELSE 0

\* GetPendingPacket: nothing holds the first packet of the queue back.
MaySend(c, isProbe, target, now) ==
    /\ c.queue # <<>>
    /\ \/ LeadingAudio(c)
       \/ isProbe
       \/ /\ ~Congested(c)
          /\ now <= target => now + c.mdebt \div c.mrate <= target

\* The send loop.  st: prev (previous_process_time), target (target_send_time),
\* data (data_sent), probeSize (recommended_probe_size, 0 when not probing).
RECURSIVE SendLoop(_, _, _)

\* After a packet was sent: the next one, unless the probe is large enough.
SentOne(c, st, now) ==
    LET next == NextSendTime(c)
    IN  IF st.probeSize > 0 /\ st.data >= st.probeSize
        THEN [c |-> c, prev |-> st.prev, data |-> st.data]
        ELSE SendLoop(c, [st EXCEPT !.target = IF next = MinusInfinity THEN now
                                              ELSE Smaller(now, next)], now)

\* With the budget of the target time: the first packet of the queue, or padding.
SendOne(c, st, now) ==
    LET p == Head(c.queue)
        padding == PaddingToAdd(c, st.probeSize, st.data)
    IN  IF MaySend(c, st.probeSize > 0, st.target, now)
        THEN SentOne(OnPacketSent([c EXCEPT !.queue = Tail(@)], p, st.target),
                     [st EXCEPT !.data = @ + p.size], now)
        ELSE IF padding > 0 /\ CanPad(c)
        THEN SendLoop(Padded(c, "padding", padding, now), st, now)
        ELSE [c |-> c, prev |-> st.prev, data |-> st.data]

SendLoop(c, st, now) ==
    SendOne(IF st.prev < st.target THEN UpdateBudgetWithElapsedTime(c, st.target - st.prev) ELSE c,
            [st EXCEPT !.prev = Larger(@, st.target)], now)

\* What is left to do after the loop.
Finished(r, probing, now) ==
    LET c == [r.c EXCEPT !.lastProc = Larger(@, r.prev)]
    IN  IF ~probing THEN c
        ELSE IF r.data = 0 THEN [c EXCEPT !.failed = TRUE]
        ELSE [c EXCEPT !.failed = FALSE, !.prober = ProbeSent(@, now, r.data)]

\* The loop, after the padding that opens a probe cluster.
SendDue(c, prev, target, now) ==
    LET probing == IsProbing(c.prober)
        opens == probing /\ Head(c.prober.clusters).bytes = 0 /\ CanPad(c)
    IN  Finished(SendLoop(IF opens THEN Padded(c, "probe", 1, now) ELSE c,
                          [prev |-> prev, target |-> target, data |-> 0,
                           probeSize |-> IF probing THEN RecommendedMinProbeSize(c.prober) ELSE 0],
                          now),
                 probing, now)

\* kept: after a keep-alive that was due; a paused pacer sends no more.
ProcessKept(kept, prev, elapsed, target, now) ==
    IF kept.paused THEN kept
    ELSE SendDue([kept EXCEPT !.mrate = IF elapsed > 0 THEN TargetRate(kept, now) ELSE @,
                              !.prober = CurrentCluster(@, now)],
                 prev, target, now)

ProcessFrom(c, target, now) ==
    ProcessKept(Keepalive(MovedTo(c, now), now), c.lastProc, Elapsed(c, now), target, now)

\* A send that was due before the last process time is paid for first.
ProcessDue(c, want, now) ==
    ProcessFrom(IF want < c.lastProc THEN UpdateBudgetWithElapsedTime(c, c.lastProc - want) ELSE c,
                Larger(want, c.lastProc), now)

ProcessPackets(c, now) ==
    LET next == NextSendTime(c)
        margin == IF IsProbing(c.prober) THEN MaxEarlyProbe ELSE 0
    IN  IF next # MinusInfinity /\ now < next - margin THEN Drained(c, now)
        ELSE ProcessDue(c, IF next = MinusInfinity THEN now ELSE next, now)

=============================================================================
