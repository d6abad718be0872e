------------------------- MODULE TaskQueuePacedSender -------------------------
(***************************************************************************)
(* The paced sender (pacing/task_queue_paced_sender.cpp): every call posts *)
(* a task to one task queue, and delayed tasks wake the pacer when it says *)
(* that the next packet is due.  One action is one task; time passes       *)
(* between tasks, and a delayed task may run MaxLate ticks late.           *)
(***************************************************************************)
EXTENDS PacingController, FiniteSets

CONSTANTS
    HoldBack,           \* hold_back_window_
    StatsInterval,      \* kMaxTimeBetweenStatsUpdates
    MinStatsInterval,   \* kMinTimeBetweenStatsUpdates
    InitialRate,        \* the media and padding rate the constructor sets
    Modules,            \* the RTP modules
    InitialModules,     \* the sequence of those registered at first
    Rates,              \* the pairs <<media rate, padding rate>> a caller sets
    ProbeRate,          \* the rate of a probe cluster: a packet takes no longer
                        \* than a keep-alive interval
    PacketSizes,        \* the sizes of media packets
    Window,             \* the congestion window a caller sets
    MaxTime,            \* bound: the clock stops here
    MaxLate,            \* bound: how late a delayed task may run
    MaxPackets,         \* bound: media packets enqueued
    MaxProbes,          \* bound: probe clusters created
    MaxCalls,           \* bound: the other calls
    MaxEvents           \* bound: all of them together

VARIABLES
    now,        \* clock_
    c,          \* pacing_controller_
    started,    \* is_started_
    shutdown,   \* is_shutdown_
    nextProc,   \* next_process_time_
    wakeups,    \* the delayed MaybeProcessPackets tasks [sched, at], in order
    stats,      \* stats_update_scheduled_ (due: when the task runs), and
                \* last_stats_time_, forgotten once it can make no difference
    packets,    \* media packets enqueued so far
    probes,     \* probe clusters created so far
    calls,      \* other calls so far
    quiet,      \* history: ticks without a send, while one is due at times
    held        \* history of a queue that may be sent and is not: the ticks so
                \* far, the media debt at first and what keep-alives have added
                \* to it, and the lowest rate since

env == <<packets, probes, calls>>

history == <<quiet, held>>

vars == <<now, c, started, shutdown, nextProc, wakeups, stats, env, history>>

NotDue == PlusInfinity

NotHeld(ctl) == [ticks |-> 0, owed |-> ctl.mdebt, rate |-> ctl.base]

\* The modules of an established call.
InitialRouter == FoldLeft(AddSendRtpModule, NewRouter, InitialModules)

Init ==
    /\ now = 0
    /\ c = NewController(InitialRate, InitialRate, InitialRouter)
    /\ started = FALSE
    /\ shutdown = FALSE
    /\ nextProc = MinusInfinity
    /\ wakeups = <<>>
    /\ stats = [due |-> NotDue, last |-> MinusInfinity]
    /\ packets = 0
    /\ probes = 0
    /\ calls = 0
    /\ quiet = 0
    /\ held = NotHeld(c)

-----------------------------------------------------------------------------
\* PostDelayedTask: tasks run in the order of their time, then of posting.
Posted(tasks, t) ==
    SelectSeq(tasks, LAMBDA w : w.at <= t.at) \o <<t>> \o SelectSeq(tasks, LAMBDA w : w.at > t.at)

\* MaybeUpdateStats(scheduled), on the controller ctl; done is the controller
\* after the processing that the scheduled call starts with.
StatsUpdated(done, scheduled) ==
    LET busy == done.queue # <<>> \/ Larger(done.mdebt, done.pdebt) > 0
        again == busy /\ (scheduled \/ stats.due = NotDue)
    IN  /\ c' = done
        /\ stats' = [last |-> now,
                     due |-> IF again THEN now + StatsInterval
                             ELSE IF scheduled THEN NotDue ELSE stats.due]

UpdateStats(ctl, scheduled) ==
    IF shutdown
    THEN /\ c' = ctl
         /\ stats' = IF scheduled THEN [stats EXCEPT !.due = NotDue] ELSE stats
    ELSE IF ~scheduled /\ now - stats.last < MinStatsInterval
    THEN c' = ctl /\ UNCHANGED stats
    ELSE StatsUpdated(IF scheduled THEN ProcessPackets(ctl, now) ELSE ctl, scheduled)

\* Mutant: the schedule outlives the task that was scheduled.
KeepsSchedule(sched) == nextProc

\* next_process_time_ once the scheduled task has run: none is pending.
ScheduleLeft(sched) == IF nextProc = sched THEN MinusInfinity ELSE nextProc

\* The end of MaybeProcessPackets: a task for the next send time, unless one
\* that is early enough is pending.
ScheduleNext(ctl, next, pending, tasks) ==
    LET probe == IsProbing(ctl.prober) /\ next # pending
        delay == IF ~probe THEN Larger(next - now, HoldBack)
                 ELSE IF next = MinusInfinity THEN 0 ELSE Larger(0, next - now)
        post == probe \/ pending = MinusInfinity \/ next <= pending - HoldBack
    IN  /\ nextProc' = IF post THEN next ELSE pending
        /\ wakeups' = IF post THEN Posted(tasks, [sched |-> next, at |-> now + delay]) ELSE tasks
        /\ UpdateStats(ctl, FALSE)

\* MaybeProcessPackets(sched) with the controller ctl, the tasks left and
\* is_started_ being on.
MaybeProcessPackets(ctl, tasks, on, sched) ==
    LET pending == ScheduleLeft(sched)
        due == NextSendTime(ctl)
        run == \/ nextProc = sched
               \/ now >= due /\ (pending = MinusInfinity \/ due < pending)
    IN  IF shutdown \/ ~on
        THEN /\ c' = ctl
             /\ wakeups' = tasks
             /\ UNCHANGED <<nextProc, stats>>
        ELSE \E done \in {IF run THEN ProcessPackets(ctl, now) ELSE ctl} :
                ScheduleNext(done, NextSendTime(done), pending, tasks)

-----------------------------------------------------------------------------
(* Calls.                                                                  *)

MayCall == ~shutdown /\ packets + probes + calls < MaxEvents

EnsureStarted ==
    /\ ~started
    /\ ~shutdown
    /\ started' = TRUE
    /\ MaybeProcessPackets(c, wakeups, TRUE, MinusInfinity)
    /\ UNCHANGED <<now, shutdown, env, history>>

EnqueuePackets(type, size) ==
    /\ packets < MaxPackets /\ MayCall
    /\ packets' = packets + 1
    /\ MaybeProcessPackets(
          EnqueuePacketInternal(c, [type |-> type, module |-> type, size |-> size, at |-> now], now),
          wakeups, started, MinusInfinity)
    /\ UNCHANGED <<now, started, shutdown, probes, calls, history>>

CreateCluster ==
    /\ probes < MaxProbes /\ MayCall
    /\ probes' = probes + 1
    /\ MaybeProcessPackets(
          [c EXCEPT !.prober = CreateProbeCluster(@, probes + 1, ProbeRate, now)],
          wakeups, started, MinusInfinity)
    /\ UNCHANGED <<now, started, shutdown, packets, calls, history>>

Called ==
    /\ calls < MaxCalls /\ MayCall
    /\ calls' = calls + 1
    /\ UNCHANGED <<now, packets, probes>>

Pause ==
    /\ Called
    /\ ~c.paused
    /\ c' = [c EXCEPT !.paused = TRUE]
    /\ held' = NotHeld(c')
    /\ UNCHANGED <<quiet, started, shutdown, nextProc, wakeups, stats>>

Resume ==
    /\ Called
    /\ c.paused
    /\ MaybeProcessPackets([c EXCEPT !.paused = FALSE], wakeups, started, MinusInfinity)
    /\ held' = NotHeld(c')
    /\ UNCHANGED <<quiet, started, shutdown>>

SetCongestionWindow ==
    /\ Called
    /\ c.window # Window
    /\ MaybeProcessPackets(AfterCongestion(c, [c EXCEPT !.window = Window], now),
                           wakeups, started, MinusInfinity)
    /\ held' = NotHeld(c')
    /\ UNCHANGED <<quiet, started, shutdown>>

\* Feedback: everything outstanding has been received.  Nothing calls this on
\* the task queue itself, where it would not process packets.
UpdateOutstandingData ==
    /\ Called
    /\ c.outst > 0
    /\ MaybeProcessPackets(AfterCongestion(c, [c EXCEPT !.outst = 0], now),
                           wakeups, started, MinusInfinity)
    /\ held' = (IF Congested(c) THEN NotHeld(c') ELSE held)
    /\ UNCHANGED <<quiet, started, shutdown>>

SetPacingRates(r) ==
    /\ Called
    /\ <<c.base, c.prate>> # r
    /\ MaybeProcessPackets([c EXCEPT !.base = r[1], !.mrate = r[1], !.prate = r[2]],
                           wakeups, started, MinusInfinity)
    /\ UNCHANGED <<quiet, held, started, shutdown>>

(* Registration locks the router, on a thread of its own, here between two *)
(* tasks of the pacer; a module that is removed may be the one whose       *)
(* padding or packets are queued.                                          *)

AddModule(m) ==
    /\ Called
    /\ m \notin Registered(c.router)
    /\ c' = [c EXCEPT !.router = AddSendRtpModule(@, m)]
    /\ UNCHANGED <<started, shutdown, nextProc, wakeups, stats, history>>

RemoveModule(m) ==
    /\ Called
    /\ m \in Registered(c.router)
    /\ c' = [c EXCEPT !.router = RemoveSendRtpModule(@, m)]
    /\ quiet' = 0
    /\ UNCHANGED <<held, started, shutdown, nextProc, wakeups, stats>>

\* What the modules do on their own: media is switched off or on, and a frame
\* begins or ends.
SetSendingMediaStatus(m) ==
    /\ Called
    /\ c' = [c EXCEPT !.router.off = SymDiff(@, {m})]
    /\ quiet' = 0
    /\ UNCHANGED <<held, started, shutdown, nextProc, wakeups, stats>>

FrameBoundary(m) ==
    /\ Called
    /\ c' = [c EXCEPT !.router.busy = SymDiff(@, {m})]
    /\ quiet' = 0
    /\ UNCHANGED <<held, started, shutdown, nextProc, wakeups, stats>>

\* The destructor.
Shutdown ==
    /\ Called
    /\ shutdown' = TRUE
    /\ c' = c
    /\ held' = NotHeld(c)
    /\ UNCHANGED <<quiet, started, nextProc, wakeups, stats>>

-----------------------------------------------------------------------------
(* Delayed tasks and time.                                                 *)

WakeUp ==
    /\ wakeups # <<>>
    /\ Head(wakeups).at <= now
    /\ MaybeProcessPackets(c, Tail(wakeups), started, Head(wakeups).sched)
    /\ UNCHANGED <<now, started, shutdown, env, history>>

StatsTask ==
    /\ stats.due <= now
    /\ UpdateStats(c, TRUE)
    /\ UNCHANGED <<now, started, shutdown, nextProc, wakeups, env, history>>

\* When silence is limited: a packet has been enqueued and padding exists.
MustSpeak == started /\ ~shutdown /\ c.used /\ CanPad(c)

\* When nothing but the pace may hold the first packet of the queue back.
MustSend == started /\ ~shutdown /\ ~c.paused /\ ~Congested(c) /\ c.queue # <<>>

Tick ==
    /\ started /\ ~shutdown
    /\ now < MaxTime
    /\ \A k \in DOMAIN wakeups : now - wakeups[k].at < MaxLate
    /\ now - stats.due < MaxLate
    /\ now' = now + 1
    /\ c' = [c EXCEPT !.out = {}, !.pauseSum = IF c.paused THEN @ + 1 ELSE @]
    /\ stats' = [stats EXCEPT !.last = IF now' - @ < MinStatsInterval THEN @ ELSE MinusInfinity]
    /\ quiet' = IF MustSpeak /\ c.out = {} THEN quiet + 1 ELSE 0
    /\ held' = IF MustSend /\ "queued" \notin c.out
               THEN [ticks |-> held.ticks + 1, rate |-> Smaller(held.rate, c.base),
                     owed |-> held.owed + IF "keepalive" \in c.out THEN 1 ELSE 0]
               ELSE NotHeld(c)
    /\ UNCHANGED <<started, shutdown, nextProc, wakeups, env>>

Next ==
    \/ EnsureStarted
    \/ \E type \in {"audio", "video"}, size \in PacketSizes : EnqueuePackets(type, size)
    \/ CreateCluster
    \/ Pause
    \/ Resume
    \/ SetCongestionWindow
    \/ UpdateOutstandingData
    \/ \E r \in Rates : SetPacingRates(r)
    \/ \E m \in Modules :
          AddModule(m) \/ RemoveModule(m) \/ SetSendingMediaStatus(m) \/ FrameBoundary(m)
    \/ Shutdown
    \/ WakeUp
    \/ StatsTask
    \/ Tick

Spec == Init /\ [][Next]_vars

-----------------------------------------------------------------------------
(* Properties.                                                             *)

\* Two intervals of bytes, overshot by all but one byte of a packet.
LargestProbe(cluster) ==
    2 * cluster.rate * MinProbeDelta - 1 + CHOOSE s \in PacketSizes : \A q \in PacketSizes : q <= s

\* Type and shape: the debts stay in range, the prober is active only with a
\* cluster to probe with, and delayed tasks are in order.
TypeOK ==
    /\ now \in 0..MaxTime
    /\ c.mdebt >= 0 /\ c.pdebt >= 0
    /\ c.prober.state \in {"disabled", "inactive", "active", "suspended"}
    /\ IsProbing(c.prober) => c.prober.clusters # <<>>
    /\ \A j, k \in DOMAIN wakeups : j < k => wakeups[j].at <= wakeups[k].at

\* No lost wake-up (MaybeProcessPackets): while the sender runs, the task that
\* the pacer takes for its scheduled one is posted, and none of the reasons not
\* to post it leaves the pacer asleep for more than the hold-back window after
\* its next send time.
WakeupPending ==
    (started /\ ~shutdown) =>
        \E k \in DOMAIN wakeups :
            /\ wakeups[k].sched = nextProc
            /\ wakeups[k].at <= Larger(now, NextSendTime(c)) + HoldBack

\* Probes keep their rate (ProcessPackets, CalculateNextProbeTime): a cluster
\* never has more bytes on the wire than its rate allows for the time since its
\* first probe, but for one probe and the margin it may be early, whichever
\* task calls the pacer: the scheduled one, a stale one, the one for statistics
\* or one that enqueues packets.
ProbeRateKept ==
    \A k \in DOMAIN c.prober.clusters :
        LET cluster == c.prober.clusters[k]
        IN  cluster.probes > 0 =>
                cluster.bytes <= cluster.rate * (now - cluster.started + MaxEarlyProbe)
                                    + LargestProbe(cluster)

\* No dangling module (last_send_module_): the module that the next padding is
\* asked of without looking it up is registered, however registration and
\* removal fall between the tasks of the pacer.
LastModuleRegistered ==
    c.router.last # NoModule => c.router.last \in Registered(c.router)

\* Never silent (ShouldSendKeepalive): once a packet has been enqueued, a
\* running sender lets no more than kCongestedPacketInterval pass between two
\* sends, paused and congested included, but for the time that its task was late
\* and, after it, the one that a call put in its place.
NeverSilent == quiet <= CongestedInterval + 2 * MaxLate

\* The pacer drains its queue (NextSendTime, ProcessPackets): while it is
\* neither paused nor congested, a queue that is not empty is held for longer
\* than kMaxDebtInTime only while the debt it began with, and that of the
\* keep-alives, is being paid at the lowest rate set since, whatever probing,
\* audio, keep-alives, pauses and changes of the rate did to the budget.  (Debts
\* are clamped at the rate of their time: a rate lowered later stretches them.)
QueueDrains ==
    LET waited == held.ticks - MaxLate
    IN  waited > MaxDebtInTime => held.rate * waited <= held.owed

=============================================================================
