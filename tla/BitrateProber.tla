---------------------------- MODULE BitrateProber ----------------------------
(***************************************************************************)
(* Bandwidth probing (pacing/bitrate_prober.cpp).  The object is the       *)
(* record                                                                  *)
(*   state     probing_state_                                              *)
(*   clusters  clusters_, a queue of [id, rate, created, started, bytes,   *)
(*             probes]                                                     *)
(*   next      next_probe_time_, MinusInfinity for "right away"            *)
(* Sizes and times are small integers, rates are sizes per tick.           *)
(***************************************************************************)
EXTENDS Integers, Sequences

CONSTANTS
    MinProbePackets,    \* config_.min_probe_packets_sent
    MinProbeDelta,      \* config_.min_probe_delta
    MinProbeDuration,   \* config_.min_probe_duration
    MaxProbeDelay,      \* config_.max_probe_delay
    ProbeTimeout,       \* kProbeClusterTimeout
    MinProbePacketSize  \* kMinProbePacketSize

MinusInfinity == -1000

PlusInfinity == 1000

NotStarted == PlusInfinity

Smaller(a, b) == IF a < b THEN a ELSE b

Larger(a, b) == IF a > b THEN a ELSE b

\* The constructor enables probing.
NewProber == [state |-> "inactive", clusters |-> <<>>, next |-> PlusInfinity]

IsProbing(p) == p.state = "active"

RecommendedMinProbeSize(p) ==
    IF p.clusters = <<>> THEN 0 ELSE 2 * Head(p.clusters).rate * MinProbeDelta

\* Mutant: every large packet starts probing, under way or not.
OnEveryPacket(p, size) ==
    IF p.clusters # <<>> /\ size >= Smaller(RecommendedMinProbeSize(p), MinProbePacketSize)
    THEN [p EXCEPT !.state = "active", !.next = MinusInfinity]
    ELSE p

\* A packet large enough starts the probing that waits for one.
OnIncomingPacket(p, size) ==
    IF /\ p.state = "inactive"
       /\ p.clusters # <<>>
       /\ size >= Smaller(RecommendedMinProbeSize(p), MinProbePacketSize)
    THEN [p EXCEPT !.state = "active", !.next = MinusInfinity]
    ELSE p

\* The clusters left after those at the front that have timed out.
RECURSIVE InTime(_, _)
InTime(clusters, now) ==
    IF clusters # <<>> /\ now - Head(clusters).created > ProbeTimeout
    THEN InTime(Tail(clusters), now)
    ELSE clusters

CreateProbeCluster(p, id, rate, now) ==
    [p EXCEPT !.clusters = Append(InTime(@, now),
                 [id |-> id, rate |-> rate, created |-> now, started |-> NotStarted,
                  bytes |-> 0, probes |-> 0]),
              !.state = IF @ = "active" THEN @ ELSE "inactive"]

NextProbeTime(p) == IF IsProbing(p) /\ p.clusters # <<>> THEN p.next ELSE PlusInfinity

\* CurrentCluster(now): the prober afterwards; its front, if it is still
\* active, is the cluster returned.  A probe that is too late discards the
\* cluster at the front.
CurrentCluster(p, now) ==
    LET late == p.next # MinusInfinity /\ now - p.next > MaxProbeDelay
        rest == Tail(p.clusters)
    IN  IF p.clusters = <<>> \/ ~IsProbing(p) \/ ~late
        THEN p
        ELSE [p EXCEPT !.clusters = rest,
                       !.state = IF rest = <<>> THEN "suspended" ELSE @]

\* CalculateNextProbeTime: when the bytes of the cluster so far are due.
NextProbeOf(cluster) == cluster.started + cluster.bytes \div cluster.rate

ProbeSent(p, now, size) ==
    LET c == Head(p.clusters)
        sent == [c EXCEPT !.bytes = @ + size, !.probes = @ + 1,
                          !.started = IF c.probes = 0 THEN now ELSE @]
        done == /\ sent.bytes >= sent.rate * MinProbeDuration
                /\ sent.probes >= MinProbePackets
        left == (IF done THEN <<>> ELSE <<sent>>) \o Tail(p.clusters)
    IN  IF p.clusters = <<>> THEN p
        ELSE [p EXCEPT !.clusters = left,
                       !.next = NextProbeOf(sent),
                       !.state = IF left = <<>> THEN "suspended" ELSE @]

=============================================================================
