-------------------- MODULE RoundRobinPacketQueueProofs ---------------------
(***************************************************************************)
(* Proofs about the pacer's packet queue: the schedule matches the queues  *)
(* (SchedulingMatchesQueues), packets of one stream and type leave in      *)
(* order (FifoPerStreamAndType), and size_, size_packets_ and              *)
(* queue_time_sum_ are the sums they stand for (AccountsMatchContents,     *)
(* QueueTimeIsTimeWaited); no stream is bypassed for ever (BoundedBypass).  *)
(***************************************************************************)
EXTENDS RoundRobinPacketQueue, SetSums
-----------------------------------------------------------------------------
(* Priorities, and the packet on top of a stream's queue.                  *)

LEMMA Priorities ==
    /\ \A t \in Types : Priority[t] \in Nat
    /\ \A t, u \in Types : Priority[t] = Priority[u] => t = u
  BY QueueAssumption DEF Priority

LEMMA TopIsFirst ==
    ASSUME NEW U \in SUBSET Packets, U # {}, OrdersDiffer(U)
    PROVE  Top(U) \in U /\ \A q \in U \ {Top(U)} : Before(Top(U), q)
<1> DEFINE N == {Priority[p.type] : p \in U}
<1>1. \A p \in U : p.type \in Types /\ p.order \in Nat
  BY DEF Packets
<1>2. N \subseteq Nat /\ N # {}
  BY <1>1, Priorities
<1>3. PICK n \in N : \A m \in N : n <= m
  BY <1>2, LeastNatural
<1> DEFINE V == {p \in U : Priority[p.type] = n}
           O == {p.order : p \in V}
<1>4. O \subseteq Nat /\ O # {}
  BY <1>1, <1>3
<1>5. PICK o \in O : \A m \in O : o <= m
  BY <1>4, LeastNatural
<1>6. PICK p \in V : p.order = o
  BY <1>5
<1>7. ASSUME NEW q \in U, q # p PROVE Before(p, q)
  <2>1. CASE Priority[q.type] = n
    <3>1. q.type = p.type
      BY <1>1, <1>6, <2>1, Priorities
    <3>2. p.order <= q.order /\ p.order # q.order
      BY <1>5, <1>6, <1>7, <2>1 DEF OrdersDiffer
    <3>3. p.order < q.order
      BY <1>1, <1>6, <3>2
    <3>4. QED
      BY <3>1, <3>3 DEF Before
  <2>2. CASE Priority[q.type] # n
    <3>1. n <= Priority[q.type] /\ n \in Nat /\ Priority[q.type] \in Nat
      BY <1>1, <1>2, <1>3, Priorities
    <3>2. Priority[p.type] < Priority[q.type]
      BY <1>6, <2>2, <3>1
    <3>3. QED
      BY <3>2 DEF Before
  <2>3. QED
    BY <2>1, <2>2
<1> HIDE DEF N, V, O
<1>8. p \in U
  BY <1>6 DEF V
<1>9. \E x \in U : \A q \in U \ {x} : Before(x, q)
  BY <1>7, <1>8
<1>10. QED
  BY <1>9, Zenon DEF Top

\* The urgency of a stream is the priority of the packet on top.
LEMMA TopIsMostUrgent ==
    ASSUME NEW U \in SUBSET Packets, U # {}, OrdersDiffer(U)
    PROVE  Urgency(Priority[Top(U).type], U)
<1>1. Top(U) \in U /\ \A q \in U \ {Top(U)} : Before(Top(U), q)
  BY TopIsFirst
<1>2. PICK t : t = Top(U)
  OBVIOUS
<1>3. \A p \in U : Priority[p.type] \in Nat
  BY Priorities DEF Packets
<1>4. ASSUME NEW q \in U PROVE Priority[t.type] <= Priority[q.type]
  <2>1. CASE q = t
    BY <1>3, <2>1
  <2>2. CASE q # t
    <3>1. Before(t, q)
      BY <1>1, <1>2, <2>2
    <3>2. Priority[t.type] < Priority[q.type] \/ Priority[t.type] = Priority[q.type]
      BY <3>1 DEF Before
    <3>3. QED
      BY <1>1, <1>2, <1>3, <3>2
  <2>3. QED
    BY <2>1, <2>2
<1>5. QED
  BY <1>1, <1>2, <1>4 DEF Urgency

LEMMA UrgencyIsUnique ==
    ASSUME NEW U \in SUBSET Packets, NEW m, NEW n, Urgency(m, U), Urgency(n, U)
    PROVE  m = n
<1>1. \A p \in U : Priority[p.type] \in Nat
  BY Priorities DEF Packets
<1>2. m \in Nat /\ n \in Nat /\ m <= n /\ n <= m
  BY <1>1 DEF Urgency
<1>3. QED
  BY <1>2
-----------------------------------------------------------------------------
(* The multimap.                                                           *)

LEMMA EntryFields ==
    ASSUME NEW prios \in Seq(Entries), NEW i \in 1 .. Len(prios)
    PROVE  /\ prios[i] \in Entries
           /\ prios[i].priority \in Nat /\ prios[i].size \in Nat /\ prios[i].ssrc \in Ssrcs
<1>1. prios[i] \in Entries
  OBVIOUS
<1>2. QED
  BY <1>1 DEF Entries

LEMMA SequenceOfLength ==
    ASSUME NEW n \in Nat, NEW f, f = [i \in 1 .. n |-> f[i]],
           \A i \in 1 .. n : f[i] \in Entries
    PROVE  f \in Seq(Entries) /\ Len(f) = n
<1>1. f \in [1 .. n -> Entries]
  OBVIOUS
<1>2. QED
  BY <1>1

LEMMA EraseMoves ==
    ASSUME NEW prios \in Seq(Entries), NEW at \in 1 .. Len(prios)
    PROVE  /\ Erase(prios, at) \in Seq(Entries)
           /\ Len(Erase(prios, at)) = Len(prios) - 1
           /\ \A i \in 1 .. Len(prios) - 1 :
                  Erase(prios, at)[i] = IF i < at THEN prios[i] ELSE prios[i + 1]
<1> DEFINE n == Len(prios) - 1
           f == Erase(prios, at)
<1>1. n \in Nat /\ \A i \in 1 .. n : i \in 1 .. Len(prios) /\ i + 1 \in 1 .. Len(prios)
  OBVIOUS
<1>2. f = [i \in 1 .. n |-> IF i < at THEN prios[i] ELSE prios[i + 1]]
  BY DEF Erase
<1>3. \A i \in 1 .. n : f[i] = IF i < at THEN prios[i] ELSE prios[i + 1]
  BY <1>2
<1>4. \A i \in 1 .. n : f[i] \in Entries
  BY <1>1, <1>3, EntryFields
<1>5. f = [i \in 1 .. n |-> f[i]]
  BY <1>2
<1> HIDE DEF f
<1>6. f \in Seq(Entries) /\ Len(f) = n
  BY <1>1, <1>4, <1>5, SequenceOfLength
<1>7. QED
  BY <1>3, <1>6 DEF f

\* The entries that are not after a key come first.
LEMMA FirstEntries ==
    ASSUME NEW prios \in Seq(Entries), InOrder(prios), NEW n \in Nat, NEW z \in Nat
    PROVE  \E k \in 0 .. Len(prios) :
               /\ Cardinality({i \in 1 .. Len(prios) : NotAfter(prios[i], n, z)}) = k
               /\ \A i \in 1 .. Len(prios) : NotAfter(prios[i], n, z) <=> i <= k
<1> DEFINE L == Len(prios)
           A == {i \in 1 .. L : NotAfter(prios[i], n, z)}
           U == {i \in 1 .. L + 1 : i \notin A}
<1>1. L \in Nat
  OBVIOUS
<1> HIDE DEF L
<1>2. U \subseteq Nat /\ U # {}
  <2>1. L + 1 \in U
    BY <1>1
  <2>2. QED
    BY <2>1
<1>3. PICK m \in U : \A j \in U : m <= j
  BY <1>2, LeastNatural
<1>4. m - 1 \in 0 .. L /\ m \in 1 .. L + 1
  BY <1>1, <1>3
<1>5. ASSUME NEW i \in 1 .. L, i <= m - 1 PROVE NotAfter(prios[i], n, z)
  <2>1. i \notin U
    BY <1>1, <1>3, <1>4, <1>5
  <2>2. QED
    BY <1>1, <2>1
<1>6. ASSUME NEW i \in 1 .. L, ~(i <= m - 1) PROVE ~NotAfter(prios[i], n, z)
  <2>1. m \in 1 .. L /\ ~NotAfter(prios[m], n, z)
    BY <1>1, <1>3, <1>4, <1>6
  <2>2. CASE i = m
    BY <2>1, <2>2
  <2>3. CASE i # m
    <3>1. m < i
      BY <1>4, <1>6, <2>3
    <3>2. NotAfter(prios[m], prios[i].priority, prios[i].size)
      BY <2>1, <3>1 DEF InOrder, L
    <3>3. /\ prios[m].priority \in Nat /\ prios[m].size \in Nat
          /\ prios[i].priority \in Nat /\ prios[i].size \in Nat
      BY <2>1, EntryFields DEF L
    <3>4. PICK a \in Nat, b \in Nat, c \in Nat, d \in Nat :
              /\ a = prios[m].priority /\ b = prios[m].size
              /\ c = prios[i].priority /\ d = prios[i].size
      BY <3>3
    <3>5. ~(a < n \/ (a = n /\ b <= z)) /\ (a < c \/ (a = c /\ b <= d))
      BY <2>1, <3>2, <3>4 DEF NotAfter
    <3>6. ~(c < n \/ (c = n /\ d <= z))
      BY <3>5
    <3>7. QED
      BY <3>4, <3>6 DEF NotAfter
  <2>4. QED
    BY <2>2, <2>3
<1>7. A = 1 .. m - 1
  BY <1>1, <1>4, <1>5, <1>6
<1>8. Cardinality(1 .. m - 1) = m - 1
  <2>1. m - 1 \in Int /\ 1 \in Int
    BY <1>4
  <2>2. Cardinality(1 .. m - 1) = IF 1 > m - 1 THEN 0 ELSE (m - 1) - 1 + 1
    BY <2>1, FS_Interval
  <2>3. QED
    BY <1>4, <2>2
<1>9. QED
  BY <1>4, <1>5, <1>6, <1>7, <1>8 DEF L

\* f is prios with an entry more, after its first k entries.
Inserted(f, prios, k, n, z, s) ==
    /\ \A i \in 1 .. Len(prios) : NotAfter(prios[i], n, z) <=> i <= k
    /\ f \in Seq(Entries) /\ Len(f) = Len(prios) + 1
    /\ \A i \in 1 .. k : f[i] = prios[i]
    /\ f[k + 1] = [priority |-> n, size |-> z, ssrc |-> s]
    /\ \A i \in k + 1 .. Len(prios) : f[i + 1] = prios[i]

LEMMA EmplaceInserts ==
    ASSUME NEW prios \in Seq(Entries), InOrder(prios),
           NEW n \in Nat, NEW z \in Nat, NEW s \in Ssrcs
    PROVE  \E k \in 0 .. Len(prios) : Inserted(Emplace(prios, n, z, s), prios, k, n, z, s)
<1> DEFINE f == Emplace(prios, n, z, s)
           L == Len(prios)
           e == [priority |-> n, size |-> z, ssrc |-> s]
<1>1. PICK k \in 0 .. Len(prios) :
          /\ Cardinality({i \in 1 .. Len(prios) : NotAfter(prios[i], n, z)}) = k
          /\ \A i \in 1 .. Len(prios) : NotAfter(prios[i], n, z) <=> i <= k
  BY FirstEntries
<1>2. L \in Nat /\ k \in 0 .. L
  OBVIOUS
<1>3. e \in Entries
  BY DEF Entries
<1>4. \A i \in 1 .. L : prios[i] \in Entries
  BY EntryFields
<1>5. f = [i \in 1 .. L + 1 |->
            IF i <= k THEN prios[i] ELSE IF i = k + 1 THEN e ELSE prios[i - 1]]
  BY <1>1 DEF Emplace
<1> HIDE DEF f, L, e
<1>6. \A i \in 1 .. L + 1 :
          f[i] = IF i <= k THEN prios[i] ELSE IF i = k + 1 THEN e ELSE prios[i - 1]
  BY <1>5
<1>7. f = [i \in 1 .. L + 1 |-> f[i]]
  BY <1>5
<1>8. \A i \in 1 .. L + 1 : f[i] \in Entries
  BY <1>2, <1>3, <1>4, <1>6
<1>9. f \in Seq(Entries) /\ Len(f) = L + 1
  BY <1>2, <1>7, <1>8, SequenceOfLength
<1>10. /\ \A i \in 1 .. k : f[i] = prios[i]
       /\ f[k + 1] = e
       /\ \A i \in k + 1 .. L : f[i + 1] = prios[i]
  BY <1>2, <1>6
<1>11. Inserted(f, prios, k, n, z, s)
  BY <1>1, <1>9, <1>10 DEF L, e, Inserted
<1>12. QED
  BY <1>11 DEF f
-----------------------------------------------------------------------------
(* What the operations do to a schedule.                                   *)

\* Scheduling depends on the streams and types of the packets only.
LEMMA SameKinds ==
    ASSUME NEW prios, NEW Q, NEW R, NEW sizes, Schedules(prios, Q, sizes),
           \A p \in Q : \E r \in R : r.ssrc = p.ssrc /\ r.type = p.type,
           \A r \in R : \E p \in Q : p.ssrc = r.ssrc /\ p.type = r.type
    PROVE  Schedules(prios, R, sizes)
<1>1. ASSUME NEW s PROVE Of(Q, s) # {} <=> Of(R, s) # {}
  BY DEF Of
<1>2. ASSUME NEW s, NEW n, Urgency(n, Of(Q, s)) PROVE Urgency(n, Of(R, s))
  BY <1>2 DEF Urgency, Of
<1>3. QED
  BY <1>1, <1>2 DEF Schedules

LEMMA NothingScheduled ==
    ASSUME NEW sizes
    PROVE  Schedules(<<>>, {}, sizes)
  BY DEF Schedules, ScheduledOnce, InOrder, Scheduled, Of

\* A stream whose packets are gone leaves the schedule.
LEMMA UnscheduledStream ==
    ASSUME NEW prios, NEW Q, NEW sizes, NEW newSizes, Schedules(prios, Q, sizes),
           NEW s \in Ssrcs, \A u \in Ssrcs \ {s} : newSizes[u] = sizes[u],
           NEW R, R = {p \in Q : p.ssrc # s}
    PROVE  Schedules(Unscheduled(prios, s), R, newSizes)
<1>1. prios \in Seq(Entries) /\ Len(prios) \in Nat
  BY DEF Schedules
<1>2. Of(R, s) = {} /\ \A u \in Ssrcs : u # s => Of(R, u) = Of(Q, u)
  BY DEF Of
<1>3. \A i \in 1 .. Len(prios) : prios[i].ssrc \in Ssrcs
  BY <1>1, EntryFields
<1>4. CASE Scheduled(prios, s) = {}
  <2>1. \A i \in 1 .. Len(prios) : prios[i].ssrc # s
    BY <1>4 DEF Scheduled
  <2>2. \A u \in Ssrcs : Scheduled(prios, u) # {} <=> Of(R, u) # {}
    BY <1>2, <1>4 DEF Schedules
  <2>3. \A i \in 1 .. Len(prios) :
           /\ Urgency(prios[i].priority, Of(R, prios[i].ssrc))
           /\ prios[i].size = newSizes[prios[i].ssrc]
    BY <1>2, <1>3, <2>1 DEF Schedules
  <2>4. Unscheduled(prios, s) = prios
    BY <1>4 DEF Unscheduled
  <2>5. QED
    BY <2>2, <2>3, <2>4 DEF Schedules
<1>5. CASE Scheduled(prios, s) # {}
  <2>1. PICK at \in Scheduled(prios, s) : Unscheduled(prios, s) = Erase(prios, at)
    <3>1. PICK c : c = CHOOSE i \in Scheduled(prios, s) : TRUE
      OBVIOUS
    <3>2. c \in Scheduled(prios, s)
      BY <1>5, <3>1, Zenon
    <3>3. Unscheduled(prios, s) = Erase(prios, c)
      BY <1>5, <3>1, Zenon DEF Unscheduled
    <3>4. QED
      BY <3>2, <3>3
  <2>2. at \in 1 .. Len(prios) /\ prios[at].ssrc = s
    BY <2>1 DEF Scheduled
  <2> DEFINE f == Erase(prios, at)
             n == Len(prios)
             old(i) == IF i < at THEN i ELSE i + 1
  <2>3. f \in Seq(Entries) /\ Len(f) = n - 1
    BY <1>1, <2>2, EraseMoves
  <2>4. \A i \in 1 .. n - 1 : old(i) \in 1 .. n /\ old(i) # at /\ f[i] = prios[old(i)]
    <3>1. n \in Nat /\ at \in 1 .. n
      BY <1>1, <2>2
    <3>2. \A i \in 1 .. n - 1 : f[i] = IF i < at THEN prios[i] ELSE prios[i + 1]
      BY <1>1, <2>2, EraseMoves
    <3>3. SUFFICES ASSUME NEW i \in 1 .. n - 1
                   PROVE  old(i) \in 1 .. n /\ old(i) # at /\ f[i] = prios[old(i)]
      OBVIOUS
    <3> HIDE DEF f, n
    <3>4. CASE i < at
      BY <3>1, <3>2, <3>4
    <3>5. CASE ~(i < at)
      BY <3>1, <3>2, <3>5
    <3>6. QED
      BY <3>4, <3>5
  <2>5. \A i, j \in 1 .. n - 1 : i < j => old(i) < old(j)
    BY <1>1, <2>2
  <2>6. \A j \in 1 .. n : j # at => \E i \in 1 .. n - 1 : old(i) = j
    <3> SUFFICES ASSUME NEW j \in 1 .. n, j # at PROVE \E i \in 1 .. n - 1 : old(i) = j
      OBVIOUS
    <3>1. CASE j < at
      BY <1>1, <2>2, <3>1
    <3>2. CASE j > at
      <4>1. j - 1 \in 1 .. n - 1 /\ old(j - 1) = j
        BY <1>1, <2>2, <3>2
      <4>2. QED
        BY <4>1
    <3>3. QED
      BY <1>1, <2>2, <3>1, <3>2
  <2>7. \A i \in 1 .. n : prios[i].ssrc = s => i = at
    BY <2>2 DEF Schedules, ScheduledOnce
  <2> HIDE DEF f, old
  <2>8. \A i \in 1 .. n - 1 : f[i].ssrc # s /\ f[i].ssrc \in Ssrcs
    BY <1>3, <2>4, <2>7
  <2>9. ScheduledOnce(f)
    <3> SUFFICES ASSUME NEW i \in 1 .. n - 1, NEW j \in 1 .. n - 1, f[i].ssrc = f[j].ssrc
                 PROVE  i = j
      BY <2>3 DEF ScheduledOnce
    <3>1. old(i) = old(j)
      BY <2>4 DEF Schedules, ScheduledOnce
    <3>2. QED
      BY <1>1, <2>2, <3>1 DEF old
  <2>10. InOrder(f)
    <3> SUFFICES ASSUME NEW i \in 1 .. n - 1, NEW j \in 1 .. n - 1, i < j
                 PROVE  NotAfter(f[i], f[j].priority, f[j].size)
      BY <2>3 DEF InOrder
    <3>1. old(i) < old(j) /\ old(i) \in 1 .. n /\ old(j) \in 1 .. n
      BY <2>4, <2>5
    <3>2. NotAfter(prios[old(i)], prios[old(j)].priority, prios[old(j)].size)
      BY <3>1 DEF Schedules, InOrder
    <3>3. QED
      BY <2>4, <3>2
  <2>11. ASSUME NEW u \in Ssrcs PROVE Scheduled(f, u) # {} <=> Of(R, u) # {}
    <3>1. CASE u = s
      BY <1>2, <2>3, <2>8, <3>1 DEF Scheduled
    <3>2. CASE u # s
      <4>1. Of(R, u) = Of(Q, u) /\ (Scheduled(prios, u) # {} <=> Of(Q, u) # {})
        BY <1>2, <3>2 DEF Schedules
      <4>2. ASSUME NEW i \in Scheduled(f, u) PROVE Scheduled(prios, u) # {}
        BY <2>3, <2>4 DEF Scheduled
      <4>3. ASSUME NEW j \in Scheduled(prios, u) PROVE Scheduled(f, u) # {}
        <5>1. j \in 1 .. n /\ prios[j].ssrc = u /\ j # at
          BY <2>2, <3>2 DEF Scheduled
        <5>2. PICK i \in 1 .. n - 1 : old(i) = j
          BY <2>6, <5>1
        <5>3. f[i].ssrc = u
          BY <2>4, <5>1, <5>2
        <5>4. QED
          BY <2>3, <5>3 DEF Scheduled
      <4>4. QED
        BY <4>1, <4>2, <4>3
    <3>3. QED
      BY <3>1, <3>2
  <2>12. ASSUME NEW i \in 1 .. n - 1
         PROVE  /\ Urgency(f[i].priority, Of(R, f[i].ssrc))
                /\ f[i].size = newSizes[f[i].ssrc]
    <3>1. PICK j \in 1 .. n : f[i] = prios[j]
      BY <2>4
    <3>2. Urgency(prios[j].priority, Of(Q, prios[j].ssrc)) /\ prios[j].size = sizes[prios[j].ssrc]
      BY DEF Schedules
    <3>3. Of(R, f[i].ssrc) = Of(Q, f[i].ssrc) /\ newSizes[f[i].ssrc] = sizes[f[i].ssrc]
      BY <1>2, <2>8
    <3>4. QED
      BY <3>1, <3>2, <3>3
  <2>13. QED
    BY <2>1, <2>3, <2>9, <2>10, <2>11, <2>12 DEF Schedules, f
<1>6. QED
  BY <1>4, <1>5

\* A stream that was not scheduled enters with its packets.
LEMMA EmplacedStream ==
    ASSUME NEW prios, NEW Q, NEW sizes \in [Ssrcs -> Nat], Schedules(prios, Q, sizes),
           NEW s \in Ssrcs, Of(Q, s) = {},
           NEW P, \A p \in P : p.ssrc = s, NEW n \in Nat, Urgency(n, P)
    PROVE  Schedules(Emplace(prios, n, sizes[s], s), Q \cup P, sizes)
<1> DEFINE f == Emplace(prios, n, sizes[s], s)
           z == sizes[s]
           e == [priority |-> n, size |-> z, ssrc |-> s]
           L == Len(prios)
           R == Q \cup P
<1>1. prios \in Seq(Entries) /\ InOrder(prios) /\ z \in Nat
  BY DEF Schedules
<1>2. PICK k \in 0 .. Len(prios) :
          /\ \A i \in 1 .. Len(prios) : NotAfter(prios[i], n, z) <=> i <= k
          /\ f \in Seq(Entries) /\ Len(f) = Len(prios) + 1
          /\ \A i \in 1 .. k : f[i] = prios[i]
          /\ f[k + 1] = e
          /\ \A i \in k + 1 .. Len(prios) : f[i + 1] = prios[i]
  <2>1. PICK k \in 0 .. Len(prios) : Inserted(f, prios, k, n, z, s)
    BY <1>1, EmplaceInserts
  <2>2. QED
    BY <2>1, Zenon DEF Inserted
<1>3. L \in Nat /\ k \in 0 .. L /\ Len(f) = L + 1
  BY <1>1, <1>2
<1> DEFINE old(i) == IF i <= k THEN i ELSE i - 1
<1>4. \A i \in 1 .. L + 1 : i # k + 1 => old(i) \in 1 .. L /\ f[i] = prios[old(i)]
  <2> SUFFICES ASSUME NEW i \in 1 .. L + 1, i # k + 1
               PROVE  old(i) \in 1 .. L /\ f[i] = prios[old(i)]
    OBVIOUS
  <2>1. CASE i <= k
    BY <1>2, <1>3, <2>1
  <2>2. CASE i > k + 1
    <3>1. i - 1 \in k + 1 .. Len(prios) /\ (i - 1) + 1 = i /\ old(i) = i - 1
      BY <1>3, <2>2
    <3>2. f[(i - 1) + 1] = prios[i - 1]
      BY <1>2, <3>1
    <3>3. QED
      BY <1>3, <3>1, <3>2
  <2>3. QED
    BY <1>3, <2>1, <2>2
<1>5. \A j \in 1 .. L : \E i \in 1 .. L + 1 : i # k + 1 /\ old(i) = j
  <2> SUFFICES ASSUME NEW j \in 1 .. L PROVE \E i \in 1 .. L + 1 : i # k + 1 /\ old(i) = j
    OBVIOUS
  <2>1. CASE j <= k
    BY <1>3, <2>1
  <2>2. CASE j > k
    <3>1. j + 1 \in 1 .. L + 1 /\ j + 1 # k + 1 /\ old(j + 1) = j
      BY <1>3, <2>2
    <3>2. QED
      BY <3>1
  <2>3. QED
    BY <1>3, <2>1, <2>2
<1>6. \A i \in 1 .. L : prios[i].ssrc \in Ssrcs /\ prios[i].ssrc # s
  <2>1. Scheduled(prios, s) = {}
    BY DEF Schedules
  <2>2. QED
    BY <1>1, <2>1, EntryFields DEF Scheduled
<1>7. e.ssrc = s /\ e.priority = n /\ e.size = z
  OBVIOUS
<1>8. f[k + 1] = e /\ k + 1 \in 1 .. L + 1
  BY <1>2, <1>3
<1>9. Of(R, s) = P /\ P # {} /\ \A u \in Ssrcs : u # s => Of(R, u) = Of(Q, u)
  BY DEF Of, Urgency
<1>10. \A i, j \in 1 .. L + 1 : i < j /\ i # k + 1 /\ j # k + 1 => old(i) < old(j)
  BY <1>3
<1>11. /\ \A i \in 1 .. L + 1 : i < k + 1 => NotAfter(prios[old(i)], n, z)
       /\ \A i \in 1 .. L + 1 : i > k + 1 => ~NotAfter(prios[old(i)], n, z)
  <2>1. ASSUME NEW i \in 1 .. L + 1, i < k + 1 PROVE old(i) \in 1 .. L /\ old(i) <= k
    BY <1>3, <2>1
  <2>2. ASSUME NEW i \in 1 .. L + 1, i > k + 1 PROVE old(i) \in 1 .. L /\ ~(old(i) <= k)
    BY <1>3, <2>2
  <2> HIDE DEF old, f, e
  <2>3. QED
    BY <1>2, <2>1, <2>2
<1> HIDE DEF f, e, old, R
<1>12. ScheduledOnce(f)
  <2> SUFFICES ASSUME NEW i \in 1 .. L + 1, NEW j \in 1 .. L + 1, f[i].ssrc = f[j].ssrc
               PROVE  i = j
    BY <1>3 DEF ScheduledOnce
  <2>1. CASE i # k + 1 /\ j # k + 1
    <3>1. old(i) = old(j)
      BY <1>4, <2>1 DEF Schedules, ScheduledOnce
    <3>2. QED
      BY <1>3, <2>1, <3>1 DEF old
  <2>2. CASE i = k + 1 /\ j # k + 1
    BY <1>4, <1>6, <1>7, <1>8, <2>2
  <2>3. CASE i # k + 1 /\ j = k + 1
    BY <1>4, <1>6, <1>7, <1>8, <2>3
  <2>4. QED
    BY <2>1, <2>2, <2>3
<1>13. InOrder(f)
  <2> SUFFICES ASSUME NEW i \in 1 .. L + 1, NEW j \in 1 .. L + 1, i < j
               PROVE  NotAfter(f[i], f[j].priority, f[j].size)
    BY <1>3 DEF InOrder
  <2>1. CASE i # k + 1 /\ j # k + 1
    <3>1. old(i) < old(j) /\ old(i) \in 1 .. L /\ old(j) \in 1 .. L
      BY <1>4, <1>10, <2>1
    <3>2. NotAfter(prios[old(i)], prios[old(j)].priority, prios[old(j)].size)
      BY <1>1, <3>1 DEF InOrder
    <3>3. QED
      BY <1>4, <2>1, <3>2
  <2>2. CASE i # k + 1 /\ j = k + 1
    <3>1. NotAfter(prios[old(i)], n, z)
      BY <1>3, <1>11, <2>2
    <3>2. QED
      BY <1>4, <1>7, <1>8, <2>2, <3>1
  <2>3. CASE i = k + 1
    <3>1. ~NotAfter(prios[old(j)], n, z) /\ old(j) \in 1 .. L /\ f[j] = prios[old(j)]
      BY <1>3, <1>4, <1>11, <2>3
    <3>2. prios[old(j)].priority \in Nat /\ prios[old(j)].size \in Nat
      BY <1>1, <3>1, EntryFields
    <3>3. NotAfter(e, prios[old(j)].priority, prios[old(j)].size)
      BY <1>1, <1>7, <3>1, <3>2 DEF NotAfter
    <3>4. QED
      BY <1>8, <2>3, <3>1, <3>3
  <2>4. QED
    BY <2>1, <2>2, <2>3
<1>14. ASSUME NEW u \in Ssrcs PROVE Scheduled(f, u) # {} <=> Of(R, u) # {}
  <2>1. CASE u = s
    <3>1. k + 1 \in Scheduled(f, u)
      BY <1>3, <1>7, <1>8, <2>1 DEF Scheduled
    <3>2. QED
      BY <1>9, <2>1, <3>1
  <2>2. CASE u # s
    <3>1. Of(R, u) = Of(Q, u) /\ (Scheduled(prios, u) # {} <=> Of(Q, u) # {})
      BY <1>9, <2>2 DEF Schedules
    <3>2. ASSUME NEW i \in Scheduled(f, u) PROVE Scheduled(prios, u) # {}
      <4>1. i \in 1 .. L + 1 /\ f[i].ssrc = u
        BY <1>3 DEF Scheduled
      <4>2. i # k + 1
        BY <1>7, <1>8, <2>2, <4>1
      <4>3. old(i) \in Scheduled(prios, u)
        BY <1>4, <4>1, <4>2 DEF Scheduled
      <4>4. QED
        BY <4>3
    <3>3. ASSUME NEW j \in Scheduled(prios, u) PROVE Scheduled(f, u) # {}
      <4>1. j \in 1 .. L /\ prios[j].ssrc = u
        BY DEF Scheduled
      <4>2. PICK i \in 1 .. L + 1 : i # k + 1 /\ old(i) = j
        BY <1>5, <4>1
      <4>3. i \in Scheduled(f, u)
        BY <1>3, <1>4, <4>1, <4>2 DEF Scheduled
      <4>4. QED
        BY <4>3
    <3>4. QED
      BY <3>1, <3>2, <3>3
  <2>3. QED
    BY <2>1, <2>2
<1>15. ASSUME NEW i \in 1 .. L + 1
       PROVE  /\ Urgency(f[i].priority, Of(R, f[i].ssrc))
              /\ f[i].size = sizes[f[i].ssrc]
  <2>1. CASE i = k + 1
    BY <1>7, <1>8, <1>9, <2>1
  <2>2. CASE i # k + 1
    <3>1. PICK j \in 1 .. L : f[i] = prios[j]
      BY <1>4, <2>2
    <3>2. Urgency(prios[j].priority, Of(Q, prios[j].ssrc)) /\ prios[j].size = sizes[prios[j].ssrc]
      BY DEF Schedules
    <3>3. Of(R, prios[j].ssrc) = Of(Q, prios[j].ssrc)
      BY <1>6, <1>9
    <3>4. QED
      BY <3>1, <3>2, <3>3
  <2>3. QED
    BY <2>1, <2>2
<1>16. Schedules(f, R, sizes)
  BY <1>2, <1>3, <1>12, <1>13, <1>14, <1>15 DEF Schedules
<1>17. QED
  BY <1>16 DEF f, R

\* A packet pushed enters the schedule at its own urgency or a better one.
LEMMA ScheduledPacket ==
    ASSUME NEW prios, NEW Q \in SUBSET Packets, Schedules(prios, Q, stream_size),
           stream_size \in [Ssrcs -> Nat], NEW p \in Packets
    PROVE  Schedules(Schedule(prios, p), Q \cup {p}, stream_size)
<1> DEFINE s == p.ssrc
           n == Priority[p.type]
           R == {q \in Q : q.ssrc # s}
           P == Of(Q, s) \cup {p}
           others == Unscheduled(prios, s)
<1>1. s \in Ssrcs /\ n \in Nat
  BY Priorities DEF Packets
<1>2. Schedules(others, R, stream_size)
  BY <1>1, UnscheduledStream
<1>3. Of(R, s) = {} /\ R \cup P = Q \cup {p} /\ \A q \in P : q.ssrc = s
  BY DEF Of
<1>4. Schedule(prios, p) =
        IF Scheduled(prios, s) = {} \/ \E i \in Scheduled(prios, s) : n < prios[i].priority
        THEN Emplace(others, n, stream_size[s], s) ELSE prios
  BY DEF Schedule
<1>5. CASE Scheduled(prios, s) = {} \/ \E i \in Scheduled(prios, s) : n < prios[i].priority
  <2>1. Urgency(n, P)
    <3>1. CASE Scheduled(prios, s) = {}
      <4>1. Of(Q, s) = {}
        BY <1>1, <3>1 DEF Schedules
      <4>2. QED
        BY <1>1, <4>1 DEF Urgency
    <3>2. CASE \E i \in Scheduled(prios, s) : n < prios[i].priority
      <4>1. PICK i \in Scheduled(prios, s) : n < prios[i].priority
        BY <3>2
      <4>2. i \in 1 .. Len(prios) /\ prios[i].ssrc = s
        BY DEF Scheduled
      <4>3. Urgency(prios[i].priority, Of(Q, s)) /\ prios[i].priority \in Nat
        BY <4>2, EntryFields DEF Schedules
      <4>4. ASSUME NEW r \in Of(Q, s) PROVE n <= Priority[r.type]
        <5>1. Priority[r.type] \in Nat
          BY Priorities DEF Packets, Of
        <5>2. prios[i].priority <= Priority[r.type]
          BY <4>3 DEF Urgency
        <5>3. QED
          BY <1>1, <4>1, <4>3, <5>1, <5>2
      <4>5. QED
        BY <1>1, <4>4 DEF Urgency
    <3>3. QED
      BY <1>5, <3>1, <3>2
  <2> HIDE DEF others, P, R, n, s
  <2>2. Schedules(Emplace(others, n, stream_size[s], s), R \cup P, stream_size)
    BY <1>1, <1>2, <1>3, <2>1, EmplacedStream
  <2>3. QED
    BY <1>3, <1>4, <1>5, <2>2
<1>6. CASE ~(Scheduled(prios, s) = {} \/ \E i \in Scheduled(prios, s) : n < prios[i].priority)
  <2>1. Schedule(prios, p) = prios
    BY <1>4, <1>6
  <2>2. ASSUME NEW u \in Ssrcs PROVE Scheduled(prios, u) # {} <=> Of(Q \cup {p}, u) # {}
    <3>1. CASE u = s
      BY <1>6, <3>1 DEF Of
    <3>2. CASE u # s
      BY <3>2 DEF Of, Schedules
    <3>3. QED
      BY <3>1, <3>2
  <2>3. ASSUME NEW i \in 1 .. Len(prios)
        PROVE  Urgency(prios[i].priority, Of(Q \cup {p}, prios[i].ssrc))
    <3>1. Urgency(prios[i].priority, Of(Q, prios[i].ssrc)) /\ prios[i].priority \in Nat
      BY EntryFields DEF Schedules
    <3>2. CASE prios[i].ssrc = s
      <4>1. i \in Scheduled(prios, s)
        BY <3>2 DEF Scheduled
      <4>2. prios[i].priority <= n
        BY <1>1, <1>6, <3>1, <4>1
      <4>3. Of(Q \cup {p}, s) = Of(Q, s) \cup {p}
        BY DEF Of
      <4>4. QED
        BY <3>1, <3>2, <4>2, <4>3 DEF Urgency
    <3>3. CASE prios[i].ssrc # s
      <4>1. Of(Q \cup {p}, prios[i].ssrc) = Of(Q, prios[i].ssrc)
        BY <3>3 DEF Of
      <4>2. QED
        BY <3>1, <4>1
    <3>4. QED
      BY <3>2, <3>3
  <2>4. QED
    BY <2>1, <2>2, <2>3 DEF Schedules
<1>7. QED
  BY <1>5, <1>6

-----------------------------------------------------------------------------
(* The waiting packets, and the fast path.                                 *)

LEMMA SingleSet ==
    /\ single_packet_queue_ = <<>> => SinglePacket = {}
    /\ \A p : single_packet_queue_ = <<p>> => SinglePacket = {p}
<1>1. ASSUME single_packet_queue_ = <<>> PROVE SinglePacket = {}
  BY <1>1 DEF SinglePacket
<1>2. ASSUME NEW p, single_packet_queue_ = <<p>> PROVE SinglePacket = {p}
  <2>1. DOMAIN single_packet_queue_ = {1} /\ single_packet_queue_[1] = p
    BY <1>2
  <2>2. QED
    BY <2>1, Zenon DEF SinglePacket
<1>3. QED
  BY <1>1, <1>2

\* Either the fast path is empty, or it holds the only packet.
LEMMA FastPathCases ==
    ASSUME QTyped, FastPathAlone, Schedules(stream_priorities_, queue, stream_size)
    PROVE  \/ /\ single_packet_queue_ = <<>> /\ Waiters = queue /\ Promoted = queue
              /\ PromotedPriorities = stream_priorities_
           \/ \E p \in Packets :
                  /\ single_packet_queue_ = <<p>> /\ single_packet_queue_ # <<>>
                  /\ queue = {} /\ stream_priorities_ = <<>> /\ Waiters = {p}
                  /\ Promoted = {[p EXCEPT !.in_times = p.enqueue_time]}
                  /\ PromotedPriorities = Schedule(<<>>, p)
<1>1. CASE single_packet_queue_ = <<>>
  <2>1. SinglePacket = {}
    BY <1>1, SingleSet
  <2>2. Waiters = queue /\ Promoted = queue
    BY <2>1 DEF Waiters, Promoted
  <2>3. QED
    BY <1>1, <2>2 DEF PromotedPriorities
<1>2. CASE single_packet_queue_ # <<>>
  <2>1. PICK p \in Packets : single_packet_queue_ = <<p>>
    BY <1>2 DEF QTyped
  <2>2. SinglePacket = {p} /\ queue = {} /\ stream_priorities_ = <<>>
    BY <1>2, <2>1, SingleSet DEF FastPathAlone
  <2>3. Waiters = {p} /\ Promoted = {[p EXCEPT !.in_times = p.enqueue_time]}
    BY <2>2 DEF Waiters, Promoted
  <2>4. single_packet_queue_[1] = p
    BY <2>1
  <2>5. PromotedPriorities = Schedule(<<>>, p)
    BY <1>2, <2>2, <2>4 DEF PromotedPriorities
  <2>6. QED
    BY <1>2, <2>1, <2>2, <2>3, <2>5
<1>3. QED
  BY <1>1, <1>2

LEMMA WaitersTyped ==
    ASSUME QTyped, FastPathAlone, Schedules(stream_priorities_, queue, stream_size)
    PROVE  Waiters \in SUBSET Packets /\ IsFiniteSet(Waiters)
<1>1. CASE Waiters = queue
  BY <1>1 DEF QTyped
<1>2. CASE \E p \in Packets : Waiters = {p}
  BY <1>2, FS_Singleton
<1>3. QED
  BY <1>1, <1>2, FastPathCases

\* Promotion changes the element of enqueue_times_ only.
LEMMA PromotedPacket ==
    ASSUME NEW p \in Packets, NEW r, r = [p EXCEPT !.in_times = p.enqueue_time]
    PROVE  /\ r \in Packets /\ r.ssrc = p.ssrc /\ r.type = p.type /\ r.size = p.size
           /\ r.order = p.order /\ r.enqueue_time = p.enqueue_time /\ r.waited = p.waited
  BY DEF Packets

LEMMA PromotedWaiters ==
    ASSUME QInv
    PROVE  /\ Promoted \in SUBSET Packets /\ IsFiniteSet(Promoted)
           /\ Cardinality(Promoted) = size_packets_
           /\ OrdersDiffer(Promoted) /\ \A p \in Promoted : p.order < packet_counter_
           /\ Schedules(PromotedPriorities, Promoted, stream_size)
<1>1. CASE /\ single_packet_queue_ = <<>> /\ Waiters = queue /\ Promoted = queue
           /\ PromotedPriorities = stream_priorities_
  BY <1>1 DEF QInv, QTyped
<1>2. ASSUME NEW p \in Packets, Waiters = {p},
             Promoted = {[p EXCEPT !.in_times = p.enqueue_time]},
             PromotedPriorities = Schedule(<<>>, p)
      PROVE  /\ Promoted \in SUBSET Packets /\ IsFiniteSet(Promoted)
             /\ Cardinality(Promoted) = size_packets_
             /\ OrdersDiffer(Promoted) /\ \A q \in Promoted : q.order < packet_counter_
             /\ Schedules(PromotedPriorities, Promoted, stream_size)
  <2>1. PICK r : r = [p EXCEPT !.in_times = p.enqueue_time]
    OBVIOUS
  <2>2. r \in Packets /\ r.ssrc = p.ssrc /\ r.type = p.type /\ r.order = p.order
    BY <2>1, PromotedPacket
  <2>3. Promoted = {r}
    BY <1>2, <2>1
  <2>4. IsFiniteSet({r}) /\ Cardinality({r}) = 1 /\ Cardinality({p}) = 1
    BY FS_Singleton
  <2>5. size_packets_ = 1 /\ p.order < packet_counter_
    BY <1>2, <2>4 DEF QInv
  <2>6. Schedules(Schedule(<<>>, p), {p}, stream_size)
    <3>1. Schedules(<<>>, {}, stream_size) /\ stream_size \in [Ssrcs -> Nat]
      BY NothingScheduled DEF QInv, QTyped
    <3>2. {} \cup {p} = {p} /\ {} \in SUBSET Packets
      OBVIOUS
    <3>3. Schedules(Schedule(<<>>, p), {} \cup {p}, stream_size)
      BY <3>1, <3>2, ScheduledPacket
    <3>4. QED
      BY <3>2, <3>3
  <2>7. Schedules(Schedule(<<>>, p), {r}, stream_size)
    BY <2>2, <2>6, SameKinds
  <2>8. OrdersDiffer({r})
    BY DEF OrdersDiffer
  <2>9. QED
    BY <1>2, <2>2, <2>3, <2>4, <2>5, <2>7, <2>8
<1>3. QED
  BY <1>1, <1>2, FastPathCases DEF QInv

LEMMA MaxOfTwo ==
    ASSUME NEW a \in Int, NEW b \in Int
    PROVE  Max({a, b}) \in {a, b} /\ Max({a, b}) >= a /\ Max({a, b}) >= b
<1>1. \E x \in {a, b} : \A y \in {a, b} : x >= y
  OBVIOUS
<1>2. Max({a, b}) \in {a, b} /\ \A y \in {a, b} : Max({a, b}) >= y
  BY <1>1, Zenon DEF Max
<1>3. QED
  BY <1>2

LEMMA PacketSizes ==
    ASSUME QTyped, NEW p, p.size \in Sizes
    PROVE  PacketSize(p) \in Nat
<1>1. /\ p.size \in Nat /\ HeadersSize \in Nat /\ transport_overhead_per_packet_ \in Nat
      /\ include_overhead_ \in BOOLEAN
  BY QueueAssumption DEF QTyped
<1>2. QED
  BY <1>1 DEF PacketSize

LEMMA TimesTyped ==
    ASSUME QTyped
    PROVE  PauseTimeAt(now) \in Int /\ QueueTimeAt(now) \in Int
<1>1. /\ now \in Int /\ time_last_updated_ \in Int /\ size_packets_ \in Int
      /\ queue_time_sum_ \in Int /\ pause_time_sum_ \in Int /\ paused_ \in BOOLEAN
  BY DEF QTyped
<1>2. (now - time_last_updated_) * size_packets_ \in Int
  BY <1>1
<1>3. QED
  BY <1>1, <1>2 DEF PauseTimeAt, QueueTimeAt

LEMMA NewPacketTyped ==
    ASSUME QTyped, NEW ssrc \in Ssrcs, NEW type \in Types, NEW size \in Sizes,
           NEW t \in Int, NEW p,
           p = QueuedPacket(ssrc, type, size, packet_counter_, now - PauseTimeAt(now), t)
    PROVE  /\ p \in Packets /\ p.ssrc = ssrc /\ p.type = type /\ p.size = size
           /\ p.order = packet_counter_ /\ p.waited = 0
           /\ p.enqueue_time = now - PauseTimeAt(now)
<1>1. now - PauseTimeAt(now) \in Int /\ packet_counter_ \in Nat
  BY TimesTyped DEF QTyped
<1>2. QED
  BY <1>1 DEF QueuedPacket, Packets

-----------------------------------------------------------------------------
(* The steps keep the invariant.                                           *)

\* What follows from the next values of the variables that hold packets.
LEMMA NextWaiters ==
    /\ single_packet_queue_' = <<>> => Waiters' = queue'
    /\ \A p : single_packet_queue_' = <<p>> => Waiters' = queue' \cup {p}
<1>1. ASSUME single_packet_queue_' = <<>> PROVE Waiters' = queue'
  BY <1>1 DEF SinglePacket, Waiters
<1>2. ASSUME NEW p, single_packet_queue_' = <<p>> PROVE Waiters' = queue' \cup {p}
  <2>1. DOMAIN single_packet_queue_' = {1} /\ single_packet_queue_'[1] = p
    BY <1>2
  <2>2. SinglePacket' = {p}
    BY <2>1, Zenon DEF SinglePacket
  <2>3. QED
    BY <2>2 DEF Waiters
<1>3. QED
  BY <1>1, <1>2

LEMMA TimesUpdatedTyped ==
    ASSUME QTyped, TimesUpdated, now' = now
    PROVE  queue_time_sum_' \in Int /\ pause_time_sum_' \in Int /\ time_last_updated_' \in 0 .. now'
<1>1. now \in Nat
  BY DEF QTyped
<1>2. QED
  BY <1>1, TimesTyped DEF TimesUpdated

\* A packet with a new order.
LEMMA OneMore ==
    ASSUME NEW W \in SUBSET Packets, IsFiniteSet(W), OrdersDiffer(W), NEW c \in Nat,
           \A p \in W : p.order < c, NEW q \in Packets, q.order = c
    PROVE  /\ q \notin W /\ W \cup {q} \in SUBSET Packets /\ IsFiniteSet(W \cup {q})
           /\ Cardinality(W \cup {q}) = Cardinality(W) + 1
           /\ OrdersDiffer(W \cup {q}) /\ \A p \in W \cup {q} : p.order < c + 1
<1>1. \A p \in W : p.order \in Nat /\ p.order < c
  BY DEF Packets
<1>2. q \notin W
  BY <1>1
<1>3. IsFiniteSet(W \cup {q}) /\ Cardinality(W \cup {q}) = Cardinality(W) + 1
  BY <1>2, FS_AddElement
<1>4. \A p \in W : p.order # q.order
  BY <1>1
<1>5. OrdersDiffer(W \cup {q})
  BY <1>4 DEF OrdersDiffer
<1>6. \A p \in W \cup {q} : p.order < c + 1
  BY <1>1
<1>7. QED
  BY <1>2, <1>3, <1>5, <1>6

LEMMA PushSingleKeeps ==
    ASSUME QInv, NEW ssrc \in Ssrcs, NEW type \in Types, NEW size \in Sizes,
           Push(ssrc, type, size), size_packets_ = 0
    PROVE  QInv'
<1>1. PICK p : p = QueuedPacket(ssrc, type, size, packet_counter_, now - PauseTimeAt(now), -1)
  OBVIOUS
<1>2. QTyped /\ p \in Packets /\ p.order = packet_counter_ /\ p.size \in Sizes
  BY <1>1, NewPacketTyped DEF QInv
<1>3. /\ single_packet_queue_' = <<p>> /\ size_packets_' = 1
      /\ size_' = size_ + PacketSize(p)
      /\ queue' = queue /\ stream_priorities_' = stream_priorities_
      /\ packet_counter_' = packet_counter_ + 1 /\ TimesUpdated /\ now' = now
      /\ stream_size' = stream_size /\ max_size_' = max_size_ /\ paused_' = paused_
      /\ include_overhead_' = include_overhead_
      /\ transport_overhead_per_packet_' = transport_overhead_per_packet_
  BY <1>1 DEF Push, PushSingle, overhead
<1>4. Waiters = {}
  <2>1. IsFiniteSet(Waiters) /\ Cardinality(Waiters) = 0
    BY WaitersTyped DEF QInv
  <2>2. QED
    BY <2>1, FS_EmptySet
<1>5. single_packet_queue_ = <<>> /\ queue = {}
  BY <1>4, FastPathCases DEF QInv
<1>6. Waiters' = {p}
  BY <1>3, <1>5, NextWaiters
<1>7. stream_priorities_ = <<>>
  <2>1. stream_priorities_ \in Seq(Entries)
    BY DEF QInv, Schedules
  <2>2. ASSUME NEW i \in 1 .. Len(stream_priorities_) PROVE FALSE
    <3>1. stream_priorities_[i].ssrc \in Ssrcs
      BY <2>1, EntryFields
    <3>2. Scheduled(stream_priorities_, stream_priorities_[i].ssrc) # {}
      BY DEF Scheduled
    <3>3. Of(queue, stream_priorities_[i].ssrc) # {}
      BY <3>1, <3>2 DEF QInv, Schedules
    <3>4. QED
      BY <1>5, <3>3 DEF Of
  <2>3. Len(stream_priorities_) = 0
    BY <2>1, <2>2
  <2>4. QED
    BY <2>1, <2>3
<1>8. QTyped'
  <2>1. PacketSize(p) \in Nat
    BY <1>2, PacketSizes
  <2>2. queue_time_sum_' \in Int /\ pause_time_sum_' \in Int /\ time_last_updated_' \in 0 .. now'
    BY <1>2, <1>3, TimesUpdatedTyped
  <2>3. \E q \in Packets : single_packet_queue_' = <<q>>
    BY <1>2, <1>3
  <2>4. size_' \in Int /\ packet_counter_' \in Nat /\ size_packets_' \in Nat
    BY <1>2, <1>3, <2>1 DEF QTyped
  <2>5. QED
    BY <1>2, <1>3, <2>2, <2>3, <2>4 DEF QTyped
<1>9. OrdersDiffer(Waiters') /\ \A q \in Waiters' : q.order < packet_counter_'
  <2>1. packet_counter_ \in Nat
    BY <1>2 DEF QTyped
  <2>2. QED
    BY <1>2, <1>3, <1>6, <2>1 DEF OrdersDiffer
<1>10. FastPathAlone'
  BY <1>3, <1>5, <1>7 DEF FastPathAlone
<1>11. Schedules(stream_priorities_, queue, stream_size)'
  BY <1>3 DEF QInv
<1>12. size_packets_' = Cardinality(Waiters')
  BY <1>3, <1>6, FS_Singleton
<1>13. QED
  BY <1>8, <1>9, <1>10, <1>11, <1>12 DEF QInv

LEMMA PushNormalKeeps ==
    ASSUME QInv, NEW ssrc \in Ssrcs, NEW type \in Types, NEW size \in Sizes,
           Push(ssrc, type, size), size_packets_ # 0
    PROVE  QInv'
<1>1. PICK p : p = QueuedPacket(ssrc, type, size, packet_counter_, now - PauseTimeAt(now), now)
  OBVIOUS
<1>2. QTyped /\ p \in Packets /\ p.order = packet_counter_ /\ p.size \in Sizes
  <2>1. QTyped /\ now \in Int
    BY DEF QInv, QTyped
  <2>2. QED
    BY <1>1, <2>1, NewPacketTyped
<1>3. /\ single_packet_queue_' = <<>> /\ size_packets_' = size_packets_ + 1
      /\ size_' = size_ + PacketSize(p)
      /\ queue' = Promoted \cup {p}
      /\ stream_priorities_' = Schedule(PromotedPriorities, p)
      /\ packet_counter_' = packet_counter_ + 1 /\ TimesUpdated /\ now' = now
      /\ stream_size' = stream_size /\ max_size_' = max_size_ /\ paused_' = paused_
      /\ include_overhead_' = include_overhead_
      /\ transport_overhead_per_packet_' = transport_overhead_per_packet_
  BY <1>1 DEF Push, PushNormal, overhead
<1>4. /\ Promoted \in SUBSET Packets /\ IsFiniteSet(Promoted)
      /\ Cardinality(Promoted) = size_packets_
      /\ OrdersDiffer(Promoted) /\ \A q \in Promoted : q.order < packet_counter_
      /\ Schedules(PromotedPriorities, Promoted, stream_size)
  BY PromotedWaiters
<1>5. packet_counter_ \in Nat /\ size_packets_ \in Nat /\ size_ \in Int
      /\ stream_size \in [Ssrcs -> Nat]
  BY <1>2 DEF QTyped
<1>6. /\ queue' \in SUBSET Packets /\ IsFiniteSet(queue')
      /\ Cardinality(queue') = size_packets_ + 1
      /\ OrdersDiffer(queue') /\ \A q \in queue' : q.order < packet_counter_ + 1
  <2> HIDE DEF Promoted
  <2>1. /\ Promoted \cup {p} \in SUBSET Packets /\ IsFiniteSet(Promoted \cup {p})
        /\ Cardinality(Promoted \cup {p}) = Cardinality(Promoted) + 1
        /\ OrdersDiffer(Promoted \cup {p}) /\ \A q \in Promoted \cup {p} : q.order < packet_counter_ + 1
    BY <1>2, <1>4, <1>5, OneMore
  <2>2. QED
    BY <1>3, <1>4, <2>1
<1>7. Waiters' = queue'
  BY <1>3, NextWaiters
<1>8. QTyped'
  <2>1. PacketSize(p) \in Nat
    BY <1>2, PacketSizes
  <2>2. queue_time_sum_' \in Int /\ pause_time_sum_' \in Int /\ time_last_updated_' \in 0 .. now'
    BY <1>2, <1>3, TimesUpdatedTyped
  <2>3. size_' \in Int /\ packet_counter_' \in Nat /\ size_packets_' \in Nat
    BY <1>3, <1>5, <2>1
  <2>4. QED
    BY <1>2, <1>3, <1>6, <2>2, <2>3 DEF QTyped
<1>9. FastPathAlone'
  BY <1>3 DEF FastPathAlone
<1>10. Schedules(stream_priorities_, queue, stream_size)'
  <2>1. Schedules(Schedule(PromotedPriorities, p), Promoted \cup {p}, stream_size)
    BY <1>2, <1>4, <1>5, ScheduledPacket
  <2>2. QED
    BY <1>3, <2>1
<1>11. QED
  BY <1>3, <1>6, <1>7, <1>8, <1>9, <1>10 DEF QInv

LEMMA PopSingleKeeps ==
    ASSUME QInv, Pop, single_packet_queue_ # <<>>
    PROVE  QInv'
<1>1. /\ single_packet_queue_' = <<>> /\ queue_time_sum_' = 0 /\ size_packets_' = 0
      /\ size_' = 0 /\ queue' = queue /\ stream_size' = stream_size
      /\ stream_priorities_' = stream_priorities_ /\ max_size_' = max_size_
      /\ now' = now /\ packet_counter_' = packet_counter_
      /\ pause_time_sum_' = pause_time_sum_ /\ time_last_updated_' = time_last_updated_
      /\ paused_' = paused_ /\ include_overhead_' = include_overhead_
      /\ transport_overhead_per_packet_' = transport_overhead_per_packet_
  BY DEF Pop, PopSingle, overhead
<1>2. queue = {}
  BY DEF QInv, FastPathAlone
<1>3. Waiters' = {}
  BY <1>1, <1>2, NextWaiters
<1>4. QTyped'
  BY <1>1 DEF QInv, QTyped
<1>5. Schedules(stream_priorities_, queue, stream_size)'
  BY <1>1 DEF QInv
<1>6. size_packets_' = Cardinality(Waiters')
  BY <1>1, <1>3, FS_EmptySet
<1>7. OrdersDiffer(Waiters') /\ \A p \in Waiters' : p.order < packet_counter_'
  BY <1>3 DEF OrdersDiffer
<1>8. FastPathAlone'
  BY <1>1 DEF FastPathAlone
<1>9. QED
  BY <1>4, <1>5, <1>6, <1>7, <1>8 DEF QInv

\* The stream that Pop serves is scheduled, and its next packet is in its queue.
LEMMA PopServes ==
    ASSUME QInv, size_packets_ > 0, single_packet_queue_ = <<>>,
           NEW s, s = stream_priorities_[1].ssrc, NEW p, p = Top(Of(queue, s))
    PROVE  /\ s \in Ssrcs /\ p \in queue /\ p \in Packets /\ p.ssrc = s
           /\ Waiters = queue /\ IsFiniteSet(queue)
           /\ \A q \in Of(queue, s) \ {p} : Before(p, q)
<1>1. Waiters = queue /\ queue \in SUBSET Packets /\ IsFiniteSet(queue)
  BY FastPathCases DEF QInv, QTyped
<1>2. queue # {}
  BY <1>1, FS_EmptySet DEF QInv
<1>3. PICK q \in queue : TRUE
  BY <1>2
<1>4. stream_priorities_ \in Seq(Entries) /\ 1 \in 1 .. Len(stream_priorities_)
  <2>1. q.ssrc \in Ssrcs /\ Of(queue, q.ssrc) # {}
    BY <1>1, <1>3 DEF Of, Packets
  <2>2. Scheduled(stream_priorities_, q.ssrc) # {} /\ stream_priorities_ \in Seq(Entries)
    BY <2>1 DEF QInv, Schedules
  <2>3. QED
    BY <2>2 DEF Scheduled
<1>5. s \in Ssrcs
  BY <1>4, EntryFields
<1>6. Of(queue, s) # {}
  <2>1. Scheduled(stream_priorities_, s) # {}
    BY <1>4 DEF Scheduled
  <2>2. QED
    BY <1>5, <2>1 DEF QInv, Schedules
<1>7. Of(queue, s) \in SUBSET Packets /\ OrdersDiffer(Of(queue, s))
  BY <1>1 DEF Of, OrdersDiffer, QInv
<1>8. p \in Of(queue, s) /\ \A r \in Of(queue, s) \ {p} : Before(p, r)
  BY <1>6, <1>7, TopIsFirst
<1>9. QED
  BY <1>1, <1>5, <1>8 DEF Of

LEMMA PopNormalKeeps ==
    ASSUME QInv, Pop, single_packet_queue_ = <<>>
    PROVE  QInv'
<1> DEFINE s == stream_priorities_[1].ssrc
           p == Top(Of(queue, s))
           left == Of(queue, s) \ {p}
           sent == SentSize(s, PacketSize(p))
           others == Unscheduled(stream_priorities_, s)
           rest == {q \in queue : q.ssrc # s}
<1>1. /\ queue' = queue \ {p}
      /\ queue_time_sum_' = queue_time_sum_ - (time_last_updated_ - p.enqueue_time - pause_time_sum_)
      /\ stream_size' = [stream_size EXCEPT ![s] = sent]
      /\ max_size_' = Max({max_size_, sent})
      /\ size_' = size_ - PacketSize(p) /\ size_packets_' = size_packets_ - 1
      /\ stream_priorities_' = IF left = {} THEN others
                               ELSE Emplace(others, Priority[Top(left).type], sent, s)
      /\ single_packet_queue_' = single_packet_queue_
      /\ now' = now /\ packet_counter_' = packet_counter_
      /\ pause_time_sum_' = pause_time_sum_ /\ time_last_updated_' = time_last_updated_
      /\ paused_' = paused_ /\ include_overhead_' = include_overhead_
      /\ transport_overhead_per_packet_' = transport_overhead_per_packet_
      /\ size_packets_ > 0
  BY DEF Pop, PopNormal, overhead
<1>2. /\ s \in Ssrcs /\ p \in queue /\ p \in Packets /\ p.ssrc = s
      /\ Waiters = queue /\ IsFiniteSet(queue)
  BY <1>1, PopServes
<1>3. QTyped /\ queue \in SUBSET Packets /\ stream_size \in [Ssrcs -> Nat]
      /\ Schedules(stream_priorities_, queue, stream_size)
  BY DEF QInv, QTyped
<1>4. sent \in Nat
  <2>1. PacketSize(p) \in Nat
    BY <1>2, <1>3, PacketSizes DEF Packets
  <2>2. stream_size[s] + PacketSize(p) \in Nat /\ max_size_ - kMaxLeadingSize \in Int
    BY <1>2, <1>3, <2>1, QueueAssumption DEF QTyped
  <2>3. PICK a, b : a = stream_size[s] + PacketSize(p) /\ b = max_size_ - kMaxLeadingSize
    OBVIOUS
  <2>4. sent = Max({a, b})
    BY <2>3 DEF SentSize
  <2>5. a \in Nat /\ a \in Int /\ b \in Int
    BY <2>2, <2>3
  <2> HIDE DEF s, p, sent
  <2>6. Max({a, b}) \in {a, b} /\ Max({a, b}) >= a
    BY <2>5, MaxOfTwo, Zenon
  <2>7. QED
    BY <2>4, <2>5, <2>6
<1>5. /\ left \in SUBSET Packets /\ OrdersDiffer(left) /\ \A q \in left : q.ssrc = s
      /\ (queue \ {p}) = rest \cup left /\ Of(rest, s) = {}
  <2> HIDE DEF s, p
  <2>1. left \in SUBSET Packets /\ left \subseteq queue
    BY <1>3 DEF Of
  <2>2. OrdersDiffer(left)
    BY <1>2, <2>1 DEF OrdersDiffer, QInv
  <2>3. /\ \A q \in left : q.ssrc = s
        /\ (queue \ {p}) = rest \cup left /\ Of(rest, s) = {}
    BY <1>2, <1>3 DEF Of
  <2>4. QED
    BY <2>1, <2>2, <2>3
<1> HIDE DEF s, p, left, sent, others, rest
<1>6. stream_size' \in [Ssrcs -> Nat] /\ stream_size'[s] = sent
      /\ \A u \in Ssrcs \ {s} : stream_size'[u] = stream_size[u]
  BY <1>1, <1>2, <1>3, <1>4
<1>7. Schedules(others, rest, stream_size')
  BY <1>2, <1>3, <1>6, UnscheduledStream DEF others, rest
<1>8. Schedules(stream_priorities_', queue', stream_size')
  <2>1. CASE left = {}
    <3>1. queue' = rest /\ stream_priorities_' = others
      BY <1>1, <1>5, <2>1
    <3>2. QED
      BY <1>7, <3>1
  <2>2. CASE left # {}
    <3>1. PICK n : n = Priority[Top(left).type]
      OBVIOUS
    <3>2. Urgency(n, left)
      BY <1>5, <2>2, <3>1, TopIsMostUrgent
    <3>3. n \in Nat
      BY <1>5, <3>2, Priorities DEF Urgency, Packets
    <3>4. stream_priorities_' = Emplace(others, n, stream_size'[s], s) /\ queue' = rest \cup left
      BY <1>1, <1>5, <1>6, <2>2, <3>1
    <3>5. Schedules(Emplace(others, n, stream_size'[s], s), rest \cup left, stream_size')
      BY <1>2, <1>5, <1>6, <1>7, <3>2, <3>3, EmplacedStream
    <3>6. QED
      BY <3>4, <3>5
  <2>3. QED
    BY <2>1, <2>2
<1>9. /\ IsFiniteSet(queue') /\ Cardinality(queue') = Cardinality(queue) - 1
  BY <1>1, <1>2, FS_RemoveElement
<1>10. QTyped'
  <2>1. p.size \in Sizes /\ p.enqueue_time \in Int
    BY <1>2 DEF Packets
  <2>2. /\ size_ \in Int /\ queue_time_sum_ \in Int /\ pause_time_sum_ \in Int
        /\ time_last_updated_ \in 0 .. now /\ size_packets_ \in Nat /\ max_size_ \in Nat
        /\ now \in Nat
    BY <1>3 DEF QTyped
  <2>3. max_size_' \in Nat
    <3>1. max_size_ \in Int /\ sent \in Int
      BY <1>4, <2>2
    <3>2. Max({max_size_, sent}) \in {max_size_, sent}
      BY <3>1, MaxOfTwo, Zenon
    <3>3. QED
      BY <1>1, <1>4, <2>2, <3>2
  <2>4. size_' \in Int /\ queue_time_sum_' \in Int /\ size_packets_' \in Nat
    <3>1. PacketSize(p) \in Nat
      BY <1>3, <2>1, PacketSizes
    <3>2. QED
      BY <1>1, <2>1, <2>2, <3>1
  <2>5. queue' \in SUBSET Packets
    BY <1>1, <1>3
  <2>6. single_packet_queue_' = <<>>
    BY <1>1
  <2>7. QED
    BY <1>1, <1>3, <1>6, <1>9, <2>3, <2>4, <2>5, <2>6 DEF QTyped
<1>11. Waiters' = queue'
  BY <1>1, NextWaiters
<1>12. OrdersDiffer(Waiters') /\ \A q \in Waiters' : q.order < packet_counter_'
  BY <1>1, <1>2, <1>11 DEF QInv, OrdersDiffer
<1>13. FastPathAlone'
  BY <1>1 DEF FastPathAlone
<1>14. size_packets_' = Cardinality(Waiters')
  BY <1>1, <1>2, <1>9, <1>11 DEF QInv
<1>15. QED
  BY <1>8, <1>10, <1>12, <1>13, <1>14 DEF QInv

\* SetIncludeOverhead and SetTransportOverhead promote the single packet.
LEMMA PromoteKeeps ==
    ASSUME QInv, Promote, size_' \in Int, include_overhead_' \in BOOLEAN,
           transport_overhead_per_packet_' \in Nat,
           UNCHANGED <<now, packet_counter_, size_packets_, stream_size, max_size_, times, paused_>>
    PROVE  QInv'
<1>1. /\ queue' = Promoted /\ single_packet_queue_' = <<>>
      /\ stream_priorities_' = PromotedPriorities
      /\ now' = now /\ packet_counter_' = packet_counter_ /\ size_packets_' = size_packets_
      /\ stream_size' = stream_size /\ max_size_' = max_size_ /\ paused_' = paused_
      /\ queue_time_sum_' = queue_time_sum_ /\ pause_time_sum_' = pause_time_sum_
      /\ time_last_updated_' = time_last_updated_
  BY DEF Promote, times
<1>2. /\ Promoted \in SUBSET Packets /\ IsFiniteSet(Promoted)
      /\ Cardinality(Promoted) = size_packets_
      /\ OrdersDiffer(Promoted) /\ \A q \in Promoted : q.order < packet_counter_
      /\ Schedules(PromotedPriorities, Promoted, stream_size)
  BY PromotedWaiters
<1>3. Waiters' = queue'
  BY <1>1, NextWaiters
<1>4. QTyped'
  BY <1>1, <1>2 DEF QInv, QTyped
<1>5. FastPathAlone'
  BY <1>1 DEF FastPathAlone
<1>6. Schedules(stream_priorities_, queue, stream_size)'
  BY <1>1, <1>2
<1>7. QED
  BY <1>1, <1>2, <1>3, <1>4, <1>5, <1>6 DEF QInv

\* A tick changes how long a packet has waited only.
LEMMA WaitingPacket ==
    ASSUME NEW p \in Packets, paused_ \in BOOLEAN
    PROVE  /\ Waiting(p) \in Packets /\ Waiting(p).ssrc = p.ssrc
           /\ Waiting(p).type = p.type /\ Waiting(p).size = p.size
           /\ Waiting(p).order = p.order /\ Waiting(p).enqueue_time = p.enqueue_time
           /\ Waiting(p).waited = p.waited + (IF paused_ THEN 0 ELSE 1)
<1>1. p.waited \in Nat
  BY DEF Packets
<1>2. CASE paused_ = TRUE
  BY <1>1, <1>2 DEF Waiting, Packets
<1>3. CASE paused_ = FALSE
  BY <1>1, <1>3 DEF Waiting, Packets
<1>4. QED
  BY <1>2, <1>3

Ticked(W) == {Waiting(p) : p \in W}

\* A tick keeps the packets apart.
LEMMA WaitingSet ==
    ASSUME NEW W \in SUBSET Packets, IsFiniteSet(W), OrdersDiffer(W), paused_ \in BOOLEAN,
           NEW V, V = Ticked(W)
    PROVE  /\ V \in SUBSET Packets /\ IsFiniteSet(V) /\ Cardinality(V) = Cardinality(W)
           /\ OrdersDiffer(V)
           /\ \A p \in W : \E r \in V : r.ssrc = p.ssrc /\ r.type = p.type /\ r.order = p.order
           /\ \A r \in V : \E p \in W : p.ssrc = r.ssrc /\ p.type = r.type /\ p.order = r.order
<1> DEFINE f == [p \in W |-> Waiting(p)]
           w == [p \in W |-> 0]
           v == [p \in V |-> 0]
<1>1. \A p \in W : f[p] = Waiting(p) /\ f[p] \in V /\ w[p] = 0 /\ v[f[p]] = 0
  BY DEF Ticked
<1>2. V = ImageOf(f, W)
  BY DEF ImageOf, Ticked
<1>3. \A p \in W : /\ Waiting(p) \in Packets /\ Waiting(p).ssrc = p.ssrc
                   /\ Waiting(p).type = p.type /\ Waiting(p).order = p.order
  BY WaitingPacket
<1> HIDE DEF f, w, v
<1>4. InjectiveOn(f, W)
  BY <1>1, <1>3 DEF OrdersDiffer, InjectiveOn
<1>5. IntegersOn(w, W) /\ ShiftedBy(v, f, w, 0, W)
  BY <1>1 DEF IntegersOn, ShiftedBy
<1>6. IsFiniteSet(V) /\ Cardinality(V) = Cardinality(W)
  BY <1>2, <1>4, <1>5, SumImage
<1>7. \A r \in V : \E p \in W : r = Waiting(p)
  BY DEF Ticked
<1>8. OrdersDiffer(V)
  BY <1>3, <1>7 DEF OrdersDiffer
<1>9. \A p \in W : Waiting(p) \in V
  BY DEF Ticked
<1>10. QED
  BY <1>3, <1>6, <1>7, <1>8, <1>9

LEMMA TickWaiters ==
    ASSUME QInv, Tick
    PROVE  /\ Waiters' = Ticked(Waiters)
           /\ single_packet_queue_' = <<>> <=> single_packet_queue_ = <<>>
           /\ single_packet_queue_' = <<>>
              \/ \E p \in Packets : single_packet_queue_' = <<p>> /\ queue' = {}
<1>1. /\ queue' = Ticked(queue)
      /\ single_packet_queue_' = [i \in DOMAIN single_packet_queue_ |->
                                     Waiting(single_packet_queue_[i])]
  BY DEF Tick, Ticked
<1>2. CASE single_packet_queue_ = <<>> /\ Waiters = queue
  <2>1. single_packet_queue_' = <<>>
    BY <1>1, <1>2
  <2>2. QED
    BY <1>1, <1>2, <2>1, NextWaiters
<1>3. ASSUME NEW p \in Packets, single_packet_queue_ = <<p>>, single_packet_queue_ # <<>>,
             queue = {}, Waiters = {p}
      PROVE  /\ Waiters' = Ticked(Waiters)
             /\ single_packet_queue_' # <<>>
             /\ \E q \in Packets : single_packet_queue_' = <<q>> /\ queue' = {}
  <2>1. PICK r : r = Waiting(p)
    OBVIOUS
  <2>2. r \in Packets
    BY <2>1, WaitingPacket DEF QInv, QTyped
  <2>3. single_packet_queue_' = <<r>>
    BY <1>1, <1>3, <2>1
  <2>4. queue' = {}
    BY <1>1, <1>3 DEF Ticked
  <2>5. Waiters' = {r}
    BY <2>3, <2>4, NextWaiters
  <2>6. single_packet_queue_' # <<>>
    BY <2>3
  <2>7. QED
    BY <1>3, <2>1, <2>2, <2>3, <2>4, <2>5, <2>6 DEF Ticked
<1>4. QED
  BY <1>2, <1>3, FastPathCases DEF QInv

LEMMA TickKeeps ==
    ASSUME QInv, Tick
    PROVE  QInv'
<1>1. /\ now' = now + 1 /\ queue' = Ticked(queue)
      /\ packet_counter_' = packet_counter_ /\ size_packets_' = size_packets_
      /\ stream_size' = stream_size /\ stream_priorities_' = stream_priorities_
      /\ max_size_' = max_size_ /\ size_' = size_ /\ paused_' = paused_
      /\ queue_time_sum_' = queue_time_sum_ /\ pause_time_sum_' = pause_time_sum_
      /\ time_last_updated_' = time_last_updated_
      /\ include_overhead_' = include_overhead_
      /\ transport_overhead_per_packet_' = transport_overhead_per_packet_
  BY DEF Tick, Ticked, schedule, times, overhead
<1>2. /\ Waiters' = Ticked(Waiters)
      /\ single_packet_queue_' = <<>> <=> single_packet_queue_ = <<>>
      /\ single_packet_queue_' = <<>>
         \/ \E p \in Packets : single_packet_queue_' = <<p>> /\ queue' = {}
  BY TickWaiters
<1>3. /\ Waiters \in SUBSET Packets /\ IsFiniteSet(Waiters) /\ OrdersDiffer(Waiters)
      /\ queue \in SUBSET Packets /\ IsFiniteSet(queue) /\ paused_ \in BOOLEAN
      /\ OrdersDiffer(queue)
  BY WaitersTyped DEF QInv, QTyped, OrdersDiffer, Waiters
<1>4. /\ Cardinality(Waiters') = Cardinality(Waiters) /\ OrdersDiffer(Waiters')
      /\ \A r \in Waiters' : \E p \in Waiters : p.order = r.order
  BY <1>2, <1>3, WaitingSet
<1>5. /\ queue' \in SUBSET Packets /\ IsFiniteSet(queue')
      /\ \A p \in queue : \E r \in queue' : r.ssrc = p.ssrc /\ r.type = p.type
      /\ \A r \in queue' : \E p \in queue : p.ssrc = r.ssrc /\ p.type = r.type
  BY <1>1, <1>3, WaitingSet
<1>6. QTyped'
  <2>1. now \in Nat /\ now' \in Nat /\ time_last_updated_' \in 0 .. now'
    BY <1>1 DEF QInv, QTyped
  <2>2. QED
    BY <1>1, <1>2, <1>5, <2>1 DEF QInv, QTyped
<1>7. Schedules(stream_priorities_, queue, stream_size)'
  <2>1. Schedules(stream_priorities_, queue, stream_size)
    BY DEF QInv
  <2>2. Schedules(stream_priorities_, queue', stream_size)
    BY <1>5, <2>1, SameKinds
  <2>3. QED
    BY <1>1, <2>2
<1>8. FastPathAlone'
  BY <1>1, <1>2 DEF QInv, FastPathAlone
<1>9. \A r \in Waiters' : r.order < packet_counter_'
  BY <1>1, <1>4 DEF QInv
<1>10. size_packets_' = Cardinality(Waiters')
  BY <1>1, <1>4 DEF QInv
<1>11. QED
  BY <1>4, <1>6, <1>7, <1>8, <1>9, <1>10 DEF QInv

LEMMA TimeStepsKeep ==
    ASSUME QInv, UpdateQueueTime \/ \E paused \in BOOLEAN : SetPauseState(paused)
    PROVE  QInv'
<1>1. /\ now' = now /\ packet_counter_' = packet_counter_ /\ size_' = size_
      /\ single_packet_queue_' = single_packet_queue_ /\ queue' = queue
      /\ size_packets_' = size_packets_ /\ stream_size' = stream_size
      /\ stream_priorities_' = stream_priorities_ /\ max_size_' = max_size_
      /\ include_overhead_' = include_overhead_
      /\ transport_overhead_per_packet_' = transport_overhead_per_packet_
      /\ paused_' \in BOOLEAN
  BY DEF UpdateQueueTime, SetPauseState, contents, schedule, overhead, QInv, QTyped
<1>2. TimesUpdated \/ UNCHANGED times
  BY DEF UpdateQueueTime, SetPauseState
<1>3. queue_time_sum_' \in Int /\ pause_time_sum_' \in Int /\ time_last_updated_' \in 0 .. now'
  <2>1. CASE TimesUpdated
    BY <1>1, <2>1, TimesUpdatedTyped DEF QInv
  <2>2. CASE UNCHANGED times
    BY <1>1, <2>2 DEF times, QInv, QTyped
  <2>3. QED
    BY <1>2, <2>1, <2>2
<1>4. QTyped'
  BY <1>1, <1>3 DEF QInv, QTyped
<1>5. Waiters' = Waiters
  BY <1>1 DEF Waiters, SinglePacket
<1>6. FastPathAlone' /\ Schedules(stream_priorities_, queue, stream_size)'
  BY <1>1 DEF QInv, FastPathAlone
<1>7. QED
  BY <1>1, <1>4, <1>5, <1>6 DEF QInv

LEMMA InitHolds ==
    ASSUME Init
    PROVE  QInv
<1>1. single_packet_queue_ = <<>> /\ queue = {} /\ stream_priorities_ = <<>>
  BY DEF Init
<1>2. Waiters = {}
  BY <1>1, SingleSet DEF Waiters
<1>3. IsFiniteSet({}) /\ Cardinality({}) = 0
  BY FS_EmptySet
<1>4. QTyped
  <2>1. queue \in SUBSET Packets /\ IsFiniteSet(queue)
    BY <1>1, <1>3
  <2>2. stream_size \in [Ssrcs -> Nat] /\ max_size_ \in Nat
    BY QueueAssumption DEF Init
  <2>3. /\ now \in Nat /\ packet_counter_ \in Nat /\ size_packets_ \in Nat /\ size_ \in Int
        /\ queue_time_sum_ \in Int /\ pause_time_sum_ \in Int
        /\ time_last_updated_ \in 0 .. now /\ transport_overhead_per_packet_ \in Nat
    BY DEF Init
  <2>4. paused_ \in BOOLEAN /\ include_overhead_ \in BOOLEAN
    BY DEF Init
  <2>5. QED
    BY <1>1, <2>1, <2>2, <2>3, <2>4 DEF QTyped
<1>5. Schedules(stream_priorities_, queue, stream_size)
  BY <1>1, NothingScheduled
<1>6. QED
  BY <1>1, <1>2, <1>3, <1>4, <1>5 DEF QInv, Init, OrdersDiffer, FastPathAlone

LEMMA OverheadStepsKeep ==
    ASSUME QInv, SetIncludeOverhead \/ \E o \in Overheads : SetTransportOverhead(o)
    PROVE  QInv'
<1>1. /\ Cardinality(Promoted) \in Nat /\ HeadersSize \in Nat /\ size_ \in Int
      /\ transport_overhead_per_packet_ \in Nat /\ include_overhead_ \in BOOLEAN
  BY PromotedWaiters, QueueAssumption DEF QInv, QTyped
<1>2. CASE SetIncludeOverhead
  <2>1. /\ Promote
        /\ UNCHANGED <<now, packet_counter_, size_packets_, stream_size, max_size_, times, paused_>>
        /\ include_overhead_' = TRUE
        /\ transport_overhead_per_packet_' = transport_overhead_per_packet_
        /\ size_' = size_ + Cardinality(Promoted) * (HeadersSize + transport_overhead_per_packet_)
    BY <1>2 DEF SetIncludeOverhead
  <2>2. size_' \in Int
    BY <1>1, <2>1
  <2>3. QED
    BY <1>1, <2>1, <2>2, PromoteKeeps
<1>3. ASSUME NEW o \in Overheads, SetTransportOverhead(o) PROVE QInv'
  <2>1. /\ Promote
        /\ UNCHANGED <<now, packet_counter_, size_packets_, stream_size, max_size_, times, paused_>>
        /\ include_overhead_' = include_overhead_
        /\ transport_overhead_per_packet_' = o /\ o \in Nat
        /\ size_' = size_ + (IF include_overhead_
                             THEN Cardinality(Promoted) * (o - transport_overhead_per_packet_)
                             ELSE 0)
    BY <1>3, QueueAssumption DEF SetTransportOverhead
  <2>2. Cardinality(Promoted) * (o - transport_overhead_per_packet_) \in Int
    BY <1>1, <2>1
  <2>3. size_' \in Int
    BY <1>1, <2>1, <2>2
  <2>4. QED
    BY <1>1, <2>1, <2>3, PromoteKeeps
<1>4. QED
  BY <1>2, <1>3

LEMMA StutterKeeps ==
    ASSUME QInv, UNCHANGED vars
    PROVE  QInv'
<1>1. /\ now' = now /\ packet_counter_' = packet_counter_ /\ size_' = size_
      /\ single_packet_queue_' = single_packet_queue_ /\ queue' = queue
      /\ size_packets_' = size_packets_ /\ stream_size' = stream_size
      /\ stream_priorities_' = stream_priorities_ /\ max_size_' = max_size_
      /\ queue_time_sum_' = queue_time_sum_ /\ pause_time_sum_' = pause_time_sum_
      /\ time_last_updated_' = time_last_updated_ /\ paused_' = paused_
      /\ include_overhead_' = include_overhead_
      /\ transport_overhead_per_packet_' = transport_overhead_per_packet_
  BY DEF vars, contents, schedule, times, overhead
<1>2. QTyped'
  BY <1>1 DEF QInv, QTyped
<1>3. Waiters' = Waiters
  BY <1>1 DEF Waiters, SinglePacket
<1>4. FastPathAlone' /\ Schedules(stream_priorities_, queue, stream_size)'
  BY <1>1 DEF QInv, FastPathAlone
<1>5. QED
  BY <1>1, <1>2, <1>3, <1>4 DEF QInv

LEMMA StepsKeep ==
    ASSUME QInv, [Next]_vars
    PROVE  QInv'
<1>1. ASSUME NEW ssrc \in Ssrcs, NEW type \in Types, NEW size \in Sizes, Push(ssrc, type, size)
      PROVE  QInv'
  BY <1>1, PushSingleKeeps, PushNormalKeeps
<1>2. CASE Pop
  BY <1>2, PopSingleKeeps, PopNormalKeeps
<1>3. QED
  BY <1>1, <1>2, TimeStepsKeep, OverheadStepsKeep, TickKeeps, StutterKeeps DEF Next

\* The queue keeps its inductive invariant: types, one enqueue order per packet,
\* the fast path used alone, the schedule of Push and Pop right for the packets
\* queued, and size_packets_ their number.
THEOREM QueueInvariant == Spec => []QInv
<1>1. Init => QInv
  BY InitHolds
<1>2. QInv /\ [Next]_vars => QInv'
  BY StepsKeep
<1>3. QED
  BY <1>1, <1>2, PTL DEF Spec

-----------------------------------------------------------------------------
(* What follows from the invariant.                                        *)

LEMMA InvariantSchedules ==
    ASSUME QInv
    PROVE  SchedulingMatchesQueues
<1> DEFINE prios == stream_priorities_
<1>1. /\ prios \in Seq(Entries) /\ ScheduledOnce(prios) /\ InOrder(prios)
      /\ \A s \in Ssrcs : Scheduled(prios, s) # {} <=> Of(queue, s) # {}
      /\ \A i \in 1 .. Len(prios) :
             /\ Urgency(prios[i].priority, Of(queue, prios[i].ssrc))
             /\ prios[i].size = stream_size[prios[i].ssrc]
  BY DEF QInv, Schedules
<1>2. queue \in SUBSET Packets /\ OrdersDiffer(queue)
  BY DEF QInv, QTyped, OrdersDiffer, Waiters
<1> HIDE DEF prios
<1>3. ASSUME NEW s \in Ssrcs
      PROVE  Cardinality(Scheduled(prios, s)) = IF Of(queue, s) = {} THEN 0 ELSE 1
  <2>1. CASE Of(queue, s) = {}
    BY <1>1, <2>1, FS_EmptySet
  <2>2. CASE Of(queue, s) # {}
    <3>1. PICK i \in Scheduled(prios, s) : TRUE
      BY <1>1, <2>2
    <3>2. Scheduled(prios, s) = {i}
      BY <1>1, <3>1 DEF Scheduled, ScheduledOnce
    <3>3. QED
      BY <2>2, <3>2, FS_Singleton
  <2>3. QED
    BY <2>1, <2>2
<1>4. ASSUME NEW s \in Ssrcs, NEW i \in Scheduled(prios, s)
      PROVE  prios[i].priority = Priority[Top(Of(queue, s)).type] /\ prios[i].size = stream_size[s]
  <2>1. i \in 1 .. Len(prios) /\ prios[i].ssrc = s
    BY DEF Scheduled
  <2>2. Urgency(prios[i].priority, Of(queue, s)) /\ prios[i].size = stream_size[s]
    BY <1>1, <2>1
  <2>3. Of(queue, s) # {} /\ Of(queue, s) \in SUBSET Packets /\ OrdersDiffer(Of(queue, s))
    BY <1>1, <1>2 DEF Of, OrdersDiffer
  <2>4. Urgency(Priority[Top(Of(queue, s)).type], Of(queue, s))
    BY <2>3, TopIsMostUrgent
  <2>5. QED
    BY <2>2, <2>3, <2>4, UrgencyIsUnique
<1>5. ASSUME NEW i \in 1 .. Len(prios), NEW j \in 1 .. Len(prios), i < j
      PROVE  \/ prios[i].priority < prios[j].priority
             \/ prios[i].priority = prios[j].priority /\ prios[i].size <= prios[j].size
  BY <1>1, <1>5 DEF InOrder, NotAfter
<1>6. QED
  BY <1>3, <1>4, <1>5, Zenon DEF SchedulingMatchesQueues, prios

\* SchedulingMatchesQueues for any number of streams, packets and sizes: the
\* RTC_CHECKs of Push, Pop and GetHighestPriorityStream never fail.
THEOREM ScheduleMatches == Spec => []SchedulingMatchesQueues
<1>1. QInv => SchedulingMatchesQueues
  BY InvariantSchedules
<1>2. QED
  BY <1>1, QueueInvariant, PTL

Fifo ==
    \A p \in Waiters, q \in Waiters :
        /\ p.ssrc = q.ssrc /\ p.type = q.type /\ p.order < q.order
        /\ \A r \in Waiters' : r.order # q.order
        => \A r \in Waiters' : r.order # p.order

\* A step that keeps every packet in the queue.
LEMMA FifoIfAllStay ==
    ASSUME \A q \in Waiters : \E r \in Waiters' : r.order = q.order
    PROVE  Fifo
  BY DEF Fifo

LEMMA PromotedStay ==
    ASSUME QInv, Promoted \subseteq Waiters'
    PROVE  \A q \in Waiters : \E r \in Waiters' : r.order = q.order
<1>1. CASE Waiters = queue /\ Promoted = queue
  BY <1>1
<1>2. ASSUME NEW p \in Packets, Waiters = {p},
             Promoted = {[p EXCEPT !.in_times = p.enqueue_time]}
      PROVE  \A q \in Waiters : \E r \in Waiters' : r.order = q.order
  <2>1. PICK r : r = [p EXCEPT !.in_times = p.enqueue_time]
    OBVIOUS
  <2>2. r.order = p.order
    BY <2>1, PromotedPacket
  <2>3. r \in Waiters'
    BY <1>2, <2>1
  <2>4. QED
    BY <1>2, <2>2, <2>3
<1>3. QED
  BY <1>1, <1>2, FastPathCases DEF QInv

LEMMA PopIsFifo ==
    ASSUME QInv, Pop
    PROVE  Fifo
<1>1. Waiters \in SUBSET Packets
  BY WaitersTyped DEF QInv
<1> SUFFICES ASSUME NEW p \in Waiters, NEW q \in Waiters,
                    p.ssrc = q.ssrc, p.type = q.type, p.order < q.order,
                    \A r \in Waiters' : r.order # q.order
             PROVE  FALSE
  BY DEF Fifo
<1>2. p.order \in Nat /\ q.order \in Nat /\ p.type \in Types /\ p # q
  BY <1>1 DEF Packets
<1>3. CASE single_packet_queue_ # <<>>
  BY <1>2, <1>3, FastPathCases DEF QInv
<1>4. CASE single_packet_queue_ = <<>>
  <2>1. PICK s, t : s = stream_priorities_[1].ssrc /\ t = Top(Of(queue, s))
    OBVIOUS
  <2>2. size_packets_ > 0 /\ queue' = queue \ {t} /\ single_packet_queue_' = <<>>
    BY <1>4, <2>1 DEF Pop, PopNormal
  <2>3. t.ssrc = s /\ Waiters = queue /\ \A r \in Of(queue, s) \ {t} : Before(t, r)
    BY <1>4, <2>1, <2>2, PopServes
  <2>4. Waiters' = queue \ {t}
    BY <2>2, NextWaiters
  <2>5. q = t
    BY <2>3, <2>4
  <2>6. Before(q, p)
    BY <1>2, <2>3, <2>5 DEF Of
  <2>7. Priority[p.type] \in Nat
    BY <1>2, Priorities
  <2>8. QED
    BY <1>2, <2>6, <2>7 DEF Before
<1>5. QED
  BY <1>3, <1>4

LEMMA StepsAreFifo ==
    ASSUME QInv, [Next]_vars
    PROVE  Fifo
<1>1. ASSUME NEW ssrc \in Ssrcs, NEW type \in Types, NEW size \in Sizes, Push(ssrc, type, size)
      PROVE  Fifo
  <2>1. CASE size_packets_ = 0
    <3>1. IsFiniteSet(Waiters) /\ Cardinality(Waiters) = 0
      BY <2>1, WaitersTyped DEF QInv
    <3>2. Waiters = {}
      BY <3>1, FS_EmptySet
    <3>3. QED
      BY <3>2 DEF Fifo
  <2>2. CASE size_packets_ # 0
    <3>1. Promoted \subseteq queue' /\ single_packet_queue_' = <<>>
      BY <1>1, <2>2 DEF Push, PushNormal
    <3>2. Promoted \subseteq Waiters'
      BY <3>1, NextWaiters
    <3>3. QED
      BY <3>2, PromotedStay, FifoIfAllStay
  <2>3. QED
    BY <2>1, <2>2
<1>2. CASE SetIncludeOverhead \/ \E o \in Overheads : SetTransportOverhead(o)
  <2>1. queue' = Promoted /\ single_packet_queue_' = <<>>
    BY <1>2 DEF SetIncludeOverhead, SetTransportOverhead, Promote
  <2>2. Promoted \subseteq Waiters'
    BY <2>1, NextWaiters
  <2>3. QED
    BY <2>2, PromotedStay, FifoIfAllStay
<1>3. CASE Tick
  <2>1. Waiters' = Ticked(Waiters)
    BY <1>3, TickWaiters
  <2>2. /\ Waiters \in SUBSET Packets /\ IsFiniteSet(Waiters) /\ OrdersDiffer(Waiters)
        /\ paused_ \in BOOLEAN
    BY WaitersTyped DEF QInv, QTyped
  <2>3. \A q \in Waiters : \E r \in Waiters' : r.order = q.order
    BY <2>1, <2>2, WaitingSet
  <2>4. QED
    BY <2>3, FifoIfAllStay
<1>4. CASE \/ UpdateQueueTime \/ UNCHANGED vars
           \/ \E paused \in BOOLEAN : SetPauseState(paused)
  <2>1. queue' = queue /\ single_packet_queue_' = single_packet_queue_
    BY <1>4 DEF UpdateQueueTime, SetPauseState, vars, contents
  <2>2. Waiters' = Waiters
    BY <2>1 DEF Waiters, SinglePacket
  <2>3. QED
    BY <2>2, FifoIfAllStay
<1>5. QED
  BY <1>1, <1>2, <1>3, <1>4, PopIsFifo DEF Next

\* FifoPerStreamAndType for any number of streams and packets: whatever Push
\* promoted and however Pop chose, packets of a stream and type leave in order.
THEOREM StreamsAreFifo == Spec => FifoPerStreamAndType
<1>1. QInv /\ [Next]_vars => [Fifo]_vars
  BY StepsAreFifo
<1>2. Spec => [][Fifo]_vars
  BY <1>1, QueueInvariant, PTL DEF Spec
<1>3. QED
  BY <1>2 DEF FifoPerStreamAndType, Fifo

-----------------------------------------------------------------------------
(* The sums the queue keeps.                                               *)

SizeOf == [p \in Packets |-> PacketSize(p)]

WaitedOf == [p \in Packets |-> p.waited]

\* w gives a packet and its promoted form the same value.
SurvivesPromotion(w) ==
    \A p \in Packets : w[[p EXCEPT !.in_times = p.enqueue_time]] = w[p]
-----------------------------------------------------------------------------
(* The sums of the properties are sums of these functions.                 *)

LEMMA SumOfSizes ==
    ASSUME NEW S \in SUBSET Packets, IsFiniteSet(S)
    PROVE  MapThenSumSet(PacketSize, S) = Sum(SizeOf, S)
<1> DEFINE Sizing(g) ==
        g = [s \in SUBSET S |-> IF s = {} THEN 0
                                ELSE PacketSize(Picked(s)) + g[s \ {Picked(s)}]]
<1>1. \A s \in SUBSET S : s # {} => SizeOf[Picked(s)] = PacketSize(Picked(s))
  <2> SUFFICES ASSUME NEW s \in SUBSET S, s # {}
               PROVE  SizeOf[Picked(s)] = PacketSize(Picked(s))
    OBVIOUS
  <2>1. Picked(s) \in Packets
    BY PickedIsIn
  <2>2. QED
    BY <2>1 DEF SizeOf
<1>2. \A g : Sizing(g) <=> SumsOf(g, SizeOf, S)
  <2> SUFFICES ASSUME NEW g PROVE Sizing(g) <=> SumsOf(g, SizeOf, S)
    OBVIOUS
  <2>1. [s \in SUBSET S |-> IF s = {} THEN 0 ELSE PacketSize(Picked(s)) + g[s \ {Picked(s)}]]
      = [s \in SUBSET S |-> IF s = {} THEN 0 ELSE SizeOf[Picked(s)] + g[s \ {Picked(s)}]]
    BY <1>1
  <2>2. QED
    BY <2>1, Zenon DEF SumsOf, Rec
<1>3. MapThenSumSet(PacketSize, S) = (CHOOSE g : Sizing(g))[S]
  BY DEF MapThenSumSet, MapThenFoldSet, Picked
<1> HIDE DEF Sizing
<1>4. PICK h : SumsOf(h, SizeOf, S) /\ Sum(SizeOf, S) = h[S]
  BY SumIsRecursion
<1>5. PICK g : g = CHOOSE x : Sizing(x)
  OBVIOUS
<1>6. SumsOf(g, SizeOf, S)
  <2>1. \E x : Sizing(x)
    BY <1>2, <1>4
  <2>2. Sizing(g)
    BY <1>5, <2>1, Zenon
  <2>3. QED
    BY <1>2, <2>2
<1>7. AgreeOn(SizeOf, SizeOf, S)
  BY DEF AgreeOn
<1>8. S \in SUBSET S
  OBVIOUS
<1>9. g[S] = h[S]
  BY <1>4, <1>6, <1>7, <1>8, RecursionUnique
<1>10. QED
  BY <1>3, <1>4, <1>5, <1>9

LEMMA SumOfWaits ==
    ASSUME NEW S \in SUBSET Packets, IsFiniteSet(S)
    PROVE  MapThenSumSet(LAMBDA p : p.waited, S) = Sum(WaitedOf, S)
<1> DEFINE Adding(g) ==
        g = [s \in SUBSET S |-> IF s = {} THEN 0
                                ELSE Picked(s).waited + g[s \ {Picked(s)}]]
<1>1. \A s \in SUBSET S : s # {} => WaitedOf[Picked(s)] = Picked(s).waited
  <2> SUFFICES ASSUME NEW s \in SUBSET S, s # {}
               PROVE  WaitedOf[Picked(s)] = Picked(s).waited
    OBVIOUS
  <2>1. Picked(s) \in Packets
    BY PickedIsIn
  <2>2. QED
    BY <2>1 DEF WaitedOf
<1>2. \A g : Adding(g) <=> SumsOf(g, WaitedOf, S)
  <2> SUFFICES ASSUME NEW g PROVE Adding(g) <=> SumsOf(g, WaitedOf, S)
    OBVIOUS
  <2>1. [s \in SUBSET S |-> IF s = {} THEN 0 ELSE Picked(s).waited + g[s \ {Picked(s)}]]
      = [s \in SUBSET S |-> IF s = {} THEN 0 ELSE WaitedOf[Picked(s)] + g[s \ {Picked(s)}]]
    BY <1>1
  <2>2. QED
    BY <2>1, Zenon DEF SumsOf, Rec
<1>3. MapThenSumSet(LAMBDA p : p.waited, S) = (CHOOSE g : Adding(g))[S]
  BY DEF MapThenSumSet, MapThenFoldSet, Picked
<1> HIDE DEF Adding
<1>4. PICK h : SumsOf(h, WaitedOf, S) /\ Sum(WaitedOf, S) = h[S]
  BY SumIsRecursion
<1>5. PICK g : g = CHOOSE x : Adding(x)
  OBVIOUS
<1>6. SumsOf(g, WaitedOf, S)
  <2>1. \E x : Adding(x)
    BY <1>2, <1>4
  <2>2. Adding(g)
    BY <1>5, <2>1, Zenon
  <2>3. QED
    BY <1>2, <2>2
<1>7. AgreeOn(WaitedOf, WaitedOf, S)
  BY DEF AgreeOn
<1>8. S \in SUBSET S
  OBVIOUS
<1>9. g[S] = h[S]
  BY <1>4, <1>6, <1>7, <1>8, RecursionUnique
<1>10. QED
  BY <1>3, <1>4, <1>5, <1>9
-----------------------------------------------------------------------------
(* Sums over the waiting packets.                                          *)

LEMMA SumOfOne ==
    ASSUME NEW w, NEW x, w[x] \in Int
    PROVE  Sum(w, {x}) = w[x]
<1>1. IsFiniteSet({}) /\ x \notin {} /\ {} \cup {x} = {x} /\ IntegersOn(w, {x})
  BY FS_EmptySet DEF IntegersOn
<1>2. Sum(w, {} \cup {x}) = w[x] + Sum(w, {})
  BY <1>1, SumAdd
<1>3. Sum(w, {}) = 0
  BY SumEmpty
<1>4. QED
  BY <1>1, <1>2, <1>3

\* Promotion does not change a sum.
LEMMA PromotedSum ==
    ASSUME QInv, NEW w, IntegersOn(w, Packets), SurvivesPromotion(w)
    PROVE  Sum(w, Promoted) = Sum(w, Waiters)
<1>1. CASE Waiters = queue /\ Promoted = queue
  BY <1>1
<1>2. ASSUME NEW p \in Packets, Waiters = {p},
             Promoted = {[p EXCEPT !.in_times = p.enqueue_time]}
      PROVE  Sum(w, Promoted) = Sum(w, Waiters)
  <2>1. PICK r : r = [p EXCEPT !.in_times = p.enqueue_time]
    OBVIOUS
  <2>2. w[r] = w[p] /\ w[p] \in Int
    BY <2>1 DEF SurvivesPromotion, IntegersOn
  <2>3. Sum(w, {r}) = w[r] /\ Sum(w, {p}) = w[p]
    BY <2>2, SumOfOne
  <2>4. QED
    BY <1>2, <2>1, <2>2, <2>3
<1>3. QED
  BY <1>1, <1>2, FastPathCases DEF QInv

LEMMA SizesAreIntegers ==
    ASSUME QTyped
    PROVE  IntegersOn(SizeOf, Packets) /\ SurvivesPromotion(SizeOf)
<1>1. ASSUME NEW p \in Packets PROVE SizeOf[p] \in Int
  <2>1. p.size \in Sizes
    BY DEF Packets
  <2>2. PacketSize(p) \in Nat
    BY <2>1, PacketSizes
  <2>3. QED
    BY <2>2 DEF SizeOf
<1>2. ASSUME NEW p \in Packets PROVE SizeOf[[p EXCEPT !.in_times = p.enqueue_time]] = SizeOf[p]
  <2>1. PICK r : r = [p EXCEPT !.in_times = p.enqueue_time]
    OBVIOUS
  <2>2. r \in Packets /\ r.size = p.size
    BY <2>1, PromotedPacket
  <2>3. PacketSize(r) = PacketSize(p)
    BY <2>2 DEF PacketSize
  <2>4. SizeOf[r] = PacketSize(r) /\ SizeOf[p] = PacketSize(p)
    BY <2>2 DEF SizeOf
  <2>5. QED
    BY <2>1, <2>3, <2>4
<1>3. QED
  BY <1>1, <1>2 DEF IntegersOn, SurvivesPromotion

LEMMA WaitsAreIntegers ==
    IntegersOn(WaitedOf, Packets) /\ SurvivesPromotion(WaitedOf)
<1>1. ASSUME NEW p \in Packets PROVE WaitedOf[p] \in Int
  BY DEF WaitedOf, Packets
<1>2. ASSUME NEW p \in Packets
      PROVE  WaitedOf[[p EXCEPT !.in_times = p.enqueue_time]] = WaitedOf[p]
  <2>1. PICK r : r = [p EXCEPT !.in_times = p.enqueue_time]
    OBVIOUS
  <2>2. r \in Packets /\ r.waited = p.waited
    BY <2>1, PromotedPacket
  <2>3. WaitedOf[r] = r.waited /\ WaitedOf[p] = p.waited
    BY <2>2 DEF WaitedOf
  <2>4. QED
    BY <2>1, <2>2, <2>3
<1>3. QED
  BY <1>1, <1>2 DEF IntegersOn, SurvivesPromotion

LEMMA WaitersSum ==
    ASSUME QInv, NEW w, IntegersOn(w, Packets)
    PROVE  /\ Waiters \in SUBSET Packets /\ IsFiniteSet(Waiters)
           /\ IntegersOn(w, Waiters) /\ Sum(w, Waiters) \in Int
<1>1. Waiters \in SUBSET Packets /\ IsFiniteSet(Waiters)
  BY WaitersTyped DEF QInv
<1>2. IntegersOn(w, Waiters)
  BY <1>1 DEF IntegersOn
<1>3. Sum(w, Waiters) \in Int
  BY <1>1, <1>2, SumRemove
<1>4. QED
  BY <1>1, <1>2, <1>3

\* A sum over one packet more.
LEMMA SumOneMore ==
    ASSUME NEW W \in SUBSET Packets, IsFiniteSet(W), NEW q \in Packets, q \notin W,
           NEW w, IntegersOn(w, Packets)
    PROVE  Sum(w, W \cup {q}) = Sum(w, W) + w[q]
<1>1. IntegersOn(w, W \cup {q}) /\ IntegersOn(w, W) /\ w[q] \in Int
  BY DEF IntegersOn
<1>2. Sum(w, W \cup {q}) = w[q] + Sum(w, W)
  BY <1>1, SumAdd
<1>3. Sum(w, W) \in Int
  BY <1>1, SumRemove
<1>4. QED
  BY <1>1, <1>2, <1>3

\* The packet that Push brings, and what a sum over the queue gains.
LEMMA PushAdds ==
    ASSUME QInv, NEW ssrc \in Ssrcs, NEW type \in Types, NEW size \in Sizes,
           Push(ssrc, type, size),
           NEW w, IntegersOn(w, Packets), SurvivesPromotion(w)
    PROVE  \E p \in Packets :
               /\ p.size = size /\ p.waited = 0 /\ p.enqueue_time = now - PauseTimeAt(now)
               /\ size_' = size_ + PacketSize(p)
               /\ Sum(w, Waiters') = Sum(w, Waiters) + w[p]
               /\ Waiters' \subseteq Promoted \cup {p}
<1>1. QTyped /\ now \in Int /\ packet_counter_ \in Nat
  BY DEF QInv, QTyped
<1>2. CASE size_packets_ = 0
  <2>1. PICK p : p = QueuedPacket(ssrc, type, size, packet_counter_, now - PauseTimeAt(now), -1)
    OBVIOUS
  <2>2. /\ p \in Packets /\ p.size = size /\ p.waited = 0
        /\ p.enqueue_time = now - PauseTimeAt(now)
    BY <1>1, <2>1, NewPacketTyped
  <2>3. single_packet_queue_' = <<p>> /\ size_' = size_ + PacketSize(p) /\ queue' = queue
    BY <1>2, <2>1 DEF Push, PushSingle
  <2>4. Waiters = {}
    <3>1. IsFiniteSet(Waiters) /\ Cardinality(Waiters) = 0
      BY <1>2, WaitersTyped DEF QInv
    <3>2. QED
      BY <3>1, FS_EmptySet
  <2>5. Waiters' = {p}
    <3>1. queue = {}
      BY <2>4 DEF Waiters
    <3>2. QED
      BY <2>3, <3>1, NextWaiters
  <2>6. w[p] \in Int
    BY <2>2 DEF IntegersOn
  <2>7. Sum(w, Waiters') = w[p] /\ Sum(w, Waiters) = 0
    BY <2>4, <2>5, <2>6, SumOfOne, SumEmpty
  <2>8. QED
    BY <2>2, <2>3, <2>5, <2>6, <2>7
<1>3. CASE size_packets_ # 0
  <2>1. PICK p : p = QueuedPacket(ssrc, type, size, packet_counter_, now - PauseTimeAt(now), now)
    OBVIOUS
  <2>2. /\ p \in Packets /\ p.size = size /\ p.waited = 0 /\ p.order = packet_counter_
        /\ p.enqueue_time = now - PauseTimeAt(now)
    BY <1>1, <2>1, NewPacketTyped
  <2>3. single_packet_queue_' = <<>> /\ size_' = size_ + PacketSize(p) /\ queue' = Promoted \cup {p}
    BY <1>3, <2>1 DEF Push, PushNormal
  <2>4. Waiters' = Promoted \cup {p}
    BY <2>3, NextWaiters
  <2>5. /\ Promoted \in SUBSET Packets /\ IsFiniteSet(Promoted)
        /\ OrdersDiffer(Promoted) /\ \A q \in Promoted : q.order < packet_counter_
    BY PromotedWaiters
  <2> HIDE DEF Promoted
  <2>6. p \notin Promoted
    BY <1>1, <2>2, <2>5, OneMore
  <2>7. Sum(w, Promoted \cup {p}) = Sum(w, Promoted) + w[p]
    BY <2>2, <2>5, <2>6, SumOneMore
  <2>8. Sum(w, Promoted) = Sum(w, Waiters)
    BY PromotedSum
  <2>9. QED
    BY <2>2, <2>3, <2>4, <2>7, <2>8
<1>4. QED
  BY <1>2, <1>3

\* The packet that Pop takes, and what a sum over the queue loses.
LEMMA PopTakes ==
    ASSUME QInv, Pop, single_packet_queue_ = <<>>, NEW w, IntegersOn(w, Packets)
    PROVE  \E p \in Waiters :
               /\ p \in Packets /\ Waiters' = Waiters \ {p}
               /\ size_' = size_ - PacketSize(p) /\ size_packets_' = size_packets_ - 1
               /\ queue_time_sum_' = queue_time_sum_
                                       - (time_last_updated_ - p.enqueue_time - pause_time_sum_)
               /\ Sum(w, Waiters') = Sum(w, Waiters) - w[p]
<1>1. PICK s, p : s = stream_priorities_[1].ssrc /\ p = Top(Of(queue, s))
  OBVIOUS
<1>2. /\ size_packets_ > 0 /\ queue' = queue \ {p} /\ single_packet_queue_' = <<>>
      /\ size_' = size_ - PacketSize(p) /\ size_packets_' = size_packets_ - 1
      /\ queue_time_sum_' = queue_time_sum_
                              - (time_last_updated_ - p.enqueue_time - pause_time_sum_)
  BY <1>1 DEF Pop, PopNormal
<1>3. p \in queue /\ p \in Packets /\ Waiters = queue
  BY <1>1, <1>2, PopServes
<1>4. Waiters' = Waiters \ {p} /\ p \in Waiters
  BY <1>2, <1>3, NextWaiters
<1>5. IsFiniteSet(Waiters) /\ IntegersOn(w, Waiters) /\ Sum(w, Waiters) \in Int
  BY WaitersSum
<1>6. Sum(w, Waiters) = w[p] + Sum(w, Waiters \ {p}) /\ w[p] \in Int
  BY <1>3, <1>4, <1>5, SumRemove DEF IntegersOn
<1>7. Sum(w, Waiters \ {p}) \in Int
  <2>1. IsFiniteSet(Waiters \ {p}) /\ IntegersOn(w, Waiters \ {p})
    BY <1>4, <1>5, FS_RemoveElement DEF IntegersOn
  <2>2. QED
    BY <2>1, SumRemove
<1>8. Sum(w, Waiters') = Sum(w, Waiters) - w[p]
  BY <1>4, <1>5, <1>6, <1>7
<1>9. QED
  BY <1>2, <1>3, <1>4, <1>8
-----------------------------------------------------------------------------
(* The size of the queue.                                                  *)

SizeCounted == size_ = Sum(SizeOf, Waiters)

SInv == QInv /\ SizeCounted

LEMMA SameSizes ==
    ASSUME include_overhead_' = include_overhead_,
           transport_overhead_per_packet_' = transport_overhead_per_packet_
    PROVE  SizeOf' = SizeOf
  BY DEF SizeOf, PacketSize

LEMMA PushCounts ==
    ASSUME SInv, NEW ssrc \in Ssrcs, NEW type \in Types, NEW size \in Sizes,
           Push(ssrc, type, size)
    PROVE  SizeCounted'
<1>1. QInv /\ QTyped
  BY DEF SInv, QInv
<1>2. IntegersOn(SizeOf, Packets) /\ SurvivesPromotion(SizeOf)
  BY <1>1, SizesAreIntegers
<1>3. PICK p \in Packets :
          /\ size_' = size_ + PacketSize(p)
          /\ Sum(SizeOf, Waiters') = Sum(SizeOf, Waiters) + SizeOf[p]
  BY <1>1, <1>2, PushAdds
<1>4. SizeOf' = SizeOf
  BY SameSizes DEF Push, overhead
<1>5. SizeOf[p] = PacketSize(p)
  BY DEF SizeOf
<1>6. QED
  BY <1>3, <1>4, <1>5 DEF SInv, SizeCounted

LEMMA PopCounts ==
    ASSUME SInv, Pop
    PROVE  SizeCounted'
<1>1. QInv /\ QTyped
  BY DEF SInv, QInv
<1>2. SizeOf' = SizeOf
  BY SameSizes DEF Pop, overhead
<1>3. CASE single_packet_queue_ # <<>>
  <2>1. single_packet_queue_' = <<>> /\ size_' = 0 /\ queue' = queue /\ queue = {}
    BY <1>1, <1>3 DEF Pop, PopSingle, QInv, FastPathAlone
  <2>2. Waiters' = {}
    BY <2>1, NextWaiters
  <2>3. QED
    BY <1>2, <2>1, <2>2, SumEmpty DEF SizeCounted
<1>4. CASE single_packet_queue_ = <<>>
  <2>1. IntegersOn(SizeOf, Packets)
    BY <1>1, SizesAreIntegers
  <2>2. PICK p \in Waiters :
            /\ p \in Packets /\ size_' = size_ - PacketSize(p)
            /\ Sum(SizeOf, Waiters') = Sum(SizeOf, Waiters) - SizeOf[p]
    BY <1>1, <1>4, <2>1, PopTakes
  <2>3. SizeOf[p] = PacketSize(p)
    BY <2>2 DEF SizeOf
  <2>4. QED
    BY <1>2, <2>2, <2>3 DEF SInv, SizeCounted
<1>5. QED
  BY <1>3, <1>4

\* Both overhead setters add the same amount for every queued packet.
LEMMA OverheadCounts ==
    ASSUME SInv, NEW c \in Int, \A p \in Packets : SizeOf'[p] = SizeOf[p] + c,
           Waiters' = Promoted, size_' = size_ + Cardinality(Promoted) * c
    PROVE  SizeCounted'
<1>1. QInv /\ QTyped
  BY DEF SInv, QInv
<1>2. IntegersOn(SizeOf, Packets) /\ SurvivesPromotion(SizeOf)
  BY <1>1, SizesAreIntegers
<1>3. Sum(SizeOf, Promoted) = Sum(SizeOf, Waiters)
  BY <1>1, <1>2, PromotedSum
<1>4. Promoted \in SUBSET Packets /\ IsFiniteSet(Promoted) /\ Cardinality(Promoted) \in Nat
  BY <1>1, PromotedWaiters, FS_CardinalityType
<1>5. IntegersOn(SizeOf, Promoted) /\ \A p \in Promoted : SizeOf'[p] = SizeOf[p] + c
  BY <1>2, <1>4 DEF IntegersOn
<1>6. PICK v : v = SizeOf'
  OBVIOUS
<1>7. Sum(v, Promoted) = Sum(SizeOf, Promoted) + c * Cardinality(Promoted)
  BY <1>4, <1>5, <1>6, SumShift
<1>8. c * Cardinality(Promoted) = Cardinality(Promoted) * c
  BY <1>4
<1>9. QED
  BY <1>3, <1>6, <1>7, <1>8 DEF SInv, SizeCounted

LEMMA IncludeCounts ==
    ASSUME SInv, SetIncludeOverhead
    PROVE  SizeCounted'
<1>1. /\ HeadersSize \in Nat /\ transport_overhead_per_packet_ \in Nat
      /\ include_overhead_ \in BOOLEAN /\ Sizes \subseteq Nat
  BY QueueAssumption DEF SInv, QInv, QTyped
<1>2. /\ ~include_overhead_ /\ include_overhead_' = TRUE
      /\ transport_overhead_per_packet_' = transport_overhead_per_packet_
      /\ size_' = size_ + Cardinality(Promoted) * (HeadersSize + transport_overhead_per_packet_)
      /\ queue' = Promoted /\ single_packet_queue_' = <<>>
  BY DEF SetIncludeOverhead, Promote
<1>3. PICK c \in Int : c = HeadersSize + transport_overhead_per_packet_
  BY <1>1
<1>4. ASSUME NEW p \in Packets PROVE SizeOf'[p] = SizeOf[p] + c
  <2>1. p.size \in Nat
    BY <1>1 DEF Packets
  <2>2. SizeOf[p] = p.size
    BY <1>1, <1>2, <2>1 DEF SizeOf, PacketSize
  <2>3. SizeOf'[p] = p.size + (HeadersSize + transport_overhead_per_packet_)
    BY <1>2 DEF SizeOf, PacketSize
  <2>4. QED
    BY <1>3, <2>2, <2>3
<1>5. Waiters' = Promoted
  BY <1>2, NextWaiters
<1>6. QED
  BY <1>2, <1>3, <1>4, <1>5, OverheadCounts

LEMMA TransportCounts ==
    ASSUME SInv, NEW o \in Overheads, SetTransportOverhead(o)
    PROVE  SizeCounted'
<1>1. /\ HeadersSize \in Nat /\ transport_overhead_per_packet_ \in Nat /\ o \in Nat
      /\ include_overhead_ \in BOOLEAN /\ Sizes \subseteq Nat /\ size_ \in Int
  BY QueueAssumption DEF SInv, QInv, QTyped
<1>2. /\ include_overhead_' = include_overhead_ /\ transport_overhead_per_packet_' = o
      /\ size_' = size_ + (IF include_overhead_
                           THEN Cardinality(Promoted) * (o - transport_overhead_per_packet_)
                           ELSE 0)
      /\ queue' = Promoted /\ single_packet_queue_' = <<>>
  BY DEF SetTransportOverhead, Promote
<1>3. Waiters' = Promoted
  BY <1>2, NextWaiters
<1>4. CASE include_overhead_
  <2>1. PICK c \in Int : c = o - transport_overhead_per_packet_
    BY <1>1
  <2>2. size_' = size_ + Cardinality(Promoted) * c
    BY <1>2, <1>4, <2>1
  <2>3. ASSUME NEW p \in Packets PROVE SizeOf'[p] = SizeOf[p] + c
    <3>1. p.size \in Nat
      BY <1>1 DEF Packets
    <3>2. SizeOf[p] = p.size + (HeadersSize + transport_overhead_per_packet_)
      BY <1>4 DEF SizeOf, PacketSize
    <3>3. SizeOf'[p] = p.size + (HeadersSize + o)
      BY <1>2, <1>4 DEF SizeOf, PacketSize
    <3>4. QED
      BY <1>1, <2>1, <3>1, <3>2, <3>3
  <2>4. QED
    BY <1>3, <2>2, <2>3, OverheadCounts
<1>5. CASE ~include_overhead_
  <2>1. Cardinality(Promoted) \in Nat
    BY PromotedWaiters, FS_CardinalityType DEF SInv
  <2>2. PICK c \in Int : c = 0
    OBVIOUS
  <2>3. size_' = size_ + Cardinality(Promoted) * c
    BY <1>1, <1>2, <1>5, <2>1, <2>2
  <2>4. ASSUME NEW p \in Packets PROVE SizeOf'[p] = SizeOf[p] + c
    <3>1. p.size \in Nat
      BY <1>1 DEF Packets
    <3>2. SizeOf[p] = p.size + 0
      BY <1>5 DEF SizeOf, PacketSize
    <3>3. SizeOf'[p] = p.size + 0
      BY <1>2, <1>5 DEF SizeOf, PacketSize
    <3>4. QED
      BY <2>2, <3>1, <3>2, <3>3
  <2>5. QED
    BY <1>3, <2>3, <2>4, OverheadCounts
<1>6. QED
  BY <1>4, <1>5

\* A sum over the queue after a tick.
LEMMA TickedSum ==
    ASSUME QInv, Tick, NEW w, IntegersOn(w, Packets), NEW c \in Int,
           \A p \in Packets : w[Waiting(p)] = w[p] + c
    PROVE  Sum(w, Waiters') = Sum(w, Waiters) + c * Cardinality(Waiters)
<1>1. /\ Waiters \in SUBSET Packets /\ IsFiniteSet(Waiters) /\ OrdersDiffer(Waiters)
      /\ IntegersOn(w, Waiters) /\ paused_ \in BOOLEAN
  BY WaitersSum DEF QInv, QTyped
<1> DEFINE f == [p \in Waiters |-> Waiting(p)]
<1>2. \A p \in Waiters : f[p] = Waiting(p)
  OBVIOUS
<1>3. Waiters' = ImageOf(f, Waiters)
  <2>1. Waiters' = Ticked(Waiters)
    BY TickWaiters
  <2>2. QED
    BY <2>1 DEF Ticked, ImageOf
<1> HIDE DEF f
<1>4. InjectiveOn(f, Waiters)
  <2>1. \A p \in Waiters : f[p].order = p.order
    BY <1>1, <1>2, WaitingPacket
  <2>2. QED
    BY <1>1, <2>1 DEF InjectiveOn, OrdersDiffer
<1>5. ShiftedBy(w, f, w, c, Waiters)
  BY <1>1, <1>2 DEF ShiftedBy
<1>6. QED
  BY <1>1, <1>3, <1>4, <1>5, SumImage

LEMMA TickCounts ==
    ASSUME SInv, Tick
    PROVE  SizeCounted'
<1>1. QInv /\ QTyped /\ paused_ \in BOOLEAN
  BY DEF SInv, QInv, QTyped
<1>2. SizeOf' = SizeOf /\ size_' = size_
  BY SameSizes DEF Tick, overhead
<1>3. IntegersOn(SizeOf, Packets)
  BY <1>1, SizesAreIntegers
<1>4. PICK c \in Int : c = 0
  OBVIOUS
<1>5. ASSUME NEW p \in Packets PROVE SizeOf[Waiting(p)] = SizeOf[p] + c
  <2>1. PICK r : r = Waiting(p)
    OBVIOUS
  <2>2. r \in Packets /\ r.size = p.size
    BY <1>1, <2>1, WaitingPacket
  <2>3. SizeOf[r] = PacketSize(r) /\ SizeOf[p] = PacketSize(p) /\ PacketSize(r) = PacketSize(p)
    BY <2>2 DEF SizeOf, PacketSize
  <2>4. SizeOf[p] \in Int
    BY <1>3 DEF IntegersOn
  <2>5. QED
    BY <1>4, <2>1, <2>3, <2>4
<1>6. Sum(SizeOf, Waiters') = Sum(SizeOf, Waiters) + c * Cardinality(Waiters)
  BY <1>1, <1>3, <1>5, TickedSum
<1>7. Cardinality(Waiters) \in Nat /\ Sum(SizeOf, Waiters) \in Int
  BY <1>1, <1>3, WaitersSum, FS_CardinalityType
<1>8. c * Cardinality(Waiters) = 0
  BY <1>4, <1>7
<1>9. QED
  BY <1>2, <1>6, <1>7, <1>8 DEF SInv, SizeCounted

LEMMA StepsCount ==
    ASSUME SInv, [Next]_vars
    PROVE  SInv'
<1>1. QInv'
  BY StepsKeep DEF SInv
<1>2. CASE \/ UpdateQueueTime \/ UNCHANGED vars
           \/ \E paused \in BOOLEAN : SetPauseState(paused)
  <2>1. /\ queue' = queue /\ single_packet_queue_' = single_packet_queue_ /\ size_' = size_
        /\ include_overhead_' = include_overhead_
        /\ transport_overhead_per_packet_' = transport_overhead_per_packet_
    BY <1>2 DEF UpdateQueueTime, SetPauseState, vars, contents, overhead
  <2>2. Waiters' = Waiters /\ SizeOf' = SizeOf
    BY <2>1, SameSizes DEF Waiters, SinglePacket
  <2>3. QED
    BY <1>1, <2>1, <2>2 DEF SInv, SizeCounted
<1>3. QED
  BY <1>1, <1>2, PushCounts, PopCounts, IncludeCounts, TransportCounts, TickCounts
     DEF SInv, Next

LEMMA InvariantAccounts ==
    ASSUME SInv
    PROVE  AccountsMatchContents
<1>1. Waiters \in SUBSET Packets /\ IsFiniteSet(Waiters)
  BY WaitersTyped DEF SInv, QInv
<1>2. MapThenSumSet(PacketSize, Waiters) = Sum(SizeOf, Waiters)
  BY <1>1, SumOfSizes
<1>3. size_ = MapThenSumSet(PacketSize, Waiters)
  BY <1>2 DEF SInv, SizeCounted
<1>4. QED
  BY <1>3 DEF SInv, QInv, FastPathAlone, AccountsMatchContents

\* AccountsMatchContents for any number of packets, sizes and overheads: the
\* DCHECKs of Pop and Empty never fail.
THEOREM AccountsMatch == Spec => []AccountsMatchContents
<1>1. Init => SInv
  <2> SUFFICES ASSUME Init PROVE SInv
    OBVIOUS
  <2>1. QInv /\ size_ = 0 /\ queue = {} /\ single_packet_queue_ = <<>>
    BY InitHolds DEF Init
  <2>2. Waiters = {}
    BY <2>1, SingleSet DEF Waiters
  <2>3. QED
    BY <2>1, <2>2, SumEmpty DEF SInv, SizeCounted
<1>2. SInv /\ [Next]_vars => SInv'
  BY StepsCount
<1>3. SInv => AccountsMatchContents
  BY InvariantAccounts
<1>4. QED
  BY <1>1, <1>2, <1>3, PTL DEF Spec

-----------------------------------------------------------------------------
(* The time the queued packets have waited.                                *)

TimeCounted == QueueTimeAt(now) = Sum(WaitedOf, Waiters)

PauseTimeNow == PauseTimeAt(now)

QueueTimeNow == QueueTimeAt(now)

TInv == QInv /\ WaitedSinceEnqueued /\ TimeCounted

LEMMA TimeFields ==
    ASSUME QTyped
    PROVE  /\ now \in Int /\ time_last_updated_ \in Int /\ size_packets_ \in Int
           /\ queue_time_sum_ \in Int /\ pause_time_sum_ \in Int /\ paused_ \in BOOLEAN
           /\ PauseTimeNow \in Int /\ QueueTimeNow \in Int
  BY TimesTyped DEF QTyped, PauseTimeNow, QueueTimeNow

LEMMA ZeroTimes ==
    ASSUME NEW n \in Int
    PROVE  0 * n = 0
  OBVIOUS

\* Bringing the sums up to date changes neither time as it is read.
LEMMA UpdatedTimes ==
    ASSUME QTyped, TimesUpdated, now' = now, paused_' \in BOOLEAN, size_packets_' \in Int
    PROVE  PauseTimeNow' = PauseTimeNow /\ QueueTimeNow' = QueueTimeNow
<1>1. /\ pause_time_sum_' = PauseTimeNow /\ queue_time_sum_' = QueueTimeNow
      /\ time_last_updated_' = now
  BY DEF TimesUpdated, PauseTimeNow, QueueTimeNow
<1>2. now \in Int /\ PauseTimeNow \in Int /\ QueueTimeNow \in Int
  BY TimeFields
<1>3. PICK d, e : d = now' - time_last_updated_' /\ e = d * size_packets_'
  OBVIOUS
<1>4. d = 0 /\ e = 0
  <2>1. PICK n \in Int : n = size_packets_'
    OBVIOUS
  <2>2. d = 0
    BY <1>1, <1>2, <1>3
  <2>3. e = 0 * n
    BY <1>3, <2>1, <2>2, Zenon
  <2>4. QED
    BY <2>2, <2>3, ZeroTimes
<1>5. /\ PauseTimeNow' = pause_time_sum_' + (IF paused_' THEN d ELSE 0)
      /\ QueueTimeNow' = queue_time_sum_' + (IF paused_' THEN 0 ELSE e)
  BY <1>3, Zenon DEF PauseTimeNow, QueueTimeNow, PauseTimeAt, QueueTimeAt
<1>6. PauseTimeNow' = pause_time_sum_' + 0 /\ QueueTimeNow' = queue_time_sum_' + 0
  BY <1>4, <1>5
<1>7. QED
  BY <1>1, <1>2, <1>6

LEMMA PushWaits ==
    ASSUME TInv, NEW ssrc \in Ssrcs, NEW type \in Types, NEW size \in Sizes,
           Push(ssrc, type, size)
    PROVE  WaitedSinceEnqueued' /\ TimeCounted'
<1>1. QInv /\ QTyped /\ QInv'
  BY StepsKeep DEF TInv, QInv, Next
<1>2. PICK p \in Packets :
          /\ p.waited = 0 /\ p.enqueue_time = now - PauseTimeAt(now)
          /\ Sum(WaitedOf, Waiters') = Sum(WaitedOf, Waiters) + WaitedOf[p]
          /\ Waiters' \subseteq Promoted \cup {p}
  BY <1>1, WaitsAreIntegers, PushAdds
<1>3. PauseTimeNow' = PauseTimeNow /\ QueueTimeNow' = QueueTimeNow /\ now' = now
  <2>1. TimesUpdated /\ now' = now
    BY DEF Push
  <2>2. paused_' \in BOOLEAN /\ size_packets_' \in Int
    BY <1>1 DEF QInv, QTyped
  <2>3. QED
    BY <1>1, <2>1, <2>2, UpdatedTimes
<1>4. now \in Int /\ PauseTimeNow \in Int
  BY <1>1, TimeFields
<1>5. ASSUME NEW q \in Promoted PROVE q.waited = now - PauseTimeNow - q.enqueue_time
  <2>1. CASE Waiters = queue /\ Promoted = queue
    BY <2>1 DEF TInv, WaitedSinceEnqueued, PauseTimeNow
  <2>2. ASSUME NEW r \in Packets, Waiters = {r},
               Promoted = {[r EXCEPT !.in_times = r.enqueue_time]}
        PROVE  q.waited = now - PauseTimeNow - q.enqueue_time
    <3>1. q = [r EXCEPT !.in_times = r.enqueue_time]
      BY <2>2
    <3>2. q.waited = r.waited /\ q.enqueue_time = r.enqueue_time
      BY <3>1, PromotedPacket
    <3>3. r.waited = now - PauseTimeNow - r.enqueue_time
      BY <2>2 DEF TInv, WaitedSinceEnqueued, PauseTimeNow
    <3>4. QED
      BY <3>2, <3>3
  <2>3. QED
    BY <1>1, <2>1, <2>2, FastPathCases DEF QInv
<1>6. p.waited = now - PauseTimeNow - p.enqueue_time
  BY <1>2, <1>4 DEF PauseTimeNow
<1>7. \A q \in Waiters' : q.waited = now - PauseTimeNow - q.enqueue_time
  BY <1>2, <1>5, <1>6
<1>8. WaitedSinceEnqueued'
  BY <1>3, <1>7 DEF WaitedSinceEnqueued, PauseTimeNow
<1>9. Sum(WaitedOf, Waiters') = Sum(WaitedOf, Waiters)
  <2>1. WaitedOf[p] = 0
    BY <1>2 DEF WaitedOf
  <2>2. Sum(WaitedOf, Waiters) \in Int
    BY <1>1, WaitsAreIntegers, WaitersSum
  <2>3. QED
    BY <1>2, <2>1, <2>2
<1>10. TimeCounted'
  BY <1>3, <1>9 DEF TInv, TimeCounted, QueueTimeNow
<1>11. QED
  BY <1>8, <1>10

LEMMA OneFewer ==
    ASSUME NEW c \in Int, NEW n \in Int
    PROVE  c * (n - 1) = c * n - c
  OBVIOUS

LEMMA PopWaits ==
    ASSUME TInv, Pop
    PROVE  WaitedSinceEnqueued' /\ TimeCounted'
<1>1. QInv /\ QTyped
  BY DEF TInv, QInv
<1>2. /\ now' = now /\ pause_time_sum_' = pause_time_sum_ /\ paused_' = paused_
      /\ time_last_updated_' = time_last_updated_
  BY DEF Pop
<1>3. PauseTimeNow' = PauseTimeNow
  BY <1>2 DEF PauseTimeNow, PauseTimeAt
<1>4. /\ now \in Int /\ time_last_updated_ \in Int /\ size_packets_ \in Int
      /\ queue_time_sum_ \in Int /\ pause_time_sum_ \in Int /\ paused_ \in BOOLEAN
  BY <1>1, TimeFields
<1>5. CASE single_packet_queue_ # <<>>
  <2>1. /\ single_packet_queue_' = <<>> /\ queue_time_sum_' = 0 /\ size_packets_' = 0
        /\ queue' = queue /\ queue = {}
    BY <1>1, <1>5 DEF Pop, PopSingle, QInv, FastPathAlone
  <2>2. Waiters' = {}
    BY <2>1, NextWaiters
  <2>3. WaitedSinceEnqueued'
    BY <2>2 DEF WaitedSinceEnqueued
  <2>4. (now - time_last_updated_) * 0 = 0
    BY <1>4
  <2>5. QueueTimeNow' = 0
    BY <1>2, <1>4, <2>1, <2>4 DEF QueueTimeNow, QueueTimeAt
  <2>6. QED
    BY <2>2, <2>3, <2>5, SumEmpty DEF TimeCounted, QueueTimeNow
<1>6. CASE single_packet_queue_ = <<>>
  <2>1. PICK p \in Waiters :
            /\ p \in Packets /\ Waiters' = Waiters \ {p}
            /\ size_packets_' = size_packets_ - 1
            /\ queue_time_sum_' = queue_time_sum_
                                    - (time_last_updated_ - p.enqueue_time - pause_time_sum_)
            /\ Sum(WaitedOf, Waiters') = Sum(WaitedOf, Waiters) - WaitedOf[p]
    BY <1>1, <1>6, WaitsAreIntegers, PopTakes
  <2>2. WaitedSinceEnqueued'
    BY <1>2, <1>3, <2>1 DEF TInv, WaitedSinceEnqueued, PauseTimeNow
  <2>3. p.waited \in Int /\ p.enqueue_time \in Int /\ WaitedOf[p] = p.waited
    BY <2>1 DEF Packets, WaitedOf
  <2>4. p.waited = now - PauseTimeNow - p.enqueue_time
    BY <2>1 DEF TInv, WaitedSinceEnqueued, PauseTimeNow
  <2>5. (now - time_last_updated_) * (size_packets_ - 1)
          = (now - time_last_updated_) * size_packets_ - (now - time_last_updated_)
    BY <1>4, OneFewer
  <2>6. PICK t \in Int : t = (now - time_last_updated_) * size_packets_
    BY <1>4
  <2>7. QueueTimeNow' = QueueTimeNow - p.waited
    <3>1. CASE paused_ = TRUE
      <4>1. /\ QueueTimeNow = queue_time_sum_ + 0 /\ QueueTimeNow' = queue_time_sum_' + 0
            /\ PauseTimeNow = pause_time_sum_ + (now - time_last_updated_)
        BY <1>2, <3>1 DEF QueueTimeNow, QueueTimeAt, PauseTimeNow, PauseTimeAt
      <4> HIDE DEF QueueTimeNow, PauseTimeNow
      <4>2. QED
        BY <1>4, <2>1, <2>3, <2>4, <4>1
    <3>2. CASE paused_ = FALSE
      <4>1. /\ QueueTimeNow = queue_time_sum_ + t
            /\ PauseTimeNow = pause_time_sum_ + 0
        BY <2>6, <3>2 DEF QueueTimeNow, QueueTimeAt, PauseTimeNow, PauseTimeAt
      <4>2. QueueTimeNow' = queue_time_sum_' + (t - (now - time_last_updated_))
        <5>1. QueueTimeNow' = queue_time_sum_' + (now' - time_last_updated_') * size_packets_'
          BY <1>2, <3>2 DEF QueueTimeNow, QueueTimeAt
        <5>2. QED
          BY <1>2, <2>1, <2>5, <2>6, <5>1
      <4> HIDE DEF QueueTimeNow, PauseTimeNow
      <4>3. QED
        BY <1>4, <2>1, <2>3, <2>4, <4>1, <4>2
    <3>3. QED
      BY <1>4, <3>1, <3>2
  <2>8. TimeCounted'
    BY <2>1, <2>3, <2>7 DEF TInv, TimeCounted, QueueTimeNow
  <2>9. QED
    BY <2>2, <2>8
<1>7. QED
  BY <1>5, <1>6

\* The steps that change neither a time nor how long a packet has waited.
LEMMA OtherWaits ==
    ASSUME TInv, Waiters' = Waiters \/ Waiters' = Promoted,
           PauseTimeNow' = PauseTimeNow, QueueTimeNow' = QueueTimeNow, now' = now
    PROVE  WaitedSinceEnqueued' /\ TimeCounted'
<1>1. QInv
  BY DEF TInv
<1>2. \A q \in Waiters : q.waited = now - PauseTimeNow - q.enqueue_time
  BY DEF TInv, WaitedSinceEnqueued, PauseTimeNow
<1>3. ASSUME NEW q \in Promoted PROVE q.waited = now - PauseTimeNow - q.enqueue_time
  <2>1. CASE Waiters = queue /\ Promoted = queue
    BY <1>2, <2>1
  <2>2. ASSUME NEW r \in Packets, Waiters = {r},
               Promoted = {[r EXCEPT !.in_times = r.enqueue_time]}
        PROVE  q.waited = now - PauseTimeNow - q.enqueue_time
    <3>1. q = [r EXCEPT !.in_times = r.enqueue_time]
      BY <2>2
    <3>2. q.waited = r.waited /\ q.enqueue_time = r.enqueue_time
      BY <3>1, PromotedPacket
    <3>3. QED
      BY <1>2, <2>2, <3>2
  <2>3. QED
    BY <1>1, <2>1, <2>2, FastPathCases DEF QInv
<1>4. \A q \in Waiters' : q.waited = now - PauseTimeNow - q.enqueue_time
  BY <1>2, <1>3
<1>5. WaitedSinceEnqueued'
  BY <1>4 DEF WaitedSinceEnqueued, PauseTimeNow
<1>6. Sum(WaitedOf, Waiters') = Sum(WaitedOf, Waiters)
  BY <1>1, WaitsAreIntegers, PromotedSum
<1>7. TimeCounted'
  BY <1>6 DEF TInv, TimeCounted, QueueTimeNow
<1>8. QED
  BY <1>5, <1>7

LEMMA PauseWaits ==
    ASSUME TInv, \/ UpdateQueueTime \/ UNCHANGED vars
                 \/ \E paused \in BOOLEAN : SetPauseState(paused)
    PROVE  WaitedSinceEnqueued' /\ TimeCounted'
<1>1. QTyped /\ size_packets_ \in Int /\ paused_ \in BOOLEAN
  BY DEF TInv, QInv, QTyped
<1>2. /\ queue' = queue /\ single_packet_queue_' = single_packet_queue_ /\ now' = now
      /\ size_packets_' = size_packets_ /\ paused_' \in BOOLEAN
  BY <1>1 DEF UpdateQueueTime, SetPauseState, vars, contents
<1>3. Waiters' = Waiters
  BY <1>2 DEF Waiters, SinglePacket
<1>4. TimesUpdated \/ (UNCHANGED times /\ paused_' = paused_)
  BY DEF UpdateQueueTime, SetPauseState, vars
<1>5. PauseTimeNow' = PauseTimeNow /\ QueueTimeNow' = QueueTimeNow
  <2>1. CASE TimesUpdated
    BY <1>1, <1>2, <2>1, UpdatedTimes
  <2>2. CASE UNCHANGED times /\ paused_' = paused_
    BY <1>2, <2>2 DEF times, PauseTimeNow, QueueTimeNow, PauseTimeAt, QueueTimeAt
  <2>3. QED
    BY <1>4, <2>1, <2>2
<1>6. QED
  BY <1>2, <1>3, <1>5, OtherWaits

LEMMA OverheadWaits ==
    ASSUME TInv, SetIncludeOverhead \/ \E o \in Overheads : SetTransportOverhead(o)
    PROVE  WaitedSinceEnqueued' /\ TimeCounted'
<1>1. /\ queue' = Promoted /\ single_packet_queue_' = <<>> /\ now' = now
      /\ size_packets_' = size_packets_ /\ paused_' = paused_
      /\ queue_time_sum_' = queue_time_sum_ /\ pause_time_sum_' = pause_time_sum_
      /\ time_last_updated_' = time_last_updated_
  BY DEF SetIncludeOverhead, SetTransportOverhead, Promote, times
<1>2. Waiters' = Promoted
  BY <1>1, NextWaiters
<1>3. PauseTimeNow' = PauseTimeNow /\ QueueTimeNow' = QueueTimeNow
  BY <1>1 DEF PauseTimeNow, QueueTimeNow, PauseTimeAt, QueueTimeAt
<1>4. QED
  BY <1>1, <1>2, <1>3, OtherWaits

LEMMA OneMoreTick ==
    ASSUME NEW a \in Int, NEW b \in Int, NEW n \in Int
    PROVE  ((a + 1) - b) * n = (a - b) * n + n
<1>1. PICK c \in Int : c = a - b
  OBVIOUS
<1>2. (c + 1) * n = c * n + n
  OBVIOUS
<1>3. (a + 1) - b = c + 1
  BY <1>1
<1>4. QED
  BY <1>1, <1>2, <1>3

LEMMA TickWaits ==
    ASSUME TInv, Tick
    PROVE  WaitedSinceEnqueued' /\ TimeCounted'
<1>1. QInv /\ QTyped
  BY DEF TInv, QInv
<1>2. /\ now' = now + 1 /\ paused_' = paused_ /\ size_packets_' = size_packets_
      /\ queue_time_sum_' = queue_time_sum_ /\ pause_time_sum_' = pause_time_sum_
      /\ time_last_updated_' = time_last_updated_
  BY DEF Tick, times
<1>3. /\ now \in Int /\ time_last_updated_ \in Int /\ size_packets_ \in Int
      /\ queue_time_sum_ \in Int /\ pause_time_sum_ \in Int /\ paused_ \in BOOLEAN
      /\ PauseTimeNow \in Int /\ QueueTimeNow \in Int
  BY <1>1, TimeFields
<1>4. PICK c \in Int : c = IF paused_ THEN 0 ELSE 1
  BY <1>3
<1>5. now' - PauseTimeNow' = now - PauseTimeNow + c
  <2>1. CASE paused_ = TRUE
    <3>1. /\ PauseTimeNow' = pause_time_sum_ + ((now + 1) - time_last_updated_)
          /\ PauseTimeNow = pause_time_sum_ + (now - time_last_updated_) /\ c = 0
      BY <1>2, <1>4, <2>1 DEF PauseTimeNow, PauseTimeAt
    <3>2. QED
      BY <1>2, <1>3, <3>1
  <2>2. CASE paused_ = FALSE
    <3>1. PauseTimeNow' = pause_time_sum_ + 0 /\ PauseTimeNow = pause_time_sum_ + 0 /\ c = 1
      BY <1>2, <1>4, <2>2 DEF PauseTimeNow, PauseTimeAt
    <3>2. QED
      BY <1>2, <1>3, <3>1
  <2>3. QED
    BY <1>3, <2>1, <2>2
<1>6. ASSUME NEW p \in Packets
      PROVE  /\ Waiting(p).waited = p.waited + c /\ Waiting(p).enqueue_time = p.enqueue_time
             /\ WaitedOf[Waiting(p)] = WaitedOf[p] + c
  <2>1. PICK r : r = Waiting(p)
    OBVIOUS
  <2>2. /\ r \in Packets /\ r.enqueue_time = p.enqueue_time
        /\ r.waited = p.waited + (IF paused_ THEN 0 ELSE 1)
    BY <1>3, <2>1, WaitingPacket
  <2>3. WaitedOf[r] = r.waited /\ WaitedOf[p] = p.waited
    BY <2>2 DEF WaitedOf
  <2>4. QED
    BY <1>4, <2>1, <2>2, <2>3
<1>7. ASSUME NEW r \in Waiters' PROVE r.waited = now' - PauseTimeNow' - r.enqueue_time
  <2>1. Waiters' = Ticked(Waiters)
    BY <1>1, TickWaiters
  <2>2. PICK p \in Waiters : r = Waiting(p)
    BY <2>1 DEF Ticked
  <2>3. p \in Packets /\ p.waited \in Int /\ p.enqueue_time \in Int
    BY <1>1, WaitersTyped DEF QInv, Packets
  <2>4. p.waited = now - PauseTimeNow - p.enqueue_time
    BY DEF TInv, WaitedSinceEnqueued, PauseTimeNow
  <2>5. r.waited = p.waited + c /\ r.enqueue_time = p.enqueue_time
    BY <1>6, <2>2, <2>3
  <2>6. PICK a, b : a = now' - PauseTimeNow' /\ b = now - PauseTimeNow
    OBVIOUS
  <2>7. b \in Int /\ a = b + c /\ p.waited = b - p.enqueue_time
    BY <1>3, <1>5, <2>4, <2>6
  <2>8. r.waited = a - r.enqueue_time
    BY <2>3, <2>5, <2>7
  <2>9. QED
    BY <2>6, <2>8
<1>8. WaitedSinceEnqueued'
  BY <1>7 DEF WaitedSinceEnqueued, PauseTimeNow
<1>9. Sum(WaitedOf, Waiters') = Sum(WaitedOf, Waiters) + c * size_packets_
  <2>1. Sum(WaitedOf, Waiters') = Sum(WaitedOf, Waiters) + c * Cardinality(Waiters)
    BY <1>1, <1>6, WaitsAreIntegers, TickedSum
  <2>2. size_packets_ = Cardinality(Waiters)
    BY <1>1 DEF QInv
  <2>3. QED
    BY <2>1, <2>2
<1>10. QueueTimeNow' = QueueTimeNow + c * size_packets_
  <2>1. CASE paused_ = TRUE
    <3>1. QueueTimeNow' = queue_time_sum_ + 0 /\ QueueTimeNow = queue_time_sum_ + 0 /\ c = 0
      BY <1>2, <1>4, <2>1 DEF QueueTimeNow, QueueTimeAt
    <3>2. 0 * size_packets_ = 0
      BY <1>3, ZeroTimes
    <3>3. QED
      BY <1>3, <3>1, <3>2
  <2>2. CASE paused_ = FALSE
    <3>1. PICK t, u : /\ t = (now - time_last_updated_) * size_packets_
                      /\ u = ((now + 1) - time_last_updated_) * size_packets_
      OBVIOUS
    <3>2. u = t + size_packets_ /\ t \in Int
      BY <1>3, <3>1, OneMoreTick
    <3>3. QueueTimeNow' = queue_time_sum_ + u /\ QueueTimeNow = queue_time_sum_ + t /\ c = 1
      BY <1>2, <1>4, <2>2, <3>1 DEF QueueTimeNow, QueueTimeAt
    <3>4. 1 * size_packets_ = size_packets_
      BY <1>3
    <3>5. QED
      BY <1>3, <3>2, <3>3, <3>4
  <2>3. QED
    BY <1>3, <2>1, <2>2
<1>11. TimeCounted'
  BY <1>9, <1>10 DEF TInv, TimeCounted, QueueTimeNow
<1>12. QED
  BY <1>8, <1>11

LEMMA StepsWait ==
    ASSUME TInv, [Next]_vars
    PROVE  TInv'
<1>1. QInv'
  BY StepsKeep DEF TInv
<1>2. WaitedSinceEnqueued' /\ TimeCounted'
  BY PushWaits, PopWaits, PauseWaits, OverheadWaits, TickWaits DEF Next
<1>3. QED
  BY <1>1, <1>2 DEF TInv

LEMMA InvariantTimes ==
    ASSUME TInv
    PROVE  QueueTimeIsTimeWaited
<1>1. Waiters \in SUBSET Packets /\ IsFiniteSet(Waiters)
  BY WaitersTyped DEF TInv, QInv
<1>2. MapThenSumSet(LAMBDA p : p.waited, Waiters) = Sum(WaitedOf, Waiters)
  BY <1>1, SumOfWaits
<1>3. QED
  BY <1>2 DEF TInv, TimeCounted, QueueTimeIsTimeWaited

\* QueueTimeIsTimeWaited for any number of packets and any time: across pauses,
\* promotions and pops, queue_time_sum_ is the time the packets waited unpaused.
THEOREM TimeWaited == Spec => []QueueTimeIsTimeWaited
<1>1. Init => TInv
  <2> SUFFICES ASSUME Init PROVE TInv
    OBVIOUS
  <2>1. /\ QInv /\ queue = {} /\ single_packet_queue_ = <<>> /\ paused_ = FALSE
        /\ queue_time_sum_ = 0 /\ now = 0 /\ time_last_updated_ = 0 /\ size_packets_ = 0
    BY InitHolds DEF Init
  <2>2. Waiters = {}
    BY <2>1, SingleSet DEF Waiters
  <2>3. QueueTimeAt(now) = 0
    BY <2>1 DEF QueueTimeAt
  <2>4. QED
    BY <2>1, <2>2, <2>3, SumEmpty DEF TInv, TimeCounted, WaitedSinceEnqueued
<1>2. TInv /\ [Next]_vars => TInv'
  BY StepsWait
<1>3. TInv => QueueTimeIsTimeWaited
  BY InvariantTimes
<1>4. QED
  BY <1>1, <1>2, <1>3, PTL DEF Spec

-----------------------------------------------------------------------------
(* How long a stream is bypassed.                                          *)

\* The bytes that bypassed s, by the stream b that sent them.  A stream that sent
\* some has caught up, to kMaxLeadingSize of what s has sent, at its first packet.
Shares(b, s, bytes, sizes) ==
    /\ b \in [Ssrcs -> Nat]
    /\ bytes = Sum(b, Ssrcs \ {s})
    /\ \A o \in Ssrcs \ {s} :
           /\ b[o] <= kMaxLeadingSize + 2 * MaxPacketSize
           /\ b[o] # 0 => b[o] <= MaxPacketSize + kMaxLeadingSize + sizes[o] - sizes[s]

BypassedBy(s, b) == Shares(b, s, bypassed[s], stream_size)

\* What a packet of z bytes does to the size of stream o.
Sends(o, z, sizes) ==
    /\ \A u \in Ssrcs \ {o} : sizes[u] = stream_size[u]
    /\ sizes[o] >= stream_size[o] + z

BInv ==
    /\ QInv
    /\ \A s \in Ssrcs : stream_size[s] <= max_size_
    /\ transport_overhead_per_packet_ <= Max(Overheads)
    /\ \A s \in Ssrcs : \E b : BypassedBy(s, b)

\* The limits of the network: finitely many streams, sizes and overheads.
Bounded ==
    /\ IsFiniteSet(Ssrcs)
    /\ IsFiniteSet(Sizes) /\ Sizes # {}
    /\ IsFiniteSet(Overheads) /\ Overheads # {}

LEMMA Largest ==
    ASSUME Bounded
    PROVE  /\ Max(Sizes) \in Nat /\ \A z \in Sizes : z <= Max(Sizes)
           /\ Max(Overheads) \in Nat /\ \A o \in Overheads : o <= Max(Overheads)
           /\ HeadersSize \in Nat /\ MaxPacketSize \in Nat
<1>1. Sizes \in SUBSET Nat /\ Overheads \in SUBSET Nat /\ HeadersSize \in Nat
  BY QueueAssumption
<1>2. Max(Sizes) \in Sizes /\ \A z \in Sizes : z <= Max(Sizes)
  BY <1>1, LargestNatural DEF Bounded
<1>3. Max(Overheads) \in Overheads /\ \A o \in Overheads : o <= Max(Overheads)
  BY <1>1, LargestNatural DEF Bounded
<1>4. PICK m, n : m = Max(Sizes) /\ n = Max(Overheads)
  OBVIOUS
<1>5. m \in Nat /\ n \in Nat
  BY <1>1, <1>2, <1>3, <1>4
<1>6. MaxPacketSize = m + HeadersSize + n
  BY <1>4 DEF MaxPacketSize
<1>7. QED
  BY <1>1, <1>2, <1>3, <1>4, <1>5, <1>6

LEMMA PacketSizeBounded ==
    ASSUME Bounded, BInv, NEW p \in Packets
    PROVE  PacketSize(p) \in Nat /\ PacketSize(p) <= MaxPacketSize
<1>1. /\ p.size \in Sizes /\ p.size \in Nat /\ transport_overhead_per_packet_ \in Nat
      /\ include_overhead_ \in BOOLEAN
      /\ transport_overhead_per_packet_ <= Max(Overheads)
  BY QueueAssumption DEF BInv, QInv, QTyped, Packets
<1>2. /\ Max(Sizes) \in Nat /\ p.size <= Max(Sizes) /\ Max(Overheads) \in Nat
      /\ HeadersSize \in Nat
  BY <1>1, Largest
<1>3. CASE include_overhead_ = TRUE
  <2>1. PacketSize(p) = p.size + (HeadersSize + transport_overhead_per_packet_)
    BY <1>3 DEF PacketSize
  <2>2. QED
    BY <1>1, <1>2, <2>1 DEF MaxPacketSize
<1>4. CASE include_overhead_ = FALSE
  <2>1. PacketSize(p) = p.size + 0
    BY <1>4 DEF PacketSize
  <2>2. QED
    BY <1>1, <1>2, <2>1 DEF MaxPacketSize
<1>5. QED
  BY <1>1, <1>3, <1>4

\* A stream that nobody has bypassed.
LEMMA NobodyBypassed ==
    ASSUME Bounded, NEW s \in Ssrcs
    PROVE  \E b \in [Ssrcs -> Nat] : (\A o \in Ssrcs : b[o] = 0) /\ Sum(b, Ssrcs \ {s}) = 0
<1> DEFINE b == [o \in Ssrcs |-> 0]
<1>1. b \in [Ssrcs -> Nat] /\ \A o \in Ssrcs : b[o] = 0
  OBVIOUS
<1> HIDE DEF b
<1>2. IsFiniteSet(Ssrcs \ {s})
  BY FS_RemoveElement DEF Bounded
<1>3. Sum(b, Ssrcs \ {s}) = 0
  BY <1>1, <1>2, SumOfZeros
<1>4. QED
  BY <1>1, <1>3

LEMMA BypassIsPositive ==
    ASSUME Bounded
    PROVE  0 <= kMaxLeadingSize + 2 * MaxPacketSize
<1>1. kMaxLeadingSize \in Nat /\ MaxPacketSize \in Nat
  BY Largest, QueueAssumption
<1>2. QED
  BY <1>1

\* A packet of stream o passes s: unless it is more urgent, o had sent no more.
LEMMA PassedBy ==
    ASSUME Bounded, NEW s \in Ssrcs, NEW b, BypassedBy(s, b),
           stream_size \in [Ssrcs -> Nat], NEW sizes \in [Ssrcs -> Nat],
           NEW o \in Ssrcs, o # s, NEW z \in Nat, z <= MaxPacketSize, Sends(o, z, sizes),
           sizes[o] >= stream_size[s] - kMaxLeadingSize,
           NEW d \in Nat, d = 0 \/ (d = z /\ stream_size[o] <= stream_size[s])
    PROVE  \E c : Shares(c, s, bypassed[s] + d, sizes)
<1>1. /\ b \in [Ssrcs -> Nat] /\ bypassed[s] = Sum(b, Ssrcs \ {s})
      /\ \A u \in Ssrcs \ {s} :
             /\ b[u] <= kMaxLeadingSize + 2 * MaxPacketSize
             /\ b[u] # 0 => b[u] <= MaxPacketSize + kMaxLeadingSize + stream_size[u] - stream_size[s]
  BY DEF BypassedBy, Shares
<1>2. PICK k, m : k = kMaxLeadingSize /\ m = MaxPacketSize
  OBVIOUS
<1>3. k \in Nat /\ m \in Nat
  BY <1>2, Largest, QueueAssumption
<1> DEFINE c == [b EXCEPT ![o] = b[o] + d]
<1>4. c \in [Ssrcs -> Nat] /\ c[o] = b[o] + d /\ \A u \in Ssrcs \ {o} : c[u] = b[u]
  BY <1>1
<1> HIDE DEF c
<1>5. Sum(c, Ssrcs \ {s}) = Sum(b, Ssrcs \ {s}) + d
  <2>1. PICK S : S = Ssrcs \ {s}
    OBVIOUS
  <2>2. IsFiniteSet(S) /\ o \in S
    BY <2>1, FS_RemoveElement DEF Bounded
  <2>3. IntegersOn(b, S) /\ AgreeOn(c, b, S \ {o})
    BY <1>1, <1>4, <2>1 DEF IntegersOn, AgreeOn
  <2>4. Sum(c, S) = Sum(b, S) + d
    <3>1. PICK e \in Int : e = d
      OBVIOUS
    <3>2. c[o] = b[o] + e
      BY <1>4, <3>1
    <3>3. Sum(c, S) = Sum(b, S) + e
      BY <2>2, <2>3, <3>2, SumUpdated
    <3>4. QED
      BY <3>1, <3>3
  <2>5. QED
    BY <2>1, <2>4
<1>6. /\ stream_size[o] \in Nat /\ stream_size[s] \in Nat /\ sizes[o] \in Nat
      /\ sizes[s] = stream_size[s] /\ b[o] \in Nat /\ sizes[o] >= stream_size[o] + z
  BY <1>1 DEF Sends
<1>7. /\ b[o] <= k + 2 * m
      /\ b[o] # 0 => b[o] <= m + k + stream_size[o] - stream_size[s]
  BY <1>1, <1>2
<1>8. /\ c[o] <= k + 2 * m
      /\ c[o] # 0 => c[o] <= m + k + sizes[o] - sizes[s]
  <2>1. CASE d = 0
    BY <1>2, <1>3, <1>4, <1>6, <1>7, <2>1
  <2>2. CASE d = z /\ stream_size[o] <= stream_size[s]
    BY <1>2, <1>3, <1>4, <1>6, <1>7, <2>2
  <2>3. QED
    BY <2>1, <2>2
<1>9. ASSUME NEW u \in Ssrcs \ {s}
      PROVE  /\ c[u] <= k + 2 * m
             /\ c[u] # 0 => c[u] <= m + k + sizes[u] - sizes[s]
  <2>1. CASE u = o
    BY <1>8, <2>1
  <2>2. CASE u # o
    <3>1. c[u] = b[u] /\ sizes[u] = stream_size[u] /\ sizes[s] = stream_size[s]
      BY <1>4, <1>6, <2>2 DEF Sends
    <3>2. /\ b[u] <= k + 2 * m
          /\ b[u] # 0 => b[u] <= m + k + stream_size[u] - stream_size[s]
      BY <1>1, <1>2
    <3>3. QED
      BY <3>1, <3>2
  <2>3. QED
    BY <2>1, <2>2
<1>10. Shares(c, s, bypassed[s] + d, sizes)
  BY <1>1, <1>2, <1>4, <1>5, <1>9 DEF Shares
<1>11. QED
  BY <1>10

LEMMA PopBypasses ==
    ASSUME Bounded, BInv, Pop, single_packet_queue_ = <<>>
    PROVE  /\ \A s \in Ssrcs : stream_size'[s] <= max_size_'
           /\ \A s \in Ssrcs : (\E b : BypassedBy(s, b))'
<1> DEFINE o == stream_priorities_[1].ssrc
           p == Top(Of(queue, o))
           z == PacketSize(p)
           sent == SentSize(o, z)
           others == Unscheduled(stream_priorities_, o)
<1>1. /\ stream_size' = [stream_size EXCEPT ![o] = sent]
      /\ max_size_' = Max({max_size_, sent})
      /\ bypassed' = Bypassing(p, others)
      /\ size_packets_ > 0
  BY DEF Pop, PopNormal
<1>2. QInv /\ QTyped /\ stream_size \in [Ssrcs -> Nat] /\ max_size_ \in Nat
  BY DEF BInv, QInv, QTyped
<1>3. o \in Ssrcs /\ p \in queue /\ p \in Packets /\ p.ssrc = o
  BY <1>1, <1>2, PopServes
<1>4. z \in Nat /\ z <= MaxPacketSize /\ kMaxLeadingSize \in Nat
  BY <1>3, PacketSizeBounded, QueueAssumption
<1>5. sent \in Nat /\ sent >= stream_size[o] + z /\ sent >= max_size_ - kMaxLeadingSize
  <2>1. PICK i, j : i = stream_size[o] + z /\ j = max_size_ - kMaxLeadingSize
    OBVIOUS
  <2>2. sent = Max({i, j})
    BY <2>1 DEF SentSize
  <2> HIDE DEF z, o, p, sent
  <2>3. i \in Nat /\ i \in Int /\ j \in Int
    BY <1>2, <1>3, <1>4, <2>1
  <2>4. Max({i, j}) \in {i, j} /\ Max({i, j}) >= i /\ Max({i, j}) >= j
    BY <2>3, MaxOfTwo, Zenon
  <2>5. QED
    BY <2>1, <2>2, <2>3, <2>4
<1>6. stream_size'[o] = sent /\ stream_size' \in [Ssrcs -> Nat]
      /\ \A u \in Ssrcs \ {o} : stream_size'[u] = stream_size[u]
  BY <1>1, <1>2, <1>3, <1>5
<1>7. max_size_' \in Nat /\ max_size_' >= max_size_ /\ max_size_' >= sent
  <2> HIDE DEF z, o, p, sent
  <2>1. max_size_ \in Int /\ sent \in Int
    BY <1>2, <1>5
  <2>2. /\ Max({max_size_, sent}) \in {max_size_, sent}
        /\ Max({max_size_, sent}) >= max_size_ /\ Max({max_size_, sent}) >= sent
    BY <2>1, MaxOfTwo, Zenon
  <2>3. QED
    BY <1>1, <1>2, <1>5, <2>2
<1>8. ASSUME NEW s \in Ssrcs
      PROVE  bypassed'[s] = IF s = o \/ Scheduled(others, s) = {} THEN 0
                            ELSE bypassed[s] +
                                 (IF \E i \in Scheduled(others, s) :
                                         Priority[p.type] < others[i].priority
                                  THEN 0 ELSE z)
  BY <1>1, <1>3 DEF Bypassing
<1>9. ASSUME NEW s \in Ssrcs, s # o, Scheduled(others, s) # {},
             ~\E i \in Scheduled(others, s) : Priority[p.type] < others[i].priority
      PROVE  stream_size[o] <= stream_size[s]
  <2>1. Schedules(stream_priorities_, queue, stream_size)
    BY <1>2 DEF QInv
  <2>2. PICK R : R = {q \in queue : q.ssrc # o}
    OBVIOUS
  <2>3. Schedules(others, R, stream_size)
    BY <1>3, <2>1, <2>2, UnscheduledStream
  <2>4. PICK i \in Scheduled(others, s) : TRUE
    BY <1>9
  <2>5. /\ i \in 1 .. Len(others) /\ others[i].ssrc = s /\ others \in Seq(Entries)
        /\ Urgency(others[i].priority, Of(R, s))
    BY <2>3 DEF Scheduled, Schedules
  <2>6. Of(R, s) = Of(queue, s)
    BY <1>9, <2>2 DEF Of
  <2>7. Of(queue, s) # {}
    BY <2>5, <2>6 DEF Urgency
  <2>8. PICK j \in 1 .. Len(stream_priorities_) : stream_priorities_[j].ssrc = s
    BY <2>1, <2>7 DEF Schedules, Scheduled
  <2>9. /\ stream_priorities_ \in Seq(Entries) /\ InOrder(stream_priorities_)
        /\ Urgency(stream_priorities_[j].priority, Of(queue, s))
        /\ stream_priorities_[j].size = stream_size[s]
    BY <2>1, <2>8 DEF Schedules
  <2>10. stream_priorities_[j].priority = others[i].priority
    <3>1. Of(queue, s) \in SUBSET Packets
      BY <1>2 DEF QTyped, Of
    <3>2. QED
      BY <2>5, <2>6, <2>9, <3>1, UrgencyIsUnique
  <2>11. 1 \in 1 .. Len(stream_priorities_) /\ 1 < j
    <3>1. j \in 1 .. Len(stream_priorities_) /\ j # 1
      BY <1>9, <2>8
    <3>2. QED
      BY <2>9, <3>1
  <2>12. /\ stream_priorities_[1].size = stream_size[o]
         /\ Urgency(stream_priorities_[1].priority, Of(queue, o))
    BY <2>1, <2>11 DEF Schedules
  <2>13. stream_priorities_[1].priority = Priority[p.type]
    <3>1. Of(queue, o) \in SUBSET Packets /\ Of(queue, o) # {} /\ OrdersDiffer(Of(queue, o))
      BY <1>2, <1>3 DEF QInv, QTyped, Of, OrdersDiffer, Waiters
    <3>2. Urgency(Priority[p.type], Of(queue, o))
      BY <3>1, TopIsMostUrgent
    <3>3. QED
      BY <2>12, <3>1, <3>2, UrgencyIsUnique
  <2>14. NotAfter(stream_priorities_[1], stream_priorities_[j].priority, stream_priorities_[j].size)
    BY <2>8, <2>9, <2>11 DEF InOrder
  <2>15. ~(stream_priorities_[1].priority < stream_priorities_[j].priority)
    BY <1>9, <2>4, <2>10, <2>13
  <2>16. QED
    BY <2>9, <2>12, <2>14, <2>15 DEF NotAfter
<1> HIDE DEF o, p, z, sent, others
<1>10. ASSUME NEW s \in Ssrcs PROVE stream_size'[s] <= max_size_'
  <2>1. stream_size[s] <= max_size_ /\ stream_size[s] \in Nat
    BY <1>2 DEF BInv
  <2>2. CASE s = o
    BY <1>5, <1>6, <1>7, <2>2
  <2>3. CASE s # o
    BY <1>2, <1>6, <1>7, <2>1, <2>3
  <2>4. QED
    BY <2>2, <2>3
<1>11. ASSUME NEW s \in Ssrcs PROVE (\E b : BypassedBy(s, b))'
  <2>1. CASE s = o \/ Scheduled(others, s) = {}
    <3>1. bypassed'[s] = 0
      BY <1>8, <2>1
    <3>2. PICK b \in [Ssrcs -> Nat] : (\A u \in Ssrcs : b[u] = 0) /\ Sum(b, Ssrcs \ {s}) = 0
      BY NobodyBypassed
    <3>3. BypassedBy(s, b)'
      BY <3>1, <3>2, BypassIsPositive DEF BypassedBy, Shares
    <3>4. QED
      BY <3>3
  <2>2. CASE ~(s = o \/ Scheduled(others, s) = {})
    <3>1. PICK d \in Nat : /\ bypassed'[s] = bypassed[s] + d
                           /\ d = 0 \/ (d = z /\ stream_size[o] <= stream_size[s])
      BY <1>4, <1>8, <1>9, <2>2
    <3>2. PICK b : BypassedBy(s, b)
      BY DEF BInv
    <3>3. sent >= stream_size[s] - kMaxLeadingSize
      <4>1. stream_size[s] <= max_size_ /\ stream_size[s] \in Nat
        BY <1>2 DEF BInv
      <4>2. QED
        BY <1>2, <1>4, <1>5, <4>1
    <3>4. PICK sizes : sizes = stream_size'
      OBVIOUS
    <3>5. /\ sizes \in [Ssrcs -> Nat] /\ Sends(o, z, sizes) /\ o # s
          /\ sizes[o] >= stream_size[s] - kMaxLeadingSize
      BY <1>5, <1>6, <2>2, <3>3, <3>4 DEF Sends
    <3>6. PICK c : Shares(c, s, bypassed[s] + d, sizes)
      BY <1>2, <1>3, <1>4, <3>1, <3>2, <3>5, PassedBy
    <3>7. BypassedBy(s, c)'
      BY <3>1, <3>4, <3>6 DEF BypassedBy
    <3>8. QED
      BY <3>7
  <2>3. QED
    BY <2>1, <2>2
<1>12. QED
  BY <1>10, <1>11

LEMMA StepsBypass ==
    ASSUME Bounded, BInv, [Next]_vars
    PROVE  BInv'
<1>1. QInv'
  BY StepsKeep DEF BInv
<1>2. transport_overhead_per_packet_' <= Max(Overheads)
  <2>1. CASE \E o \in Overheads : SetTransportOverhead(o)
    BY <2>1, Largest DEF SetTransportOverhead
  <2>2. CASE ~\E o \in Overheads : SetTransportOverhead(o)
    <3>1. transport_overhead_per_packet_' = transport_overhead_per_packet_
      BY <2>2 DEF Next, Push, Pop, UpdateQueueTime, SetPauseState, SetIncludeOverhead, Tick,
                  vars, overhead
    <3>2. QED
      BY <3>1 DEF BInv
  <2>3. QED
    BY <2>1, <2>2
<1>3. /\ \A s \in Ssrcs : stream_size'[s] <= max_size_'
      /\ \A s \in Ssrcs : (\E b : BypassedBy(s, b))'
  <2>1. CASE Pop /\ single_packet_queue_ = <<>>
    BY <2>1, PopBypasses
  <2>2. CASE Pop /\ single_packet_queue_ # <<>>
    <3>1. /\ stream_size' = stream_size /\ max_size_' = max_size_
          /\ bypassed' = [s \in Ssrcs |-> 0]
      BY <2>2 DEF Pop, PopSingle
    <3>2. ASSUME NEW s \in Ssrcs PROVE (\E b : BypassedBy(s, b))'
      <4>1. bypassed'[s] = 0
        BY <3>1
      <4>2. PICK b \in [Ssrcs -> Nat] : (\A u \in Ssrcs : b[u] = 0) /\ Sum(b, Ssrcs \ {s}) = 0
        BY NobodyBypassed
      <4>3. BypassedBy(s, b)'
        BY <4>1, <4>2, BypassIsPositive DEF BypassedBy, Shares
      <4>4. QED
        BY <4>3
    <3>3. QED
      BY <3>1, <3>2 DEF BInv
  <2>3. CASE ~Pop
    <3>1. /\ stream_size' = stream_size /\ max_size_' = max_size_ /\ bypassed' = bypassed
      BY <2>3 DEF Next, Push, UpdateQueueTime, SetPauseState, SetIncludeOverhead,
                  SetTransportOverhead, Tick, vars, schedule
    <3>2. ASSUME NEW s \in Ssrcs PROVE (\E b : BypassedBy(s, b))'
      <4>1. PICK b : BypassedBy(s, b)
        BY DEF BInv
      <4>2. BypassedBy(s, b)'
        BY <3>1, <4>1 DEF BypassedBy
      <4>3. QED
        BY <4>2
    <3>3. QED
      BY <3>1, <3>2 DEF BInv
  <2>4. QED
    BY <2>1, <2>2, <2>3
<1>4. QED
  BY <1>1, <1>2, <1>3 DEF BInv

LEMMA InvariantBypass ==
    ASSUME Bounded, BInv
    PROVE  BoundedBypass
<1> SUFFICES ASSUME NEW s \in Ssrcs
             PROVE  bypassed[s] <= (Cardinality(Ssrcs) - 1) * (kMaxLeadingSize + 2 * MaxPacketSize)
  BY DEF BoundedBypass
<1>1. PICK b : Shares(b, s, bypassed[s], stream_size)
  BY DEF BInv, BypassedBy
<1>2. PICK m, S : m = kMaxLeadingSize + 2 * MaxPacketSize /\ S = Ssrcs \ {s}
  OBVIOUS
<1>3. m \in Int
  <2>1. kMaxLeadingSize \in Nat /\ MaxPacketSize \in Nat
    BY Largest, QueueAssumption
  <2>2. QED
    BY <1>2, <2>1
<1>4. IsFiniteSet(S) /\ Cardinality(S) = Cardinality(Ssrcs) - 1 /\ Cardinality(S) \in Nat
  BY <1>2, FS_RemoveElement, FS_CardinalityType DEF Bounded
<1>5. IntegersOn(b, S) /\ bypassed[s] = Sum(b, S)
  BY <1>1, <1>2 DEF Shares, IntegersOn
<1>6. \A o \in S : b[o] <= m
  BY <1>1, <1>2 DEF Shares
<1>7. Sum(b, S) <= m * Cardinality(S)
  BY <1>3, <1>4, <1>5, <1>6, SumBounded
<1>8. m * Cardinality(S) = Cardinality(S) * m
  BY <1>3, <1>4
<1>9. bypassed[s] <= Cardinality(S) * m
  BY <1>5, <1>7, <1>8
<1>10. QED
  BY <1>2, <1>4, <1>9

\* BoundedBypass for any number of streams and any sizes: a waiting stream is
\* passed by every other stream for at most kMaxLeadingSize and two packets.
THEOREM BypassIsBounded ==
    ASSUME Bounded
    PROVE  Spec => []BoundedBypass
<1>1. Init => BInv
  <2> SUFFICES ASSUME Init PROVE BInv
    OBVIOUS
  <2>1. QInv
    BY InitHolds
  <2>2. \A s \in Ssrcs : stream_size[s] <= max_size_ /\ bypassed[s] = 0
    BY QueueAssumption DEF Init
  <2>3. transport_overhead_per_packet_ <= Max(Overheads)
    BY Largest DEF Init
  <2>4. ASSUME NEW s \in Ssrcs PROVE \E b : BypassedBy(s, b)
    <3>1. PICK b \in [Ssrcs -> Nat] : (\A u \in Ssrcs : b[u] = 0) /\ Sum(b, Ssrcs \ {s}) = 0
      BY NobodyBypassed
    <3>2. BypassedBy(s, b)
      BY <2>2, <3>1, BypassIsPositive DEF BypassedBy, Shares
    <3>3. QED
      BY <3>2
  <2>5. QED
    BY <2>1, <2>2, <2>3, <2>4 DEF BInv
<1>2. BInv /\ [Next]_vars => BInv'
  BY StepsBypass
<1>3. BInv => BoundedBypass
  BY InvariantBypass
<1>4. QED
  BY <1>1, <1>2, <1>3, PTL DEF Spec
=============================================================================
