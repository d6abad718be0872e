----------------------- MODULE UsrsctpTransportProofs -----------------------
(* Proofs about UsrsctpTransport, for any streams, messages and limits: the  *)
(* types and the room in usrsctp's buffer, then the balance of the resets    *)
(* (ResetsInv), from which a buffered message's stream is known and a remote *)
(* close is real, and last the way of the data (DataInv), from which closing *)
(* a stream loses nothing.  The sums of units are those of SetSums.          *)
EXTENDS UsrsctpTransport, SetSums, SequenceTheorems

\* The chunks of data in a queue have a length.
Measured(o) == \A i \in 1 .. Len(o) : o[i].kind = "data" => o[i].units \in Nat

LEMMA HeldIsSum ==
    ASSUME NEW o
    PROVE  Held(o) = Sum(Units(o), DOMAIN o)
<1>1. DOMAIN Units(o) = DOMAIN o
  BY DEF Units
<1>2. QED
  BY <1>1, Zenon DEF Held, Sum, SumFunction, SumFunctionOnSet, FoldFunctionOnSet, MapThenSumSet

LEMMA UnitsAreNaturals ==
    ASSUME NEW S, NEW o \in Seq(S), Measured(o)
    PROVE  /\ Len(o) \in Nat /\ DOMAIN o = 1 .. Len(o) /\ IsFiniteSet(1 .. Len(o))
           /\ \A i \in 1 .. Len(o) : Units(o)[i] \in Nat
<1>1. Len(o) \in Nat /\ DOMAIN o = 1 .. Len(o)
  OBVIOUS
<1>2. IsFiniteSet(1 .. Len(o))
  BY <1>1, FS_Interval
<1>3. \A i \in 1 .. Len(o) : Units(o)[i] \in Nat
  BY <1>1 DEF Units, Measured
<1>4. QED
  BY <1>1, <1>2, <1>3

LEMMA HeldTyped ==
    ASSUME NEW S, NEW o \in Seq(S), Measured(o)
    PROVE  Held(o) \in Nat
BY HeldIsSum, UnitsAreNaturals, SumOfNaturals

\* A sum over positions, with one more at the end or at the beginning.
LEMMA SumAppended ==
    ASSUME NEW l \in Nat, NEW v, NEW w, v[l + 1] \in Nat,
           \A i \in 1 .. l : v[i] = w[i] /\ w[i] \in Nat
    PROVE  Sum(v, 1 .. (l + 1)) = Sum(w, 1 .. l) + v[l + 1] /\ Sum(w, 1 .. l) \in Nat
<1>1. IsFiniteSet(1 .. l)
  BY FS_Interval
<1>2. 1 .. (l + 1) = (1 .. l) \cup {l + 1} /\ l + 1 \notin 1 .. l
  OBVIOUS
<1>3. IntegersOn(w, 1 .. l) /\ AgreeOn(v, w, 1 .. l) /\ IntegersOn(v, (1 .. l) \cup {l + 1})
  BY DEF IntegersOn, AgreeOn
<1>4. Sum(v, (1 .. l) \cup {l + 1}) = v[l + 1] + Sum(v, 1 .. l)
  BY <1>1, <1>2, <1>3, SumAdd
<1>5. Sum(v, 1 .. l) = Sum(w, 1 .. l) /\ Sum(w, 1 .. l) \in Nat
  <2>1. Sum(v, 1 .. l) = Sum(w, 1 .. l)
    BY <1>1, <1>3, SumAgree
  <2>2. Sum(w, 1 .. l) \in Nat
    BY <1>1, SumOfNaturals
  <2>3. QED
    BY <2>1, <2>2
<1>6. PICK n \in Nat, a \in Nat : n = v[l + 1] /\ a = Sum(w, 1 .. l)
  BY <1>5
<1>7. Sum(v, 1 .. (l + 1)) = n + a
  BY <1>2, <1>4, <1>5, <1>6
<1>8. n + a = a + n
  OBVIOUS
<1>9. QED
  BY <1>6, <1>7, <1>8

LEMMA SumShifted ==
    ASSUME NEW l \in Nat, NEW v, NEW w, v[1] \in Nat,
           \A i \in 1 .. l : v[i + 1] = w[i] /\ w[i] \in Nat
    PROVE  Sum(v, 1 .. (l + 1)) = v[1] + Sum(w, 1 .. l) /\ Sum(w, 1 .. l) \in Nat
<1>1. PICK f : f = [i \in 1 .. l |-> i + 1]
  OBVIOUS
<1>2. IsFiniteSet(1 .. l) /\ IsFiniteSet(1 .. (l + 1))
  BY FS_Interval
<1>3. \A x \in (1 .. (l + 1)) \ {1} : \E i \in 1 .. l : x = i + 1
  <2>1. SUFFICES ASSUME NEW x \in (1 .. (l + 1)) \ {1} PROVE \E i \in 1 .. l : x = i + 1
    OBVIOUS
  <2>2. x - 1 \in 1 .. l /\ x = (x - 1) + 1
    BY <2>1
  <2>3. QED
    BY <2>2
<1>4. ImageOf(f, 1 .. l) = (1 .. (l + 1)) \ {1}
  <2>1. \A i \in 1 .. l : i + 1 \in (1 .. (l + 1)) \ {1}
    OBVIOUS
  <2>2. QED
    BY <1>1, <1>3, <2>1 DEF ImageOf
<1>5. /\ IntegersOn(w, 1 .. l) /\ IntegersOn(v, 1 .. (l + 1))
      /\ InjectiveOn(f, 1 .. l) /\ ShiftedBy(v, f, w, 0, 1 .. l)
  <2>1. \A x \in 1 .. (l + 1) : v[x] \in Nat
    <3>1. \A x \in (1 .. (l + 1)) \ {1} : v[x] \in Nat
      BY <1>3
    <3>2. QED
      BY <3>1
  <2>2. IntegersOn(w, 1 .. l) /\ IntegersOn(v, 1 .. (l + 1))
    BY <2>1 DEF IntegersOn
  <2>3. InjectiveOn(f, 1 .. l)
    BY <1>1 DEF InjectiveOn
  <2>4. ShiftedBy(v, f, w, 0, 1 .. l)
    BY <1>1 DEF ShiftedBy
  <2>5. QED
    BY <2>2, <2>3, <2>4
<1>6. Sum(w, 1 .. l) \in Nat
  BY <1>2, SumOfNaturals
<1>7. Sum(v, (1 .. (l + 1)) \ {1}) = Sum(w, 1 .. l)
  <2>1. Sum(v, ImageOf(f, 1 .. l)) = Sum(w, 1 .. l) + 0 * Cardinality(1 .. l)
    BY <1>2, <1>5, SumImage
  <2>2. PICK a \in Nat, n \in Nat : a = Sum(w, 1 .. l) /\ n = Cardinality(1 .. l)
    BY <1>2, <1>6, FS_CardinalityType
  <2>3. a + 0 * n = a
    OBVIOUS
  <2>4. QED
    BY <1>4, <2>1, <2>2, <2>3, Zenon
<1>8. Sum(v, 1 .. (l + 1)) = v[1] + Sum(v, (1 .. (l + 1)) \ {1})
  <2>1. 1 \in 1 .. (l + 1)
    OBVIOUS
  <2>2. QED
    BY <1>2, <1>5, <2>1, SumRemove
<1>9. QED
  BY <1>6, <1>7, <1>8, Zenon

\* Put behind a queue, a chunk adds its length.
LEMMA HeldAppend ==
    ASSUME NEW S, NEW o \in Seq(S), Measured(o), NEW c \in S, NEW n \in Nat,
           n = IF c.kind = "data" THEN c.units ELSE 0
    PROVE  Measured(Append(o, c)) /\ Held(Append(o, c)) = Held(o) + n
<1>1. PICK l \in Nat : l = Len(o)
  OBVIOUS
<1>2. PICK q \in Seq(S) : q = Append(o, c)
  <2>1. Append(o, c) \in Seq(S)
    OBVIOUS
  <2>2. QED
    BY <2>1, Zenon
<1>3. /\ Len(q) = l + 1 /\ q[l + 1] = c /\ \A i \in 1 .. l : q[i] = o[i]
      /\ DOMAIN q = 1 .. (l + 1) /\ DOMAIN o = 1 .. l
  BY <1>1, <1>2
<1>4. Measured(q)
  BY <1>1, <1>3 DEF Measured
<1>5. PICK v : v = Units(q)
  OBVIOUS
<1>6. PICK w : w = Units(o)
  OBVIOUS
<1>7. v[l + 1] = n /\ \A i \in 1 .. l : v[i] = w[i] /\ w[i] \in Nat
  BY <1>1, <1>3, <1>5, <1>6 DEF Units, Measured
<1>8. Held(q) = Sum(v, 1 .. (l + 1)) /\ Held(o) = Sum(w, 1 .. l)
  BY <1>3, <1>5, <1>6, HeldIsSum
<1>9. Sum(v, 1 .. (l + 1)) = Sum(w, 1 .. l) + v[l + 1]
  BY <1>7, SumAppended
<1>10. QED
  BY <1>2, <1>4, <1>7, <1>8, <1>9

\* Without its first chunk a queue is shorter by the length of that.
LEMMA HeldTail ==
    ASSUME NEW S, NEW o \in Seq(S), Measured(o), o # <<>>
    PROVE  /\ Measured(Tail(o)) /\ Held(Tail(o)) \in Nat /\ Held(o) \in Nat
           /\ Held(Tail(o)) <= Held(o)
           /\ Held(o) = (IF Head(o).kind = "data" THEN Head(o).units ELSE 0) + Held(Tail(o))
<1>1. PICK l \in Nat : l + 1 = Len(o)
  <2>1. Len(o) \in Nat /\ Len(o) # 0
    OBVIOUS
  <2>2. QED
    BY <2>1
<1>2. PICK q \in Seq(S) : q = Tail(o)
  <2>1. Tail(o) \in Seq(S)
    OBVIOUS
  <2>2. QED
    BY <2>1, Zenon
<1>3. /\ Len(q) = l /\ DOMAIN q = 1 .. l /\ DOMAIN o = 1 .. (l + 1) /\ Head(o) = o[1]
      /\ \A i \in 1 .. l : q[i] = o[i + 1]
  BY <1>1, <1>2
<1>4. Measured(q)
  BY <1>1, <1>3 DEF Measured
<1>5. PICK v : v = Units(o)
  OBVIOUS
<1>6. PICK w : w = Units(q)
  OBVIOUS
<1>7. 1 \in 1 .. (l + 1) /\ \A i \in 1 .. l : i + 1 \in 1 .. (l + 1)
  OBVIOUS
<1>8. /\ \A i \in 1 .. l : v[i + 1] = w[i] /\ w[i] \in Nat
      /\ v[1] \in Nat /\ v[1] = IF Head(o).kind = "data" THEN Head(o).units ELSE 0
  <2>1. \A i \in 1 .. (l + 1) : v[i] \in Nat
    BY <1>1, <1>5, UnitsAreNaturals
  <2>2. \A i \in 1 .. l : v[i + 1] = w[i]
    BY <1>3, <1>5, <1>6, <1>7 DEF Units
  <2>3. v[1] = IF Head(o).kind = "data" THEN Head(o).units ELSE 0
    BY <1>3, <1>5, <1>7 DEF Units
  <2>4. QED
    BY <1>7, <2>1, <2>2, <2>3
<1>9. Sum(v, 1 .. (l + 1)) = v[1] + Sum(w, 1 .. l) /\ Sum(w, 1 .. l) \in Nat
  BY <1>8, SumShifted
<1>10. Held(o) = Sum(v, 1 .. (l + 1)) /\ Held(q) = Sum(w, 1 .. l)
  BY <1>3, <1>5, <1>6, HeldIsSum
<1>11. PICK a \in Nat, b \in Nat : a = v[1] /\ b = Held(q) /\ Held(o) = a + b
  BY <1>8, <1>9, <1>10
<1>12. b <= a + b /\ a + b \in Nat
  OBVIOUS
<1>13. QED
  BY <1>2, <1>4, <1>8, <1>11, <1>12
-----------------------------------------------------------------------------
(* The two ends, and the maps of streams.                                    *)

LEMMA PeerFacts ==
    ASSUME NEW p \in Peers
    PROVE  /\ Peer(p) \in Peers /\ Peer(p) # p /\ Peer(Peer(p)) = p
           /\ \A r \in Peers : r = p \/ r = Peer(p)
<1>1. PICK a \in Peers, b \in Peers : a # b /\ Peers = {a, b}
  BY SctpConstants
<1>2. \A r \in Peers : Peer(r) \in Peers /\ Peer(r) # r
  <2>1. SUFFICES ASSUME NEW r \in Peers PROVE Peer(r) \in Peers /\ Peer(r) # r
    OBVIOUS
  <2>2. \E q \in Peers : q # r
    BY <1>1
  <2>3. QED
    BY <2>2, Zenon DEF Peer
<1>3. QED
  BY <1>1, <1>2

LEMMA StatusMaps ==
    ASSUME NEW f
    PROVE  f \in StatusMap <=> DOMAIN f \subseteq Sids /\ f \in [DOMAIN f -> StreamStatus]
BY DEF StatusMap

LEMMA LeastOfTwo ==
    ASSUME NEW a \in Int, NEW b \in Int
    PROVE  Min({a, b}) \in {a, b} /\ Min({a, b}) <= a /\ Min({a, b}) <= b
<1>1. \E x \in {a, b} : \A y \in {a, b} : x <= y
  OBVIOUS
<1>2. /\ Min({a, b}) \in {a, b}
      /\ \A y \in {a, b} : Min({a, b}) <= y
  BY <1>1, Zenon DEF Min
<1>3. QED
  BY <1>2
-----------------------------------------------------------------------------
(* Sending.                                                                  *)

\* What is taken of a message fits into the buffer and into the message.
LEMMA TakenFits ==
    ASSUME TypeOK, RoomKept, NEW p \in Peers, NEW m, m.left \in Nat, m.sid \in Sids, m.id \in Nat
    PROVE  /\ Taken(p, m) \in 0 .. DataLength(m) /\ DataLength(m) \in Nat
           /\ Left(p, m) \in Nat /\ (Left(p, m) = 0 /\ m.left > 0 => Taken(p, m) = m.left)
           /\ Left(p, m) <= m.left
           /\ (Taken(p, m) > 0 /\ m.left > 0 => Left(p, m) < m.left)
           /\ SentOn(p, m) \in Seq(Chunk)
           /\ Held(SentOn(p, m)) <= kSctpSendBufferSize
<1>1. PICK o \in Seq(Chunk) : o = out[p]
  BY DEF TypeOK
<1>2. Measured(o)
  BY DEF Measured, Chunk, DataChunk
<1>3. PICK h \in Nat : h = Held(o)
  BY <1>2, HeldTyped
<1>4. PICK k \in Nat : k = kSctpSendBufferSize
  BY SctpConstants
<1>5. h <= k
  BY <1>1, <1>3, <1>4 DEF RoomKept
<1>6. PICK d \in Nat : d = DataLength(m) /\ d > 0 /\ (m.left > 0 => d = m.left)
  <2>1. DataLength(m) \in Nat /\ DataLength(m) > 0 /\ (m.left > 0 => DataLength(m) = m.left)
    BY DEF DataLength
  <2>2. QED
    BY <2>1
<1>7. PICK t \in 0 .. d : t = Taken(p, m) /\ t + h <= k
  <2>1. PICK b \in Int : b = k - h /\ 0 <= b
    BY <1>5
  <2>2. CASE Sendable(p, m)
    <3>1. /\ Min({d, b}) \in {d, b} /\ Min({d, b}) <= d /\ Min({d, b}) <= b
      <4>1. d \in Int
        OBVIOUS
      <4>2. QED
        BY <4>1, LeastOfTwo, Zenon
    <3>2. Taken(p, m) = Min({d, b})
      BY <1>1, <1>3, <1>4, <1>6, <2>1, <2>2, Zenon DEF Taken
    <3>3. Min({d, b}) \in 0 .. d /\ Min({d, b}) + h <= k
      BY <2>1, <3>1
    <3>4. QED
      BY <3>2, <3>3
  <2>3. CASE ~Sendable(p, m)
    <3>1. Taken(p, m) = 0
      BY <2>3 DEF Taken
    <3>2. 0 \in 0 .. d /\ 0 + h <= k
      BY <1>5
    <3>3. QED
      BY <3>1, <3>2
  <2>4. QED
    BY <2>2, <2>3
<1>8. /\ Left(p, m) \in Nat /\ (Left(p, m) = 0 /\ m.left > 0 => t = m.left) /\ Left(p, m) <= m.left
      /\ (t > 0 /\ m.left > 0 => Left(p, m) < m.left)
  <2>1. CASE m.left = 0
    BY <2>1 DEF Left
  <2>2. CASE m.left > 0
    <3>0. m.left # 0
      BY <2>2
    <3>1. Left(p, m) = m.left - t /\ d = m.left
      BY <1>6, <1>7, <2>2, <3>0, Zenon DEF Left
    <3>2. QED
      BY <1>7, <2>2, <3>1
  <2>3. QED
    BY <2>1, <2>2
<1>9. SentOn(p, m) \in Seq(Chunk) /\ Held(SentOn(p, m)) <= k
  <2>1. CASE t = 0
    <3>1. SentOn(p, m) = o
      BY <1>1, <1>7, <2>1 DEF SentOn
    <3>2. QED
      BY <1>3, <1>5, <3>1
  <2>2. CASE t # 0
    <3>1. PICK c : c = [kind |-> "data", sid |-> m.sid, id |-> m.id, units |-> t,
                        empty |-> m.left = 0, eor |-> t = d]
      OBVIOUS
    <3>2. c \in Chunk /\ c.kind = "data" /\ c.units = t /\ t \in Nat
      BY <3>1 DEF Chunk, DataChunk
    <3>3. SentOn(p, m) = Append(o, c)
      BY <1>1, <1>6, <1>7, <2>2, <3>1 DEF SentOn
    <3>4. Held(Append(o, c)) = h + t
      BY <1>2, <1>3, <3>2, HeldAppend
    <3>5. Append(o, c) \in Seq(Chunk)
      BY <3>2
    <3>6. QED
      BY <1>7, <3>3, <3>4, <3>5
  <2>3. QED
    BY <2>1, <2>2
<1>10. QED
  BY <1>4, <1>6, <1>7, <1>8, <1>9
-----------------------------------------------------------------------------
(* SendQueuedStreamResets                                                    *)

\* The map of p becomes status, but for resets asked for.
MapBecomes(p, status, s) ==
    /\ Known(p, s)' <=> s \in DOMAIN status
    /\ Closing(p, s)' <=> s \in DOMAIN status /\ status[s].closure_initiated
    /\ InDone(p, s)' <=> s \in DOMAIN status /\ status[s].incoming_reset_complete
    /\ OutDone(p, s)' <=> s \in DOMAIN status /\ status[s].outgoing_reset_complete
    /\ s \in DOMAIN status /\ status[s].outgoing_reset_initiated => Asked(p, s)'

\* The streams of R are reset, which none of them was.
AsksFor(p, status, partial, o, R) ==
    /\ \A s \in R : /\ s \in DOMAIN status /\ need_outgoing_reset(status[s]) /\ Asked(p, s)'
                    /\ \A i \in DOMAIN partial : partial[i].sid # s
    /\ R # {} => /\ resetting[p] = NoReset
                 /\ resetting'[p] = [phase |-> "sent", sids |-> R]
                 /\ out'[p] = Append(o, [kind |-> "reset", sids |-> R])
    /\ R = {} => resetting'[p] = resetting[p] /\ out'[p] = o

OnlyAt(p) ==
    \A r \in Peers : r # p => /\ stream_status_by_sid_'[r] = stream_status_by_sid_[r]
                              /\ resetting'[r] = resetting[r] /\ out'[r] = out[r]

LEMMA QueuedResets ==
    ASSUME TypeOK, NEW p \in Peers, NEW status \in StatusMap, NEW partial, NEW o \in Seq(Chunk),
           SendQueuedStreamResets(p, status, partial, o)
    PROVE  /\ stream_status_by_sid_' \in [Peers -> StatusMap]
           /\ resetting' \in [Peers -> [phase : {"none", "sent", "performed"}, sids : SUBSET Sids]]
           /\ out' \in [Peers -> Seq(Chunk)]
           /\ Held(out'[p]) = Held(o)
           /\ OnlyAt(p)
           /\ \A s \in Sids : MapBecomes(p, status, s)
           /\ \E R \in SUBSET Sids : AsksFor(p, status, partial, o, R)
<1>1. /\ DOMAIN status \subseteq Sids /\ status \in [DOMAIN status -> StreamStatus]
      /\ DOMAIN stream_status_by_sid_ = Peers /\ DOMAIN resetting = Peers /\ DOMAIN out = Peers
  BY StatusMaps DEF TypeOK
<1>2. CASE NeedsReset(status, partial) # {} /\ CanReset(p)
  <2>1. PICK R \in SUBSET Sids : R = NeedsReset(status, partial) /\ R # {}
    BY <1>1, <1>2 DEF NeedsReset
  <2>2. PICK g : g = [s \in DOMAIN status |->
                          IF need_outgoing_reset(status[s])
                          THEN [status[s] EXCEPT !.outgoing_reset_initiated = TRUE]
                          ELSE status[s]]
    OBVIOUS
  <2>3. PICK c \in Chunk : c = [kind |-> "reset", sids |-> R]
    BY DEF Chunk
  <2>4. /\ stream_status_by_sid_' = [stream_status_by_sid_ EXCEPT ![p] = g]
        /\ resetting' = [resetting EXCEPT ![p] = [phase |-> "sent", sids |-> R]]
        /\ out' = [out EXCEPT ![p] = Append(o, c)]
    BY <1>2, <2>1, <2>2, <2>3 DEF SendQueuedStreamResets
  <2>5. g \in StatusMap
    <3>1. g \in [DOMAIN status -> StreamStatus] /\ DOMAIN g = DOMAIN status
      BY <1>1, <2>2 DEF StreamStatus
    <3>2. QED
      BY <1>1, <3>1, StatusMaps
  <2>6. /\ stream_status_by_sid_' \in [Peers -> StatusMap]
        /\ stream_status_by_sid_'[p] = g
    BY <2>4, <2>5 DEF TypeOK
  <2>7. /\ resetting' \in [Peers -> [phase : {"none", "sent", "performed"}, sids : SUBSET Sids]]
        /\ resetting'[p] = [phase |-> "sent", sids |-> R]
    BY <2>4 DEF TypeOK
  <2>8. out' \in [Peers -> Seq(Chunk)] /\ out'[p] = Append(o, c)
    <3>1. Append(o, c) \in Seq(Chunk)
      OBVIOUS
    <3>2. QED
      BY <2>4, <3>1 DEF TypeOK
  <2>9. Held(out'[p]) = Held(o)
    <3>1. Measured(o) /\ c.kind # "data"
      BY <2>3 DEF Measured, Chunk, DataChunk
    <3>2. Held(Append(o, c)) = Held(o) + 0
      BY <3>1, HeldAppend
    <3>3. Held(o) \in Nat
      BY <3>1, HeldTyped
    <3>4. QED
      BY <2>8, <3>2, <3>3
  <2>10. OnlyAt(p)
    BY <1>1, <2>4 DEF OnlyAt
  <2>11. \A s \in Sids : MapBecomes(p, status, s)
    BY <1>1, <2>2, <2>6 DEF MapBecomes, Known, Closing, InDone, OutDone, Asked, StreamStatus
  <2>12. AsksFor(p, status, partial, o, R)
    <3>1. \A s \in R : /\ s \in DOMAIN status /\ need_outgoing_reset(status[s])
                       /\ \A i \in DOMAIN partial : partial[i].sid # s
      BY <2>1 DEF NeedsReset
    <3>2. \A s \in R : Asked(p, s)'
      BY <1>1, <2>2, <2>6, <3>1 DEF Asked, Known, StreamStatus
    <3>3. resetting[p] = NoReset
      BY <1>2 DEF CanReset
    <3>4. QED
      BY <2>1, <2>3, <2>7, <2>8, <3>1, <3>2, <3>3, Zenon DEF AsksFor
  <2>13. QED
    BY <2>6, <2>7, <2>8, <2>9, <2>10, <2>11, <2>12
<1>3. CASE ~(NeedsReset(status, partial) # {} /\ CanReset(p))
  <2>1. /\ stream_status_by_sid_' = [stream_status_by_sid_ EXCEPT ![p] = status]
        /\ out' = [out EXCEPT ![p] = o] /\ resetting' = resetting
    BY <1>3 DEF SendQueuedStreamResets
  <2>2. /\ stream_status_by_sid_' \in [Peers -> StatusMap]
        /\ stream_status_by_sid_'[p] = status
        /\ resetting' \in [Peers -> [phase : {"none", "sent", "performed"}, sids : SUBSET Sids]]
        /\ out' \in [Peers -> Seq(Chunk)] /\ out'[p] = o
    BY <2>1 DEF TypeOK
  <2>3. OnlyAt(p)
    BY <1>1, <2>1 DEF OnlyAt
  <2>4. \A s \in Sids : MapBecomes(p, status, s)
    BY <1>1, <2>2 DEF MapBecomes, Known, Closing, InDone, OutDone, Asked, StreamStatus
  <2>5. AsksFor(p, status, partial, o, {}) /\ {} \in SUBSET Sids
    BY <2>1, <2>2 DEF AsksFor
  <2>6. QED
    BY <2>2, <2>3, <2>4, <2>5
<1>4. QED
  BY <1>2, <1>3
-----------------------------------------------------------------------------
(* Types                                                                     *)

Typed == TypeOK /\ RoomKept

LEMMA EmptyHeld == Held(<<>>) = 0
<1>1. DOMAIN <<>> = {}
  OBVIOUS
<1>2. QED
  BY <1>1, HeldIsSum, SumEmpty

LEMMA InitTyped ==
    ASSUME Init
    PROVE  Typed
<1>1. [s \in Sids |-> NewStatus] \in StatusMap
  <2>1. NewStatus \in StreamStatus
    BY DEF NewStatus, StreamStatus
  <2>2. PICK f : f = [s \in Sids |-> NewStatus]
    OBVIOUS
  <2>3. DOMAIN f = Sids /\ f \in [Sids -> StreamStatus]
    BY <2>1, <2>2
  <2>4. QED
    BY <2>2, <2>3, StatusMaps
<1>2. TypeOK
  BY <1>1 DEF Init, TypeOK, NoReset
<1>3. RoomKept
  BY EmptyHeld, SctpConstants DEF Init, RoomKept
<1>4. QED
  BY <1>2, <1>3 DEF Typed

LEMMA RoomUntouched ==
    ASSUME RoomKept, UNCHANGED <<out, partial_outgoing_message_>>
    PROVE  RoomKept'
BY DEF RoomKept

\* The calls that leave the queues alone.
LEMMA CallsTyped ==
    ASSUME Typed, NEW p \in Peers,
           \/ \E limit \in Limits[p] : Start(p, limit)
           \/ OnWritableState(p)
           \/ \E s \in Sids : OpenStream(p, s)
           \/ SendDataBlocked(p)
    PROVE  Typed'
<1>1. UNCHANGED <<out, partial_outgoing_message_>>
  BY DEF Start, OnWritableState, OpenStream, SendDataBlocked, association
<1>2. CASE (\E limit \in Limits[p] : Start(p, limit)) \/ OnWritableState(p) \/ SendDataBlocked(p)
  BY <1>1, <1>2, RoomUntouched
     DEF Start, OnWritableState, SendDataBlocked, association, history, Typed, TypeOK
<1>3. ASSUME NEW s \in Sids, OpenStream(p, s) PROVE Typed'
  <2>1. PICK f \in StatusMap : f = stream_status_by_sid_[p]
    BY DEF Typed, TypeOK
  <2>2. PICK g : g = [t \in DOMAIN f \cup {s} |-> IF t = s THEN NewStatus ELSE f[t]]
    OBVIOUS
  <2>3. g \in StatusMap
    <3>1. DOMAIN f \subseteq Sids /\ f \in [DOMAIN f -> StreamStatus] /\ NewStatus \in StreamStatus
      BY StatusMaps DEF NewStatus, StreamStatus
    <3>2. DOMAIN g = DOMAIN f \cup {s} /\ g \in [DOMAIN f \cup {s} -> StreamStatus]
      BY <2>2, <3>1
    <3>3. QED
      BY <3>1, <3>2, StatusMaps
  <2>4. stream_status_by_sid_' = [stream_status_by_sid_ EXCEPT ![p] = g]
    BY <1>3, <2>1, <2>2 DEF OpenStream
  <2>5. stream_status_by_sid_' \in [Peers -> StatusMap]
    BY <2>3, <2>4 DEF Typed, TypeOK
  <2>6. opens' \in [Peers -> [Sids -> Nat]]
    BY <1>3 DEF OpenStream, Typed, TypeOK
  <2>7. QED
    BY <1>1, <1>3, <2>5, <2>6, RoomUntouched DEF OpenStream, association, Typed, TypeOK
<1>4. QED
  BY <1>2, <1>3

LEMMA SendDataTyped ==
    ASSUME Typed, NEW p \in Peers, NEW s \in Sids, NEW size \in Nat, SendData(p, s, size)
    PROVE  Typed'
<1>1. PICK m : m = [sid |-> s, id |-> Len(log[p]) + 1, left |-> size]
  OBVIOUS
<1>2. m.sid = s /\ m.id \in Nat /\ m.left = size
  BY <1>1 DEF Typed, TypeOK
<1>3. /\ Left(p, m) \in Nat /\ SentOn(p, m) \in Seq(Chunk)
      /\ Held(SentOn(p, m)) <= kSctpSendBufferSize
  BY <1>2, TakenFits DEF Typed
<1>4. /\ out' = [out EXCEPT ![p] = SentOn(p, m)]
      /\ partial_outgoing_message_' = [partial_outgoing_message_ EXCEPT ![p] =
             IF Left(p, m) \in 1..(size - 1) THEN <<[m EXCEPT !.left = Left(p, m)]>> ELSE <<>>]
      /\ log' = IF Taken(p, m) = 0 THEN log
                ELSE [log EXCEPT ![p] =
                          Append(@, [sid |-> s, size |-> size, opening |-> opens[p][s]])]
      /\ UNCHANGED <<stream_status_by_sid_, partial_incoming_message_, tasks,
                     resetting, failures, opens, handed>>
  BY <1>1 DEF SendData
<1>5. partial_outgoing_message_' \in [Peers -> Seq(Message)] /\ Len(partial_outgoing_message_'[p]) <= 1
  <2>1. PICK l : l = Left(p, m) /\ l \in Nat
    BY <1>3
  <2>2. PICK b : b = IF l \in 1..(size - 1) THEN <<[m EXCEPT !.left = l]>> ELSE <<>>
    OBVIOUS
  <2>3. l \in 1..(size - 1) => [m EXCEPT !.left = l] \in Message
    BY <1>1, <1>2 DEF Message
  <2>4. b \in Seq(Message) /\ Len(b) <= 1
    <3>1. CASE l \in 1..(size - 1)
      <4>1. PICK x \in Message : x = [m EXCEPT !.left = l]
        BY <2>3, <3>1
      <4>2. b = <<x>>
        BY <2>2, <3>1, <4>1, Zenon
      <4>3. QED
        BY <4>2
    <3>2. CASE l \notin 1..(size - 1)
      BY <2>2, <3>2
    <3>3. QED
      BY <3>1, <3>2
  <2>5. partial_outgoing_message_' = [partial_outgoing_message_ EXCEPT ![p] = b]
    BY <1>4, <2>1, <2>2
  <2>6. QED
    BY <2>4, <2>5 DEF Typed, TypeOK
<1>6. log' \in [Peers -> Seq([sid : Sids, size : Nat, opening : Nat])]
  <2>1. PICK e : e = [sid |-> s, size |-> size, opening |-> opens[p][s]]
    OBVIOUS
  <2>2. e \in [sid : Sids, size : Nat, opening : Nat]
    BY <2>1 DEF Typed, TypeOK
  <2>3. PICK l \in Seq([sid : Sids, size : Nat, opening : Nat]) : l = log[p]
    BY DEF Typed, TypeOK
  <2>4. Append(l, e) \in Seq([sid : Sids, size : Nat, opening : Nat])
    BY <2>2
  <2>5. log' = log \/ log' = [log EXCEPT ![p] = Append(l, e)]
    BY <1>4, <2>1, <2>3
  <2>6. QED
    BY <2>4, <2>5 DEF Typed, TypeOK
<1>7. out' \in [Peers -> Seq(Chunk)]
  BY <1>3, <1>4 DEF Typed, TypeOK
<1>8. RoomKept'
  BY <1>3, <1>4, <1>5 DEF RoomKept, Typed, TypeOK
<1>9. QED
  BY <1>4, <1>5, <1>6, <1>7, <1>8 DEF Typed, TypeOK

\* Tasks that say nothing of resets.
Notices == [kind : {"up", "dry", "threshold"}]

LEMMA KindsOfTask ==
    ASSUME NEW e \in Task
    PROVE  /\ e.kind = "data" => e \in DataChunk
           /\ e.kind \in {"incoming", "outgoing"} => e.sids \subseteq Sids
BY DEF Task, DataChunk

LEMMA CommUpEffect ==
    ASSUME TypeOK, CommUp
    PROVE  /\ \E n \in Notices : \A p \in Peers : tasks'[p] = Append(tasks[p], n)
           /\ tasks' \in [Peers -> Seq(Task)]
<1>1. PICK n \in Notices : n = [kind |-> "up"]
  BY DEF Notices
<1>2. \A p \in Peers : tasks'[p] = Append(tasks[p], n) /\ tasks[p] \in Seq(Task)
  BY <1>1 DEF CommUp, TypeOK
<1>3. n \in Task
  BY DEF Notices, Task
<1>4. \A p \in Peers : Append(tasks[p], n) \in Seq(Task)
  BY <1>2, <1>3
<1>5. tasks' = [p \in Peers |-> Append(tasks[p], n)]
  BY <1>1 DEF CommUp
<1>6. QED
  BY <1>2, <1>4, <1>5

LEMMA ConveyDataEffect ==
    ASSUME TypeOK, NEW p \in Peers, ConveyData(p)
    PROVE  /\ tasks' \in [Peers -> Seq(Task)] /\ out' \in [Peers -> Seq(Chunk)]
           /\ Head(out[p]) \in DataChunk /\ out[p] # <<>> /\ out'[p] = Tail(out[p])
           /\ tasks'[Peer(p)] = Append(tasks[Peer(p)], Head(out[p]))
           /\ \E e \in Seq(Notices) : tasks'[p] = tasks[p] \o e
<1>1. PICK q \in Peers : q = Peer(p) /\ q # p
  BY PeerFacts
<1>2. PICK o \in Seq(Chunk) : o = out[p]
  BY DEF TypeOK
<1>3. o # <<>> /\ Head(o).kind = "data"
  BY <1>2 DEF ConveyData
<1>4. PICK c \in DataChunk : c = Head(o)
  <2>1. Head(o) \in Chunk
    BY <1>3
  <2>2. QED
    BY <1>3, <2>1 DEF Chunk, DataChunk
<1>5. PICK e \in Seq(Notices) : e = Acknowledged(Tail(out[p]))
  <2>1. PICK a \in Notices, b \in Notices : a = [kind |-> "threshold"] /\ b = [kind |-> "dry"]
    BY DEF Notices
  <2>2. <<a, b>> \in Seq(Notices) /\ <<a>> \in Seq(Notices)
    OBVIOUS
  <2>3. Acknowledged(Tail(out[p])) \in Seq(Notices)
    BY <2>1, <2>2 DEF Acknowledged
  <2>4. QED
    BY <2>3
<1>6. PICK t \in Seq(Task), u \in Seq(Task) : t = tasks[p] /\ u = tasks[q]
  BY DEF TypeOK
<1>7. PICK v : v = [tasks EXCEPT ![q] = Append(u, c), ![p] = t \o e]
  OBVIOUS
<1>8. tasks' = v /\ out' = [out EXCEPT ![p] = Tail(o)]
  BY <1>1, <1>2, <1>4, <1>5, <1>6, <1>7 DEF ConveyData
<1>9. Append(u, c) \in Seq(Task) /\ t \o e \in Seq(Task) /\ Tail(o) \in Seq(Chunk)
  <2>1. c \in Task /\ Notices \subseteq Task
    BY DEF Notices, Task
  <2>2. e \in Seq(Task)
    BY <2>1
  <2>3. QED
    BY <1>3, <2>1, <2>2
<1>10. v \in [Peers -> Seq(Task)] /\ v[q] = Append(u, c) /\ v[p] = t \o e
  BY <1>1, <1>6, <1>7, <1>9 DEF TypeOK
<1>11. out' \in [Peers -> Seq(Chunk)] /\ out'[p] = Tail(o)
  BY <1>8, <1>9 DEF TypeOK
<1>12. QED
  BY <1>1, <1>2, <1>3, <1>4, <1>6, <1>8, <1>10, <1>11

\* The requests to reset streams leave the queue of p in three ways.
LEMMA ResetStepsEffect ==
    ASSUME TypeOK, NEW p \in Peers, NEW e \in Task, NEW r \in Peers,
           tasks' = Posted(r, <<e>>)
    PROVE  /\ tasks' \in [Peers -> Seq(Task)]
           /\ tasks'[r] = Append(tasks[r], e)
           /\ \A x \in Peers : x # r => tasks'[x] = tasks[x]
<1>1. PICK t \in Seq(Task) : t = tasks[r]
  BY DEF TypeOK
<1>2. t \o <<e>> = Append(t, e) /\ Append(t, e) \in Seq(Task)
  OBVIOUS
<1>3. tasks' = [tasks EXCEPT ![r] = Append(t, e)]
  BY <1>1, <1>2 DEF Posted
<1>4. PICK a : a = Append(t, e)
  OBVIOUS
<1>5. tasks \in [Peers -> Seq(Task)] /\ a \in Seq(Task) /\ tasks' = [tasks EXCEPT ![r] = a]
  BY <1>2, <1>3, <1>4 DEF TypeOK
<1>6. /\ tasks' \in [Peers -> Seq(Task)] /\ tasks'[r] = a
      /\ \A x \in Peers : x # r => tasks'[x] = tasks[x]
  BY <1>5
<1>7. QED
  BY <1>1, <1>4, <1>6

LEMMA CallbackEffect ==
    ASSUME TypeOK, NEW p \in Peers, NEW kind, Callback(p, kind)
    PROVE  /\ tasks' \in [Peers -> Seq(Task)] /\ tasks[p] # <<>> /\ tasks[p] \in Seq(Task)
           /\ Head(tasks[p]) \in Task /\ Head(tasks[p]).kind = kind
           /\ tasks'[p] = Tail(tasks[p])
           /\ \A x \in Peers : x # p => tasks'[x] = tasks[x]
<1>1. PICK t \in Seq(Task) : t = tasks[p]
  BY DEF TypeOK
<1>2. t # <<>> /\ Head(t).kind = kind /\ tasks' = [tasks EXCEPT ![p] = Tail(t)]
  BY <1>1 DEF Callback
<1>3. Head(t) \in Task /\ Tail(t) \in Seq(Task)
  BY <1>2
<1>4. QED
  BY <1>1, <1>2, <1>3 DEF TypeOK

LEMMA RequestAtHead ==
    ASSUME TypeOK, NEW p \in Peers, out[p] # <<>>, Head(out[p]).kind = "reset"
    PROVE  /\ out[p] \in Seq(Chunk) /\ Tail(out[p]) \in Seq(Chunk)
           /\ Head(out[p]).sids \subseteq Sids
<1>1. PICK o \in Seq(Chunk) : o = out[p]
  BY DEF TypeOK
<1>2. Head(o) \in Chunk /\ Tail(o) \in Seq(Chunk)
  BY <1>1
<1>3. Head(o).sids \subseteq Sids
  BY <1>1, <1>2 DEF Chunk, DataChunk
<1>4. QED
  BY <1>1, <1>2, <1>3

\* The queue of p without its first element.
LEMMA RoomTail ==
    ASSUME Typed, NEW p \in Peers, out[p] # <<>>, out' = [out EXCEPT ![p] = Tail(@)],
           UNCHANGED partial_outgoing_message_
    PROVE  RoomKept' /\ out' \in [Peers -> Seq(Chunk)]
<1>1. PICK o \in Seq(Chunk) : o = out[p]
  BY DEF Typed, TypeOK
<1>2. Measured(o)
  BY DEF Measured, Chunk, DataChunk
<1>3. Held(Tail(o)) <= Held(o) /\ Held(Tail(o)) \in Nat /\ Held(o) \in Nat /\ Tail(o) \in Seq(Chunk)
  BY <1>1, <1>2, HeldTail
<1>4. out'[p] = Tail(o) /\ \A r \in Peers : r # p => out'[r] = out[r]
  BY <1>1 DEF Typed, TypeOK
<1>5. Held(Tail(o)) <= kSctpSendBufferSize
  <2>1. Held(o) <= kSctpSendBufferSize /\ kSctpSendBufferSize \in Nat
    BY <1>1, SctpConstants DEF Typed, RoomKept
  <2>2. QED
    BY <1>3, <2>1
<1>6. RoomKept'
  BY <1>4, <1>5 DEF Typed, RoomKept
<1>7. QED
  BY <1>1, <1>3, <1>6 DEF Typed, TypeOK

LEMMA UsrsctpTyped ==
    ASSUME Typed, NEW p \in Peers,
           CommUp \/ ConveyData(p) \/ ConveyReset(p) \/ AnswerReset(p) \/ FailReset(p)
    PROVE  Typed'
<1>1. TypeOK /\ Peer(p) \in Peers
  BY PeerFacts DEF Typed
<1>2. CASE CommUp
  <2>1. tasks' \in [Peers -> Seq(Task)]
    BY <1>1, <1>2, CommUpEffect
  <2>2. RoomKept'
    BY <1>2, RoomUntouched DEF Typed, CommUp
  <2>3. QED
    BY <1>1, <1>2, <2>1, <2>2 DEF Typed, TypeOK, CommUp, history
<1>3. CASE ConveyData(p)
  <2>1. tasks' \in [Peers -> Seq(Task)]
    BY <1>1, <1>3, ConveyDataEffect
  <2>2. RoomKept' /\ out' \in [Peers -> Seq(Chunk)]
    BY <1>3, RoomTail DEF ConveyData
  <2>3. QED
    BY <1>1, <1>3, <2>1, <2>2 DEF Typed, TypeOK, ConveyData, history
<1>4. CASE ConveyReset(p)
  <2>1. PICK e \in Task : e = [kind |-> "incoming", sids |-> Head(out[p]).sids]
    BY <1>1, <1>4, RequestAtHead DEF ConveyReset, Task
  <2>2. tasks' \in [Peers -> Seq(Task)]
    BY <1>1, <1>4, <2>1, ResetStepsEffect DEF ConveyReset
  <2>3. RoomKept' /\ out' \in [Peers -> Seq(Chunk)]
    BY <1>4, RoomTail DEF ConveyReset
  <2>4. resetting' \in [Peers -> [phase : {"none", "sent", "performed"}, sids : SUBSET Sids]]
    BY <1>1, <1>4 DEF ConveyReset, TypeOK
  <2>5. QED
    BY <1>1, <1>4, <2>2, <2>3, <2>4 DEF Typed, TypeOK, ConveyReset, history
<1>5. CASE AnswerReset(p)
  <2>1. PICK e \in Task : e = [kind |-> "outgoing", sids |-> resetting[p].sids]
    BY <1>1 DEF TypeOK, Task
  <2>2. tasks' \in [Peers -> Seq(Task)]
    BY <1>1, <1>5, <2>1, ResetStepsEffect DEF AnswerReset
  <2>3. RoomKept'
    BY <1>5, RoomUntouched DEF Typed, AnswerReset
  <2>4. resetting' \in [Peers -> [phase : {"none", "sent", "performed"}, sids : SUBSET Sids]]
    BY <1>1, <1>5 DEF AnswerReset, TypeOK, NoReset
  <2>5. QED
    BY <1>1, <1>5, <2>2, <2>3, <2>4 DEF Typed, TypeOK, AnswerReset, history
<1>6. CASE FailReset(p)
  <2>1. PICK e \in Task : e = [kind |-> "failed"]
    BY DEF Task
  <2>2. tasks' \in [Peers -> Seq(Task)]
    BY <1>1, <1>6, <2>1, ResetStepsEffect DEF FailReset
  <2>3. RoomKept' /\ out' \in [Peers -> Seq(Chunk)]
    BY <1>6, RoomTail DEF FailReset
  <2>4. resetting' \in [Peers -> [phase : {"none", "sent", "performed"}, sids : SUBSET Sids]]
    BY <1>1, <1>6 DEF FailReset, TypeOK, NoReset
  <2>5. /\ failures' \in Nat
        /\ UNCHANGED <<stream_status_by_sid_, partial_outgoing_message_,
                       partial_incoming_message_, opens, log, handed>>
    BY <1>1, <1>6 DEF TypeOK, FailReset, history
  <2>6. QED
    BY <1>1, <2>2, <2>3, <2>4, <2>5 DEF Typed, TypeOK
<1>7. QED
  BY <1>2, <1>3, <1>4, <1>5, <1>6

\* A step of the network thread that ends with SendQueuedStreamResets.
LEMMA ResettingTyped ==
    ASSUME Typed, NEW p \in Peers, NEW status \in StatusMap, NEW partial, NEW o \in Seq(Chunk),
           Held(o) <= kSctpSendBufferSize,
           SendQueuedStreamResets(p, status, partial, o),
           tasks' \in [Peers -> Seq(Task)],
           partial_outgoing_message_' \in [Peers -> Seq(Message)],
           \A r \in Peers : Len(partial_outgoing_message_'[r]) <= 1,
           UNCHANGED <<partial_incoming_message_, failures, history>>
    PROVE  Typed'
<1>1. /\ stream_status_by_sid_' \in [Peers -> StatusMap]
      /\ resetting' \in [Peers -> [phase : {"none", "sent", "performed"}, sids : SUBSET Sids]]
      /\ out' \in [Peers -> Seq(Chunk)]
      /\ Held(out'[p]) = Held(o) /\ OnlyAt(p)
  BY QueuedResets DEF Typed
<1>2. RoomKept'
  BY <1>1 DEF Typed, RoomKept, OnlyAt
<1>3. QED
  BY <1>1, <1>2 DEF Typed, TypeOK, history

\* The maps given to SendQueuedStreamResets.
LEMMA MapsTyped ==
    ASSUME TypeOK, NEW p \in Peers
    PROVE  /\ stream_status_by_sid_[p] \in StatusMap
           /\ \A s \in DOMAIN stream_status_by_sid_[p] :
                  [stream_status_by_sid_[p] EXCEPT ![s].closure_initiated = TRUE] \in StatusMap
           /\ \A sids, incoming :
                  WithoutClosed(Marked(stream_status_by_sid_[p], sids, incoming)) \in StatusMap
           /\ [s \in DOMAIN stream_status_by_sid_[p] |->
                  [stream_status_by_sid_[p][s] EXCEPT !.outgoing_reset_initiated = FALSE]]
              \in StatusMap
<1>1. PICK f \in StatusMap : f = stream_status_by_sid_[p]
  BY DEF TypeOK
<1>2. DOMAIN f \subseteq Sids /\ f \in [DOMAIN f -> StreamStatus]
  BY StatusMaps
<1>3. ASSUME NEW s \in DOMAIN f PROVE [f EXCEPT ![s].closure_initiated = TRUE] \in StatusMap
  <2>1. PICK g : g = [f EXCEPT ![s].closure_initiated = TRUE]
    OBVIOUS
  <2>2. DOMAIN g = DOMAIN f /\ g \in [DOMAIN f -> StreamStatus]
    BY <1>2, <2>1 DEF StreamStatus
  <2>3. QED
    BY <1>2, <2>1, <2>2, StatusMaps
<1>4. ASSUME NEW sids, NEW incoming PROVE WithoutClosed(Marked(f, sids, incoming)) \in StatusMap
  <2>1. PICK g : g = Marked(f, sids, incoming)
    OBVIOUS
  <2>2. DOMAIN g = DOMAIN f /\ g \in [DOMAIN f -> StreamStatus]
    BY <1>2, <2>1 DEF Marked, StreamStatus
  <2>3. PICK h : h = WithoutClosed(g)
    OBVIOUS
  <2>4. DOMAIN h \subseteq DOMAIN f /\ h \in [DOMAIN h -> StreamStatus]
    BY <2>2, <2>3 DEF WithoutClosed
  <2>5. QED
    BY <1>2, <2>1, <2>3, <2>4, StatusMaps
<1>5. [s \in DOMAIN f |-> [f[s] EXCEPT !.outgoing_reset_initiated = FALSE]] \in StatusMap
  <2>1. PICK g : g = [s \in DOMAIN f |-> [f[s] EXCEPT !.outgoing_reset_initiated = FALSE]]
    OBVIOUS
  <2>2. DOMAIN g = DOMAIN f /\ g \in [DOMAIN f -> StreamStatus]
    BY <1>2, <2>1 DEF StreamStatus
  <2>3. QED
    BY <1>2, <2>1, <2>2, StatusMaps
<1>6. QED
  BY <1>1, <1>3, <1>4, <1>5

\* The message that is buffered.
LEMMA BufferedMessage ==
    ASSUME Typed, NEW p \in Peers, NEW m \in Range(partial_outgoing_message_[p])
    PROVE  /\ m \in Message /\ DOMAIN partial_outgoing_message_[p] = {1}
           /\ m = partial_outgoing_message_[p][1]
<1>1. PICK b \in Seq(Message) : b = partial_outgoing_message_[p]
  BY DEF Typed, TypeOK
<1>2. Len(b) <= 1 /\ Len(b) \in Nat /\ DOMAIN b = 1 .. Len(b)
  BY <1>1 DEF Typed, RoomKept
<1>3. PICK i \in DOMAIN b : m = b[i]
  BY <1>1 DEF Range
<1>4. i = 1 /\ Len(b) = 1
  BY <1>2, <1>3
<1>5. QED
  BY <1>1, <1>2, <1>3, <1>4

\* SendBufferedMessage when something is left of the message.
PartSent(p, m) ==
    /\ Left(p, m) > 0
    /\ partial_outgoing_message_' = [partial_outgoing_message_ EXCEPT ![p] =
           <<[m EXCEPT !.left = Left(p, m)]>>]
    /\ out' = [out EXCEPT ![p] = SentOn(p, m)]
    /\ UNCHANGED <<stream_status_by_sid_, resetting>>

\* When nothing is, without and with resets that waited for it.
RestSent(p, m) ==
    /\ Left(p, m) = 0 /\ ~need_outgoing_reset(stream_status_by_sid_[p][m.sid])
    /\ partial_outgoing_message_' = [partial_outgoing_message_ EXCEPT ![p] = <<>>]
    /\ out' = [out EXCEPT ![p] = SentOn(p, m)]
    /\ UNCHANGED <<stream_status_by_sid_, resetting>>

RestSentThenResets(p, m) ==
    /\ Left(p, m) = 0
    /\ partial_outgoing_message_' = [partial_outgoing_message_ EXCEPT ![p] = <<>>]
    /\ SendQueuedStreamResets(p, stream_status_by_sid_[p], <<>>, SentOn(p, m))

LEMMA ThresholdCases ==
    ASSUME Typed, NEW p \in Peers, OnSendThresholdCallback(p)
    PROVE  /\ Callback(p, "threshold")
           /\ UNCHANGED <<partial_incoming_message_, failures, history>>
           /\ \/ UNCHANGED <<partial_outgoing_message_, stream_status_by_sid_, out, resetting>>
              \/ \E m \in Range(partial_outgoing_message_[p]) :
                     PartSent(p, m) \/ RestSent(p, m) \/ RestSentThenResets(p, m)
<1>1. ASSUME NEW m \in Range(partial_outgoing_message_[p]) PROVE Left(p, m) > 0 \/ Left(p, m) = 0
  <2>1. m \in Message
    BY <1>1, BufferedMessage
  <2>2. m.left \in Nat /\ m.sid \in Sids /\ m.id \in Nat
    BY <2>1 DEF Message
  <2>3. Left(p, m) \in Nat
    BY <2>2, TakenFits DEF Typed
  <2>4. QED
    BY <2>3
<1>2. Callback(p, "threshold") /\ UNCHANGED <<partial_incoming_message_, failures, history>>
  BY DEF OnSendThresholdCallback
<1>3. CASE UNCHANGED <<partial_outgoing_message_, stream_status_by_sid_, out, resetting>>
  BY <1>2, <1>3
<1>4. CASE ~UNCHANGED <<partial_outgoing_message_, stream_status_by_sid_, out, resetting>>
  <2>1. PICK m \in Range(partial_outgoing_message_[p]) :
             IF Left(p, m) > 0
             THEN /\ partial_outgoing_message_' = [partial_outgoing_message_ EXCEPT ![p] =
                         <<[m EXCEPT !.left = Left(p, m)]>>]
                  /\ out' = [out EXCEPT ![p] = SentOn(p, m)]
                  /\ UNCHANGED <<stream_status_by_sid_, resetting>>
             ELSE /\ partial_outgoing_message_' = [partial_outgoing_message_ EXCEPT ![p] = <<>>]
                  /\ IF need_outgoing_reset(stream_status_by_sid_[p][m.sid])
                     THEN SendQueuedStreamResets(p, stream_status_by_sid_[p], <<>>, SentOn(p, m))
                     ELSE /\ out' = [out EXCEPT ![p] = SentOn(p, m)]
                          /\ UNCHANGED <<stream_status_by_sid_, resetting>>
    BY <1>4, Zenon DEF OnSendThresholdCallback
  <2>2. CASE Left(p, m) > 0
    BY <1>2, <2>1, <2>2, Zenon DEF PartSent
  <2>3. CASE ~(Left(p, m) > 0)
    <3>1. Left(p, m) = 0
      BY <1>1, <2>3
    <3>2. QED
      BY <1>2, <2>1, <2>3, <3>1, Zenon DEF RestSent, RestSentThenResets
  <2>4. QED
    BY <2>2, <2>3
<1>5. QED
  BY <1>3, <1>4

LEMMA ThresholdTyped ==
    ASSUME Typed, NEW p \in Peers, OnSendThresholdCallback(p)
    PROVE  Typed'
<1>1. TypeOK /\ tasks' \in [Peers -> Seq(Task)] /\ UNCHANGED <<partial_incoming_message_, failures, history>>
  BY ThresholdCases, CallbackEffect DEF Typed
<1>2. CASE UNCHANGED <<partial_outgoing_message_, stream_status_by_sid_, out, resetting>>
  BY <1>1, <1>2, RoomUntouched DEF Typed, TypeOK, history
<1>3. ASSUME NEW m \in Range(partial_outgoing_message_[p]),
             PartSent(p, m) \/ RestSent(p, m) \/ RestSentThenResets(p, m)
      PROVE  Typed'
  <2>1. m \in Message /\ m.left \in Nat /\ m.sid \in Sids /\ m.id \in Nat
    BY <1>3, BufferedMessage DEF Message
  <2>2. PICK l \in Nat, o \in Seq(Chunk) : /\ l = Left(p, m) /\ o = SentOn(p, m)
                                           /\ Held(o) <= kSctpSendBufferSize
    BY <2>1, TakenFits DEF Typed
  <2>3. PICK b \in Seq(Message) : /\ Len(b) <= 1
                                  /\ partial_outgoing_message_' = [partial_outgoing_message_ EXCEPT ![p] = b]
    <3>1. CASE PartSent(p, m)
      <4>1. PICK x \in Message : x = [m EXCEPT !.left = l]
        <5>1. l > 0
          BY <2>2, <3>1 DEF PartSent
        <5>2. [m EXCEPT !.left = l] \in Message
          BY <2>1, <5>1 DEF Message
        <5>3. QED
          BY <5>2, Zenon
      <4>2. <<x>> \in Seq(Message) /\ Len(<<x>>) <= 1
        OBVIOUS
      <4>3. QED
        BY <2>2, <3>1, <4>1, <4>2, Zenon DEF PartSent
    <3>2. CASE RestSent(p, m) \/ RestSentThenResets(p, m)
      <4>1. <<>> \in Seq(Message) /\ Len(<<>>) <= 1
        OBVIOUS
      <4>2. QED
        BY <3>2, <4>1, Zenon DEF RestSent, RestSentThenResets
    <3>3. QED
      BY <1>3, <3>1, <3>2
  <2>4. /\ partial_outgoing_message_' \in [Peers -> Seq(Message)]
        /\ \A r \in Peers : Len(partial_outgoing_message_'[r]) <= 1
    BY <2>3 DEF Typed, TypeOK, RoomKept
  <2>5. CASE PartSent(p, m) \/ RestSent(p, m)
    <3>1. /\ out' = [out EXCEPT ![p] = o] /\ UNCHANGED <<stream_status_by_sid_, resetting>>
      BY <2>2, <2>5 DEF PartSent, RestSent
    <3>2. RoomKept' /\ out' \in [Peers -> Seq(Chunk)]
      BY <2>2, <2>4, <3>1 DEF Typed, TypeOK, RoomKept
    <3>3. QED
      BY <1>1, <2>4, <3>1, <3>2 DEF Typed, TypeOK, history
  <2>6. CASE RestSentThenResets(p, m)
    <3>1. SendQueuedStreamResets(p, stream_status_by_sid_[p], <<>>, o)
      BY <2>2, <2>6 DEF RestSentThenResets
    <3>2. stream_status_by_sid_[p] \in StatusMap
      BY <1>1, MapsTyped
    <3>3. QED
      BY <1>1, <2>2, <2>4, <3>1, <3>2, ResettingTyped
  <2>7. QED
    BY <1>3, <2>5, <2>6
<1>4. QED
  BY <1>2, <1>3, ThresholdCases

LEMMA DataFromSctpTyped ==
    ASSUME Typed, NEW p \in Peers, OnDataFromSctp(p)
    PROVE  Typed'
<1>1. /\ TypeOK /\ tasks' \in [Peers -> Seq(Task)]
      /\ Head(tasks[p]) \in Task /\ Head(tasks[p]).kind = "data"
  BY CallbackEffect DEF Typed, OnDataFromSctp
<1>2. PICK c \in DataChunk : c = Head(tasks[p])
  BY <1>1, KindsOfTask
<1>3. PICK kept \in Seq(DataChunk) : kept = partial_incoming_message_[p]
  BY <1>1 DEF TypeOK
<1>4. PICK before \in Seq(DataChunk) :
          before = IF kept # <<>> /\ Head(kept).sid # c.sid THEN <<>> ELSE kept
  <2>1. <<>> \in Seq(DataChunk)
    OBVIOUS
  <2>2. QED
    BY <2>1, Zenon
<1>5. PICK message \in Seq(DataChunk) : message = IF c.empty THEN before ELSE Append(before, c)
  <2>1. before \in Seq(DataChunk) /\ Append(before, c) \in Seq(DataChunk)
    OBVIOUS
  <2>2. QED
    BY <2>1, Zenon
<1>6. PICK size \in Nat : size = Held(message)
  <2>1. \A d \in DataChunk : d.units \in Nat
    BY DEF DataChunk
  <2>2. \A i \in 1 .. Len(message) : message[i] \in DataChunk
    OBVIOUS
  <2>3. Measured(message)
    BY <2>1, <2>2 DEF Measured
  <2>4. QED
    BY <2>3, HeldTyped
<1>7. PICK h : h = [sid |-> c.sid, size |-> size, ids |-> {d.id : d \in Range(message)} \cup {c.id}]
  OBVIOUS
<1>8. h \in [sid : Sids, size : Nat, ids : SUBSET Nat]
  <2>1. \A d \in Range(message) : d.id \in Nat
    <3>1. \A d \in DataChunk : d.id \in Nat
      BY DEF DataChunk
    <3>2. \A d \in Range(message) : d \in DataChunk
      BY DEF Range
    <3>3. QED
      BY <3>1, <3>2
  <2>2. c.sid \in Sids /\ c.id \in Nat
    BY DEF DataChunk
  <2>3. QED
    BY <1>7, <2>1, <2>2
<1>9. PICK l \in Seq([sid : Sids, size : Nat, ids : SUBSET Nat]) : l = handed[p]
  BY <1>1 DEF TypeOK
<1>10. Append(l, h) \in Seq([sid : Sids, size : Nat, ids : SUBSET Nat])
  BY <1>8
<1>11. \/ /\ partial_incoming_message_' = [partial_incoming_message_ EXCEPT ![p] = message]
          /\ UNCHANGED handed
       \/ /\ partial_incoming_message_' = [partial_incoming_message_ EXCEPT ![p] = <<>>]
          /\ handed' = [handed EXCEPT ![p] = Append(l, h)]
  BY <1>2, <1>3, <1>4, <1>5, <1>6, <1>7, <1>9 DEF OnDataFromSctp
<1>12. /\ partial_incoming_message_' \in [Peers -> Seq(DataChunk)]
       /\ handed' \in [Peers -> Seq([sid : Sids, size : Nat, ids : SUBSET Nat])]
  <2>1. <<>> \in Seq(DataChunk)
    OBVIOUS
  <2>2. /\ partial_incoming_message_ \in [Peers -> Seq(DataChunk)]
        /\ handed \in [Peers -> Seq([sid : Sids, size : Nat, ids : SUBSET Nat])]
    BY <1>1 DEF TypeOK
  <2>3. partial_incoming_message_' \in [Peers -> Seq(DataChunk)]
    BY <1>11, <2>1, <2>2
  <2>4. handed' \in [Peers -> Seq([sid : Sids, size : Nat, ids : SUBSET Nat])]
    <3>1. PICK G : /\ handed \in [Peers -> G] /\ Append(l, h) \in G
                   /\ G = Seq([sid : Sids, size : Nat, ids : SUBSET Nat])
      BY <1>10, <2>2, Zenon
    <3>2. handed' = handed \/ handed' = [handed EXCEPT ![p] = Append(l, h)]
      BY <1>11
    <3>3. handed' \in [Peers -> G]
      BY <3>1, <3>2
    <3>4. QED
      BY <3>1, <3>3
  <2>5. QED
    BY <2>3, <2>4
<1>13. UNCHANGED <<stream_status_by_sid_, partial_outgoing_message_, out, resetting, failures, opens, log>>
  BY DEF OnDataFromSctp, association
<1>14. QED
  BY <1>1, <1>12, <1>13, RoomUntouched DEF Typed, TypeOK

\* The steps that begin with what is in the map and in the queue of p.
LEMMA ResettingStepsTyped ==
    ASSUME Typed, NEW p \in Peers,
           \/ \E s \in Sids : ResetStream(p, s)
           \/ OnNotificationAssocChange(p)
           \/ \E kind \in {"incoming", "outgoing"} : OnStreamResetEvent(p, kind)
           \/ OnStreamResetFailed(p)
    PROVE  Typed'
<1>1. TypeOK /\ out[p] \in Seq(Chunk) /\ Held(out[p]) <= kSctpSendBufferSize
  BY DEF Typed, TypeOK, RoomKept
<1>2. UNCHANGED <<partial_outgoing_message_, partial_incoming_message_, failures, history>>
  BY DEF ResetStream, OnNotificationAssocChange, OnStreamResetEvent, OnStreamResetFailed
<1>3. /\ partial_outgoing_message_' \in [Peers -> Seq(Message)]
      /\ \A r \in Peers : Len(partial_outgoing_message_'[r]) <= 1
  BY <1>2 DEF Typed, TypeOK, RoomKept
<1>4. tasks' \in [Peers -> Seq(Task)]
  <2>1. CASE \E s \in Sids : ResetStream(p, s)
    BY <1>1, <2>1 DEF ResetStream, TypeOK
  <2>2. ASSUME NEW kind, Callback(p, kind) PROVE tasks' \in [Peers -> Seq(Task)]
    BY <1>1, <2>2, CallbackEffect
  <2>3. QED
    BY <2>1, <2>2 DEF OnNotificationAssocChange, OnStreamResetEvent, OnStreamResetFailed
<1> DEFINE Asks == \E status \in StatusMap :
                       SendQueuedStreamResets(p, status, partial_outgoing_message_[p], out[p])
<1>5. Asks
  <2>1. ASSUME NEW s \in Sids, ResetStream(p, s) PROVE Asks
    <3>1. s \in DOMAIN stream_status_by_sid_[p]
      BY <2>1 DEF ResetStream, Open
    <3>2. QED
      BY <1>1, <2>1, <3>1, MapsTyped DEF ResetStream
  <2>2. CASE OnNotificationAssocChange(p)
    BY <1>1, <2>2, MapsTyped DEF OnNotificationAssocChange
  <2>3. ASSUME NEW kind, OnStreamResetEvent(p, kind) PROVE Asks
    BY <1>1, <2>3, MapsTyped DEF OnStreamResetEvent
  <2>4. CASE OnStreamResetFailed(p)
    BY <1>1, <2>4, MapsTyped DEF OnStreamResetFailed
  <2>5. QED
    BY <2>1, <2>2, <2>3, <2>4
<1>6. QED
  BY <1>1, <1>2, <1>3, <1>4, <1>5, ResettingTyped

\* Type correctness: queues, maps and histories keep their types, usrsctp is
\* never given more than it has room for, and one message at most is buffered,
\* of which something is left.
THEOREM SctpTyped == Spec => []Typed
<1>1. Init => Typed
  BY InitTyped
<1>2. Typed /\ [Next]_vars => Typed'
  <2>1. SUFFICES ASSUME Typed, [Next]_vars PROVE Typed'
    OBVIOUS
  <2>2. CASE UNCHANGED vars
    BY <2>1, <2>2 DEF vars, association, history, Typed, TypeOK, RoomKept
  <2>3. CASE CommUp
    <3>1. PICK p \in Peers : TRUE
      BY SctpConstants
    <3>2. QED
      BY <2>1, <2>3, <3>1, UsrsctpTyped
  <2>4. ASSUME NEW p \in Peers, Application(p) PROVE Typed'
    <3>1. ASSUME NEW w \in Writers, w[1] = p, SendData(p, w[2], w[3]) PROVE Typed'
      <4>1. w[2] \in Sids /\ w[3] \in Nat
        BY <3>1, SctpConstants
      <4>2. QED
        BY <2>1, <3>1, <4>1, SendDataTyped
    <3>2. QED
      BY <2>1, <2>4, <3>1, CallsTyped, ResettingStepsTyped DEF Application
  <2>5. ASSUME NEW p \in Peers, Usrsctp(p) \/ FailReset(p) PROVE Typed'
    BY <2>1, <2>5, UsrsctpTyped DEF Usrsctp
  <2>6. ASSUME NEW p \in Peers, NetworkThread(p) PROVE Typed'
    <3>1. CASE OnSenderDry(p)
      <4>1. tasks' \in [Peers -> Seq(Task)]
        BY <2>1, <3>1, CallbackEffect DEF Typed, OnSenderDry
      <4>2. QED
        BY <2>1, <3>1, <4>1, RoomUntouched
           DEF OnSenderDry, association, history, Typed, TypeOK
    <3>2. QED
      BY <2>1, <2>6, <3>1, ThresholdTyped, DataFromSctpTyped, ResettingStepsTyped DEF NetworkThread
  <2>7. QED
    BY <2>1, <2>2, <2>3, <2>4, <2>5, <2>6 DEF Next
<1>3. QED
  BY <1>1, <1>2, PTL DEF Spec
-----------------------------------------------------------------------------
(* Resets in a queue.                                                        *)

LEMMA HoldsAppended ==
    ASSUME NEW S, NEW t \in Seq(S), NEW e \in S, NEW kind, NEW s
    PROVE  /\ Holds(Append(t, e), kind, s) <=> Holds(t, kind, s) \/ Resets(e, kind, s)
           /\ HoldsOnce(t, kind, s) /\ ~(Holds(t, kind, s) /\ Resets(e, kind, s))
              => HoldsOnce(Append(t, e), kind, s)
<1>1. PICK l \in Nat : l = Len(t)
  OBVIOUS
<1>2. PICK u \in Seq(S) : u = Append(t, e)
  <2>1. Append(t, e) \in Seq(S)
    OBVIOUS
  <2>2. QED
    BY <2>1, Zenon
<1>3. /\ DOMAIN t = 1 .. l /\ DOMAIN u = 1 .. (l + 1) /\ u[l + 1] = e
      /\ \A i \in 1 .. l : u[i] = t[i]
  BY <1>1, <1>2
<1>4. \A i \in 1 .. (l + 1) : i \in 1 .. l \/ i = l + 1
  OBVIOUS
<1>5. 1 .. l \subseteq 1 .. (l + 1) /\ l + 1 \in 1 .. (l + 1) /\ l + 1 \notin 1 .. l
  OBVIOUS
<1>6. Holds(u, kind, s) <=> Holds(t, kind, s) \/ Resets(e, kind, s)
  BY <1>3, <1>4, <1>5 DEF Holds
<1>7. ASSUME HoldsOnce(t, kind, s), ~(Holds(t, kind, s) /\ Resets(e, kind, s))
      PROVE  HoldsOnce(u, kind, s)
  BY <1>3, <1>4, <1>5, <1>7 DEF Holds, HoldsOnce
<1>8. QED
  BY <1>2, <1>6, <1>7

LEMMA HoldsTail ==
    ASSUME NEW S, NEW t \in Seq(S), t # <<>>, NEW kind, NEW s
    PROVE  /\ Holds(t, kind, s) <=> Holds(Tail(t), kind, s) \/ Resets(Head(t), kind, s)
           /\ HoldsOnce(t, kind, s)
              => /\ HoldsOnce(Tail(t), kind, s)
                 /\ Resets(Head(t), kind, s) => ~Holds(Tail(t), kind, s)
<1>1. PICK l \in Nat : l + 1 = Len(t)
  <2>1. Len(t) \in Nat /\ Len(t) # 0
    OBVIOUS
  <2>2. Len(t) - 1 \in Nat /\ (Len(t) - 1) + 1 = Len(t)
    BY <2>1
  <2>3. QED
    BY <2>2
<1>2. PICK u \in Seq(S) : u = Tail(t)
  <2>1. Tail(t) \in Seq(S)
    OBVIOUS
  <2>2. QED
    BY <2>1, Zenon
<1>3. /\ DOMAIN t = 1 .. (l + 1) /\ DOMAIN u = 1 .. l /\ Head(t) = t[1]
      /\ \A i \in 1 .. l : u[i] = t[i + 1]
  BY <1>1, <1>2
<1>4. \A i \in 1 .. (l + 1) : i = 1 \/ (\E j \in 1 .. l : i = j + 1)
  <2>1. SUFFICES ASSUME NEW i \in 1 .. (l + 1), i # 1 PROVE \E j \in 1 .. l : i = j + 1
    OBVIOUS
  <2>2. i - 1 \in 1 .. l /\ i = (i - 1) + 1
    BY <2>1
  <2>3. QED
    BY <2>2
<1>5. 1 \in 1 .. (l + 1) /\ \A i \in 1 .. l : i + 1 \in 1 .. (l + 1) /\ i + 1 # 1
  OBVIOUS
<1>6. Holds(t, kind, s) <=> Holds(u, kind, s) \/ Resets(Head(t), kind, s)
  <2>1. ASSUME Holds(t, kind, s) PROVE Holds(u, kind, s) \/ Resets(Head(t), kind, s)
    <3>1. PICK i \in 1 .. (l + 1) : Resets(t[i], kind, s)
      BY <1>3, <2>1 DEF Holds
    <3>2. CASE i = 1
      BY <1>3, <3>1, <3>2
    <3>3. CASE i # 1
      <4>1. PICK j \in 1 .. l : i = j + 1
        BY <1>4, <3>3
      <4>2. Resets(u[j], kind, s)
        BY <1>3, <3>1, <4>1
      <4>3. QED
        BY <1>3, <4>2 DEF Holds
    <3>4. QED
      BY <3>2, <3>3
  <2>2. ASSUME Holds(u, kind, s) PROVE Holds(t, kind, s)
    <3>1. PICK i \in 1 .. l : Resets(u[i], kind, s)
      BY <1>3, <2>2 DEF Holds
    <3>2. i + 1 \in DOMAIN t /\ Resets(t[i + 1], kind, s)
      BY <1>3, <1>5, <3>1
    <3>3. QED
      BY <3>2 DEF Holds
  <2>3. ASSUME Resets(Head(t), kind, s) PROVE Holds(t, kind, s)
    BY <1>3, <1>5, <2>3 DEF Holds
  <2>4. QED
    BY <2>1, <2>2, <2>3
<1>7. ASSUME HoldsOnce(t, kind, s)
      PROVE  /\ HoldsOnce(u, kind, s)
             /\ Resets(Head(t), kind, s) => ~Holds(u, kind, s)
  <2>1. HoldsOnce(u, kind, s)
    <3>1. SUFFICES ASSUME NEW i \in 1 .. l, NEW j \in 1 .. l,
                          Resets(u[i], kind, s), Resets(u[j], kind, s)
                   PROVE  i = j
      BY <1>3 DEF HoldsOnce
    <3>2. i + 1 = j + 1
      BY <1>3, <1>5, <1>7, <3>1 DEF HoldsOnce
    <3>3. QED
      BY <3>2
  <2>2. ASSUME Resets(Head(t), kind, s), Holds(u, kind, s) PROVE FALSE
    <3>1. PICK i \in 1 .. l : Resets(u[i], kind, s)
      BY <1>3, <2>2 DEF Holds
    <3>2. 1 = i + 1
      BY <1>3, <1>5, <1>7, <2>2, <3>1 DEF HoldsOnce
    <3>3. QED
      BY <3>2
  <2>3. QED
    BY <2>1, <2>2
<1>8. QED
  BY <1>2, <1>6, <1>7

\* What a queue holds is the same, for resets.
SameResets(u, t) ==
    /\ \A s \in Sids, kind \in {"incoming", "outgoing"} :
           /\ Holds(u, kind, s) <=> Holds(t, kind, s)
           /\ HoldsOnce(t, kind, s) => HoldsOnce(u, kind, s)
    /\ (\A i \in DOMAIN t : t[i].kind # "failed") => \A i \in DOMAIN u : u[i].kind # "failed"

Harmless(e) == e.kind \notin {"incoming", "outgoing", "failed"}

LEMMA HarmlessAppended ==
    ASSUME NEW t \in Seq(Task), NEW e \in Task, Harmless(e)
    PROVE  SameResets(Append(t, e), t)
<1>1. \A s, kind : kind \in {"incoming", "outgoing"} => ~Resets(e, kind, s)
  BY DEF Harmless, Resets
<1>2. \A s, kind : kind \in {"incoming", "outgoing"} =>
          /\ Holds(Append(t, e), kind, s) <=> Holds(t, kind, s)
          /\ HoldsOnce(t, kind, s) => HoldsOnce(Append(t, e), kind, s)
  BY <1>1, HoldsAppended
<1>3. (\A i \in DOMAIN t : t[i].kind # "failed")
      => \A i \in DOMAIN Append(t, e) : Append(t, e)[i].kind # "failed"
  BY DEF Harmless
<1>4. QED
  BY <1>2, <1>3 DEF SameResets

LEMMA NoticesAppended ==
    ASSUME NEW t \in Seq(Task), NEW e \in Seq(Notices)
    PROVE  SameResets(t \o e, t)
<1>1. PICK u : u = t \o e
  OBVIOUS
<1>2. PICK l \in Nat, k \in Nat : l = Len(t) /\ k = Len(e)
  OBVIOUS
<1>3. /\ DOMAIN u = 1 .. (l + k) /\ DOMAIN t = 1 .. l
      /\ \A i \in 1 .. l : u[i] = t[i]
      /\ \A i \in 1 .. (l + k) : i \notin 1 .. l => u[i] = e[i - l] /\ i - l \in 1 .. k
  BY <1>1, <1>2
<1>4. \A i \in 1 .. k : Harmless(e[i])
  <2>1. \A n \in Notices : Harmless(n)
    BY DEF Notices, Harmless
  <2>2. \A i \in 1 .. k : e[i] \in Notices
    BY <1>2
  <2>3. QED
    BY <2>1, <2>2
<1>5. \A i \in 1 .. (l + k) : i \notin 1 .. l => Harmless(u[i])
  BY <1>3, <1>4
<1>6. 1 .. l \subseteq 1 .. (l + k)
  OBVIOUS
<1>7. ASSUME NEW s, NEW kind, kind \in {"incoming", "outgoing"}
      PROVE  /\ Holds(u, kind, s) <=> Holds(t, kind, s)
             /\ HoldsOnce(t, kind, s) => HoldsOnce(u, kind, s)
  <2>1. \A i \in 1 .. (l + k) : Resets(u[i], kind, s) => i \in 1 .. l
    BY <1>5, <1>7 DEF Resets, Harmless
  <2>2. \A i \in 1 .. l : i \in 1 .. (l + k) /\ u[i] = t[i]
    BY <1>3, <1>6
  <2>3. Holds(u, kind, s) <=> Holds(t, kind, s)
    BY <1>3, <2>1, <2>2 DEF Holds
  <2>4. HoldsOnce(t, kind, s) => HoldsOnce(u, kind, s)
    BY <1>3, <2>1, <2>2 DEF HoldsOnce
  <2>5. QED
    BY <2>3, <2>4
<1>8. (\A i \in DOMAIN t : t[i].kind # "failed") => \A i \in DOMAIN u : u[i].kind # "failed"
  BY <1>3, <1>5 DEF Harmless
<1>9. QED
  BY <1>1, <1>7, <1>8 DEF SameResets

LEMMA HarmlessTaken ==
    ASSUME NEW t \in Seq(Task), t # <<>>, Harmless(Head(t))
    PROVE  SameResets(Tail(t), t)
<1>1. \A s, kind : kind \in {"incoming", "outgoing"} => ~Resets(Head(t), kind, s)
  BY DEF Harmless, Resets
<1>2. \A s, kind : kind \in {"incoming", "outgoing"} =>
          /\ Holds(Tail(t), kind, s) <=> Holds(t, kind, s)
          /\ HoldsOnce(t, kind, s) => HoldsOnce(Tail(t), kind, s)
  BY <1>1, HoldsTail
<1>3. (\A i \in DOMAIN t : t[i].kind # "failed")
      => \A i \in DOMAIN Tail(t) : Tail(t)[i].kind # "failed"
  OBVIOUS
<1>4. QED
  BY <1>2, <1>3 DEF SameResets
-----------------------------------------------------------------------------
(* Steps that neither ask for resets nor handle them.                        *)

SameStreams ==
    /\ UNCHANGED <<stream_status_by_sid_, resetting, opens, failures>>
    /\ \A r \in Peers : SameResets(tasks'[r], tasks[r])

\* A message may come to be buffered for a stream that is open.
LEMMA ResetsInvSame ==
    ASSUME Typed, ResetsInv, SameStreams, \A r \in Peers : RequestsMatch(r)',
           \A r \in Peers, s \in Sids : Buffered(r, s)' => Buffered(r, s) \/ Open(r, s)
    PROVE  ResetsInv'
<1>1. \A r \in Peers, s \in Sids :
          /\ Known(r, s)' <=> Known(r, s)
          /\ Closing(r, s)' <=> Closing(r, s)
          /\ Asked(r, s)' <=> Asked(r, s)
          /\ OutDone(r, s)' <=> OutDone(r, s)
          /\ InDone(r, s)' <=> InDone(r, s)
          /\ Open(r, s)' <=> Open(r, s)
  BY DEF SameStreams, Known, Closing, Asked, OutDone, InDone, Open
<1>2. \A r \in Peers, s \in Sids :
          /\ Holds(tasks'[r], "outgoing", s) <=> Holds(tasks[r], "outgoing", s)
          /\ Holds(tasks'[r], "incoming", s) <=> Holds(tasks[r], "incoming", s)
          /\ HoldsOnce(tasks[r], "outgoing", s) => HoldsOnce(tasks'[r], "outgoing", s)
          /\ HoldsOnce(tasks[r], "incoming", s) => HoldsOnce(tasks'[r], "incoming", s)
  BY DEF SameStreams, SameResets
<1>3. \A r \in Peers, s \in Sids :
          /\ InFlight(r, s)' <=> InFlight(r, s)
          /\ ResetSent(r, s)' <=> ResetSent(r, s)
          /\ ResetReceived(r, s)' <=> ResetReceived(r, s)
          /\ Unconveyed(r, s)' <=> Unconveyed(r, s)
          /\ Underway(r, s)' <=> Underway(r, s)
  <2>1. SUFFICES ASSUME NEW r \in Peers, NEW s \in Sids
                 PROVE  /\ InFlight(r, s)' <=> InFlight(r, s)
                        /\ ResetSent(r, s)' <=> ResetSent(r, s)
                        /\ ResetReceived(r, s)' <=> ResetReceived(r, s)
                        /\ Unconveyed(r, s)' <=> Unconveyed(r, s)
                        /\ Underway(r, s)' <=> Underway(r, s)
    OBVIOUS
  <2>2. InFlight(r, s)' <=> InFlight(r, s)
    BY <1>2 DEF InFlight, SameStreams
  <2>3. Unconveyed(r, s)' <=> Unconveyed(r, s)
    BY DEF Unconveyed, SameStreams
  <2>4. Underway(r, s)' <=> Underway(r, s)
    BY <1>2, <2>3, PeerFacts DEF Underway
  <2>5. QED
    BY <1>1, <2>2, <2>3, <2>4 DEF ResetSent, ResetReceived
<1>4. \A r \in Peers, s \in Sids : FlightsClosed(r, s)'
  <2>1. \A r \in Peers, s \in Sids : Open(r, s) => ~ResetSent(r, s)
    BY DEF ResetsInv, FlightsClosed, ResetSent, Open, is_open, Known, OutDone
  <2>2. QED
    BY <1>1, <1>3, <2>1 DEF ResetsInv, FlightsClosed
<1>5. ASSUME failures' = 0, NEW r \in Peers PROVE NoneRefused(r)'
  <2>1. NoneRefused(r)
    BY <1>5 DEF ResetsInv, SameStreams
  <2>2. QED
    BY <2>1 DEF NoneRefused, SameStreams, SameResets
<1>6. ASSUME failures' = 0, NEW r \in Peers, NEW s \in Sids PROVE ResetsCounted(r, s)'
  <2>1. ResetsCounted(r, s)
    BY <1>6 DEF ResetsInv, SameStreams
  <2>2. opens' = opens /\ resetting' = resetting /\ Peer(r) \in Peers
    BY PeerFacts DEF SameStreams
  <2>3. /\ Count(ResetReceived(Peer(r), s))' = Count(ResetReceived(Peer(r), s))
        /\ Count(Underway(r, s))' = Count(Underway(r, s))
        /\ Count(ResetSent(r, s))' = Count(ResetSent(r, s))
    BY <1>3, <2>2 DEF Count
  <2>4. QED
    BY <1>1, <1>2, <1>3, <2>1, <2>2, <2>3 DEF ResetsCounted
<1>7. ASSUME failures' # 0, NEW r \in Peers, NEW s \in Sids PROVE UsedOnce(r, s)'
  <2>1. UsedOnce(r, s)
    BY <1>7 DEF ResetsInv, SameStreams
  <2>2. opens' = opens /\ Peer(r) \in Peers
    BY PeerFacts DEF SameStreams
  <2>3. QED
    BY <1>1, <1>3, <2>1, <2>2 DEF UsedOnce
<1>8. QED
  BY <1>4, <1>5, <1>6, <1>7 DEF ResetsInv

\* The queue of p with another chunk of data behind it, or one less in front.
LEMMA RequestsStay ==
    ASSUME Typed, NEW p \in Peers, RequestsMatch(p), resetting'[p] = resetting[p],
           \/ out'[p] = out[p]
           \/ \E c \in DataChunk : out'[p] = Append(out[p], c)
           \/ out[p] # <<>> /\ Head(out[p]).kind = "data" /\ out'[p] = Tail(out[p])
    PROVE  RequestsMatch(p)'
<1>1. PICK o \in Seq(Chunk) : o = out[p]
  BY DEF Typed, TypeOK
<1>2. CASE out'[p] = out[p]
  BY <1>2 DEF RequestsMatch
<1>3. ASSUME NEW c \in DataChunk, out'[p] = Append(out[p], c) PROVE RequestsMatch(p)'
  <2>1. PICK l \in Nat : l = Len(o)
    OBVIOUS
  <2>2. c \in Chunk /\ c.kind # "reset"
    BY DEF Chunk, DataChunk
  <2>3. /\ DOMAIN o = 1 .. l /\ DOMAIN out'[p] = 1 .. (l + 1) /\ out'[p][l + 1] = c
        /\ \A i \in 1 .. l : out'[p][i] = o[i]
    BY <1>1, <1>3, <2>1, <2>2
  <2>4. \A i \in 1 .. (l + 1) : i \in 1 .. l \/ i = l + 1
    OBVIOUS
  <2>5. QED
    BY <1>1, <2>2, <2>3, <2>4 DEF RequestsMatch
<1>4. CASE out[p] # <<>> /\ Head(out[p]).kind = "data" /\ out'[p] = Tail(out[p])
  <2>1. \A i \in DOMAIN Tail(o) : Tail(o)[i] = o[i + 1] /\ i + 1 \in DOMAIN o /\ i \in Nat
    BY <1>1, <1>4
  <2>2. \A i \in DOMAIN Tail(o) : \A j \in DOMAIN Tail(o) : i + 1 = j + 1 => i = j
    BY <2>1
  <2>3. QED
    BY <1>1, <1>4, <2>1, <2>2 DEF RequestsMatch
<1>5. QED
  BY <1>2, <1>3, <1>4

\* The queue after usrsctp_sendv.
LEMMA SentOnIs ==
    ASSUME Typed, NEW p \in Peers, NEW m, m.left \in Nat, m.sid \in Sids, m.id \in Nat
    PROVE  \/ Taken(p, m) = 0 /\ SentOn(p, m) = out[p]
           \/ /\ Taken(p, m) \in Nat /\ Taken(p, m) > 0
              /\ \E c \in DataChunk :
                     /\ SentOn(p, m) = Append(out[p], c)
                     /\ c.kind = "data" /\ c.sid = m.sid /\ c.id = m.id
                     /\ c.units = Taken(p, m) /\ (c.empty <=> m.left = 0)
                     /\ c.eor <=> Taken(p, m) = DataLength(m)
<1>1. PICK t \in Nat : t = Taken(p, m)
  BY TakenFits DEF Typed
<1>2. CASE t = 0
  BY <1>1, <1>2 DEF SentOn
<1>3. CASE t # 0
  <2>1. PICK c : c = [kind |-> "data", sid |-> m.sid, id |-> m.id, units |-> t,
                      empty |-> m.left = 0, eor |-> t = DataLength(m)]
    OBVIOUS
  <2>2. /\ c \in DataChunk /\ c.kind = "data" /\ c.sid = m.sid /\ c.id = m.id /\ c.units = t
        /\ c.empty = (m.left = 0) /\ c.eor = (t = DataLength(m))
    BY <2>1 DEF DataChunk
  <2>3. SentOn(p, m) = Append(out[p], c)
    BY <1>1, <1>3, <2>1 DEF SentOn
  <2>4. t > 0
    BY <1>3
  <2>5. QED
    BY <1>1, <2>2, <2>3, <2>4, Zenon
<1>4. QED
  BY <1>2, <1>3

LEMMA SameResetsRefl ==
    ASSUME NEW t
    PROVE  SameResets(t, t)
BY DEF SameResets

LEMMA QuietStreams ==
    ASSUME TypeOK, NEW p \in Peers,
           \/ \E limit \in Limits[p] : Start(p, limit)
           \/ OnWritableState(p)
           \/ SendDataBlocked(p)
           \/ CommUp \/ ConveyData(p)
           \/ OnSenderDry(p) \/ OnDataFromSctp(p)
    PROVE  SameStreams /\ UNCHANGED partial_outgoing_message_
<1>1. TypeOK /\ Peer(p) \in Peers /\ \A r \in Peers : r = p \/ r = Peer(p)
  BY PeerFacts
<1>2. /\ UNCHANGED <<stream_status_by_sid_, resetting, opens, failures, partial_outgoing_message_>>
  BY DEF Start, OnWritableState, SendDataBlocked, CommUp, ConveyData, OnSenderDry, OnDataFromSctp,
         association, history
<1>3. \A r \in Peers : SameResets(tasks'[r], tasks[r])
  <2>1. CASE UNCHANGED tasks
    BY <2>1, SameResetsRefl
  <2>2. CASE CommUp
    <3>1. PICK n \in Notices : \A r \in Peers : tasks'[r] = Append(tasks[r], n)
      BY <1>1, <2>2, CommUpEffect
    <3>2. n \in Task /\ Harmless(n)
      BY DEF Notices, Task, Harmless
    <3>3. \A r \in Peers : tasks[r] \in Seq(Task)
      BY <1>1 DEF TypeOK
    <3>4. QED
      BY <3>1, <3>2, <3>3, HarmlessAppended
  <2>3. CASE ConveyData(p)
    <3>1. PICK c \in DataChunk, e \in Seq(Notices) :
              tasks'[Peer(p)] = Append(tasks[Peer(p)], c) /\ tasks'[p] = tasks[p] \o e
      BY <1>1, <2>3, ConveyDataEffect
    <3>2. c \in Task /\ Harmless(c)
      BY DEF DataChunk, Task, Harmless
    <3>3. tasks[p] \in Seq(Task) /\ tasks[Peer(p)] \in Seq(Task)
      BY <1>1 DEF TypeOK
    <3>4. SameResets(tasks'[p], tasks[p]) /\ SameResets(tasks'[Peer(p)], tasks[Peer(p)])
      BY <3>1, <3>2, <3>3, NoticesAppended, HarmlessAppended
    <3>5. QED
      BY <1>1, <3>4
  <2>4. ASSUME NEW kind \in {"dry", "data"}, Callback(p, kind)
        PROVE  \A r \in Peers : SameResets(tasks'[r], tasks[r])
    <3>1. /\ tasks[p] # <<>> /\ tasks[p] \in Seq(Task) /\ Head(tasks[p]).kind = kind
          /\ tasks'[p] = Tail(tasks[p]) /\ \A x \in Peers : x # p => tasks'[x] = tasks[x]
      BY <1>1, <2>4, CallbackEffect
    <3>2. SameResets(tasks'[p], tasks[p])
      BY <3>1, HarmlessTaken DEF Harmless
    <3>3. QED
      BY <3>1, <3>2, SameResetsRefl
  <2>5. QED
    BY <2>1, <2>2, <2>3, <2>4
       DEF Start, OnWritableState, SendDataBlocked, OnSenderDry, OnDataFromSctp
<1>4. QED
  BY <1>2, <1>3 DEF SameStreams

LEMMA QuietSteps ==
    ASSUME Typed, ResetsInv, NEW p \in Peers,
           \/ \E limit \in Limits[p] : Start(p, limit)
           \/ OnWritableState(p)
           \/ SendDataBlocked(p)
           \/ CommUp \/ ConveyData(p)
           \/ OnSenderDry(p) \/ OnDataFromSctp(p)
    PROVE  ResetsInv'
<1>1. TypeOK
  BY DEF Typed
<1>2. SameStreams /\ UNCHANGED <<resetting, partial_outgoing_message_>>
  BY <1>1, QuietStreams DEF SameStreams
<1>3. \A r \in Peers : RequestsMatch(r)'
  <2>1. CASE UNCHANGED out
    BY <1>2, <2>1 DEF ResetsInv, RequestsMatch
  <2>2. CASE ConveyData(p)
    <3>1. out[p] # <<>> /\ Head(out[p]).kind = "data" /\ out' = [out EXCEPT ![p] = Tail(@)]
      BY <2>2 DEF ConveyData
    <3>2. out'[p] = Tail(out[p]) /\ \A r \in Peers : r # p => out'[r] = out[r]
      BY <1>1, <3>1 DEF TypeOK
    <3>3. QED
      BY <1>2, <3>1, <3>2, RequestsStay DEF ResetsInv
  <2>3. QED
    BY <2>1, <2>2
       DEF Start, OnWritableState, SendDataBlocked, CommUp, OnSenderDry, OnDataFromSctp, association
<1>4. \A r \in Peers, s \in Sids : Buffered(r, s)' => Buffered(r, s)
  BY <1>2 DEF Buffered
<1>5. QED
  BY <1>2, <1>3, <1>4, ResetsInvSame

LEMMA SendDataResets ==
    ASSUME Typed, ResetsInv, NEW p \in Peers, NEW s \in Sids, NEW size \in Nat, SendData(p, s, size)
    PROVE  ResetsInv'
<1>1. PICK m : m = [sid |-> s, id |-> Len(log[p]) + 1, left |-> size]
  OBVIOUS
<1>2. m.sid = s /\ m.id \in Nat /\ m.left = size
  BY <1>1 DEF Typed, TypeOK
<1>3. /\ out' = [out EXCEPT ![p] = SentOn(p, m)] /\ Open(p, s)
      /\ partial_outgoing_message_' = [partial_outgoing_message_ EXCEPT ![p] =
             IF Left(p, m) \in 1..(size - 1) THEN <<[m EXCEPT !.left = Left(p, m)]>> ELSE <<>>]
      /\ UNCHANGED <<stream_status_by_sid_, tasks, resetting, failures, opens>>
  BY <1>1 DEF SendData
<1>4. SameStreams
  BY <1>3, SameResetsRefl DEF SameStreams
<1>5. \A r \in Peers : RequestsMatch(r)'
  <2>1. out'[p] = SentOn(p, m) /\ \A r \in Peers : r # p => out'[r] = out[r]
    BY <1>3 DEF Typed, TypeOK
  <2>2. out'[p] = out[p] \/ \E c \in DataChunk : out'[p] = Append(out[p], c)
    BY <1>2, <2>1, SentOnIs
  <2>3. QED
    BY <1>3, <2>1, <2>2, RequestsStay DEF ResetsInv
<1>6. \A r \in Peers, t \in Sids : Buffered(r, t)' => Buffered(r, t) \/ Open(r, t)
  <2>1. SUFFICES ASSUME NEW r \in Peers, NEW t \in Sids, Buffered(r, t)'
                 PROVE  Buffered(r, t) \/ Open(r, t)
    OBVIOUS
  <2>2. CASE r # p
    <3>1. partial_outgoing_message_'[r] = partial_outgoing_message_[r]
      BY <1>3, <2>2 DEF Typed, TypeOK
    <3>2. QED
      BY <2>1, <3>1 DEF Buffered
  <2>3. CASE r = p
    <3>1. PICK x : x = [m EXCEPT !.left = Left(p, m)]
      OBVIOUS
    <3>2. x.sid = s
      BY <1>1, <3>1
    <3>3. partial_outgoing_message_'[p] = <<x>> \/ partial_outgoing_message_'[p] = <<>>
      BY <1>3, <3>1 DEF Typed, TypeOK
    <3>4. t = s
      BY <2>1, <2>3, <3>2, <3>3 DEF Buffered
    <3>5. QED
      BY <1>3, <2>3, <3>4
  <2>4. QED
    BY <2>2, <2>3
<1>7. QED
  BY <1>4, <1>5, <1>6, ResetsInvSame
-----------------------------------------------------------------------------
(* A stream is opened.                                                       *)

SameFlags(r, s) ==
    /\ Known(r, s)' <=> Known(r, s)
    /\ Closing(r, s)' <=> Closing(r, s)
    /\ Asked(r, s)' <=> Asked(r, s)
    /\ OutDone(r, s)' <=> OutDone(r, s)
    /\ InDone(r, s)' <=> InDone(r, s)

LEMMA OpenIs ==
    ASSUME NEW r, NEW s
    PROVE  /\ Open(r, s) <=> Known(r, s) /\ ~Closing(r, s) /\ ~OutDone(r, s) /\ ~InDone(r, s)
           /\ Closing(r, s) \/ OutDone(r, s) \/ InDone(r, s) \/ Asked(r, s) => Known(r, s)
BY DEF Open, is_open, Known, Closing, OutDone, InDone, Asked

LEMMA OpenIsNext ==
    ASSUME NEW r, NEW s
    PROVE  /\ Open(r, s)' <=> Known(r, s)' /\ ~Closing(r, s)' /\ ~OutDone(r, s)' /\ ~InDone(r, s)'
           /\ Closing(r, s)' \/ OutDone(r, s)' \/ InDone(r, s)' \/ Asked(r, s)' => Known(r, s)'
BY DEF Open, is_open, Known, Closing, OutDone, InDone, Asked

\* Resets handled by q, and underway to it, against those sent by p.
Balance(p, q, s) ==
    opens[q][s] + Count(ResetReceived(q, s)) + Count(Underway(p, s))
        = opens[p][s] + Count(ResetSent(p, s))

\* The parts of ResetsCounted, with a name for the peer.
LEMMA CountedFor ==
    ASSUME NEW p, NEW q, q = Peer(p), NEW s, ResetsCounted(p, s)
    PROVE  /\ Balance(p, q, s)
           /\ Closing(p, s) => opens[p][s] <= opens[q][s]
           /\ HoldsOnce(tasks[q], "incoming", s)
           /\ Unconveyed(p, s) => ~Holds(tasks[q], "incoming", s)
           /\ InFlight(p, s) => /\ Known(p, s) /\ ~OutDone(p, s) /\ HoldsOnce(tasks[p], "outgoing", s)
                                /\ s \in resetting[p].sids => ~Holds(tasks[p], "outgoing", s)
           /\ Known(p, s) /\ ResetSent(p, s) => Asked(p, s) /\ (Closing(p, s) \/ InDone(p, s))
BY DEF ResetsCounted, Balance

LEMMA CountedNext ==
    ASSUME NEW p, NEW q, q = Peer(p), NEW s,
           Balance(p, q, s)',
           Closing(p, s)' => opens'[p][s] <= opens'[q][s],
           HoldsOnce(tasks'[q], "incoming", s),
           Unconveyed(p, s)' => ~Holds(tasks'[q], "incoming", s),
           InFlight(p, s)' => /\ Known(p, s)' /\ ~OutDone(p, s)' /\ HoldsOnce(tasks'[p], "outgoing", s)
                              /\ s \in resetting'[p].sids => ~Holds(tasks'[p], "outgoing", s),
           Known(p, s)' /\ ResetSent(p, s)' => Asked(p, s)' /\ (Closing(p, s)' \/ InDone(p, s)')
    PROVE  ResetsCounted(p, s)'
BY DEF ResetsCounted, Balance

\* The counts of a balance.
LEMMA Balanced ==
    ASSUME NEW p, NEW q, NEW s
    PROVE  \E a \in 0 .. 1, b \in 0 .. 1, c \in 0 .. 1 :
               /\ a = Count(ResetReceived(q, s)) /\ b = Count(Underway(p, s))
               /\ c = Count(ResetSent(p, s))
               /\ a = 1 <=> ResetReceived(q, s)
               /\ b = 1 <=> Underway(p, s)
               /\ c = 1 <=> ResetSent(p, s)
               /\ Balance(p, q, s) <=> opens[q][s] + a + b = opens[p][s] + c
BY DEF Balance, Count

LEMMA BalancedNext ==
    ASSUME NEW p, NEW q, NEW s
    PROVE  \E a \in 0 .. 1, b \in 0 .. 1, c \in 0 .. 1 :
               /\ a = 1 <=> ResetReceived(q, s)'
               /\ b = 1 <=> Underway(p, s)'
               /\ c = 1 <=> ResetSent(p, s)'
               /\ Balance(p, q, s)' <=> opens'[q][s] + a + b = opens'[p][s] + c
BY DEF Balance, Count

LEMMA OpenStreamResets ==
    ASSUME Typed, ResetsInv, ~ReuseAfterRefusal,
           NEW p \in Peers, NEW s \in Sids, OpenStream(p, s)
    PROVE  ResetsInv'
<1>1. PICK q \in Peers : q = Peer(p) /\ p = Peer(q) /\ q # p /\ \A r \in Peers : r = p \/ r = q
  BY PeerFacts
<1>2. /\ failures = 0 /\ ~Known(p, s)
      /\ UNCHANGED <<partial_outgoing_message_, tasks, out, resetting, failures>>
  BY DEF OpenStream, Known, association
<1>3. /\ Known(p, s)' /\ ~Closing(p, s)' /\ ~Asked(p, s)' /\ ~OutDone(p, s)' /\ ~InDone(p, s)'
      /\ \A t \in Sids : t # s => SameFlags(p, t)
      /\ \A t \in Sids : SameFlags(q, t)
  <2>1. PICK g : g = [t \in DOMAIN stream_status_by_sid_[p] \cup {s} |->
                         IF t = s THEN NewStatus ELSE stream_status_by_sid_[p][t]]
    OBVIOUS
  <2>2. stream_status_by_sid_'[p] = g /\ stream_status_by_sid_'[q] = stream_status_by_sid_[q]
    BY <1>1, <2>1 DEF OpenStream, Typed, TypeOK
  <2>3. \A t \in Sids : SameFlags(q, t)
    BY <2>2 DEF SameFlags, Known, Closing, Asked, OutDone, InDone
  <2>4. \A t \in Sids : t # s => SameFlags(p, t)
    BY <2>1, <2>2 DEF SameFlags, Known, Closing, Asked, OutDone, InDone
  <2>5. Known(p, s)' /\ ~Closing(p, s)' /\ ~Asked(p, s)' /\ ~OutDone(p, s)' /\ ~InDone(p, s)'
    BY <2>1, <2>2 DEF Known, Closing, Asked, OutDone, InDone, NewStatus
  <2>6. QED
    BY <2>3, <2>4, <2>5
<1>4. /\ \A r \in Peers, t \in Sids : opens[r][t] \in Nat
      /\ opens'[p][s] = opens[p][s] + 1
      /\ \A t \in Sids : opens'[q][t] = opens[q][t] /\ (t # s => opens'[p][t] = opens[p][t])
  BY <1>1 DEF OpenStream, Typed, TypeOK
<1>5. \A r \in Peers, t \in Sids :
          /\ InFlight(r, t)' <=> InFlight(r, t)
          /\ Buffered(r, t)' <=> Buffered(r, t)
          /\ Unconveyed(r, t)' <=> Unconveyed(r, t)
          /\ Underway(r, t)' <=> Underway(r, t)
  BY <1>2 DEF InFlight, Buffered, Unconveyed, Underway
<1>6. ~InFlight(p, s) /\ ~Buffered(p, s)
  BY <1>2 DEF ResetsInv, ResetsCounted, FlightsClosed, ResetSent
<1>7. \A r \in Peers, t \in Sids : FlightsClosed(r, t)'
  <2>1. SUFFICES ASSUME NEW r \in Peers, NEW t \in Sids PROVE FlightsClosed(r, t)'
    OBVIOUS
  <2>2. FlightsClosed(r, t)
    BY DEF ResetsInv
  <2>3. CASE r = p /\ t = s
    BY <1>5, <1>6, <2>3 DEF FlightsClosed
  <2>4. CASE ~(r = p /\ t = s)
    <3>1. SameFlags(r, t)
      BY <1>1, <1>3, <2>4
    <3>2. QED
      BY <1>5, <2>2, <3>1, OpenIs, OpenIsNext DEF FlightsClosed, ResetSent, SameFlags
  <2>5. QED
    BY <2>3, <2>4
<1>8. ASSUME NEW r \in Peers, NEW t \in Sids PROVE ResetsCounted(r, t)'
  <2>1. PICK x \in Peers : x = Peer(r) /\ x # r /\ {x, r} = {p, q}
    BY <1>1
  <2>2. ResetsCounted(r, t) /\ UNCHANGED <<tasks, resetting>>
    BY <1>2 DEF ResetsInv
  <2>3. Balance(r, x, t)'
    <3>1. Balance(r, x, t)
      BY <2>1, <2>2, CountedFor
    <3>2. PICK a \in 0 .. 1, b \in 0 .. 1, c \in 0 .. 1 :
               /\ a = 1 <=> ResetReceived(x, t)
               /\ b = 1 <=> Underway(r, t)
               /\ c = 1 <=> ResetSent(r, t)
               /\ opens[x][t] + a + b = opens[r][t] + c
      BY <3>1, Balanced
    <3>3. PICK a1 \in 0 .. 1, b1 \in 0 .. 1, c1 \in 0 .. 1 :
               /\ a1 = 1 <=> ResetReceived(x, t)'
               /\ b1 = 1 <=> Underway(r, t)'
               /\ c1 = 1 <=> ResetSent(r, t)'
               /\ Balance(r, x, t)' <=> opens'[x][t] + a1 + b1 = opens'[r][t] + c1
      BY BalancedNext
    <3>4. b1 = b
      BY <1>5, <3>2, <3>3
    <3>5. /\ opens'[x][t] + a1 = opens[x][t] + a
      <4>1. CASE x = p /\ t = s
        <5>1. a1 = 0 /\ a = 1
          BY <1>2, <1>3, <3>2, <3>3, <4>1 DEF ResetReceived
        <5>2. QED
          BY <1>4, <4>1, <5>1
      <4>2. CASE ~(x = p /\ t = s)
        <5>1. SameFlags(x, t) /\ opens'[x][t] = opens[x][t]
          BY <1>1, <1>3, <1>4, <4>2
        <5>2. a1 = a
          BY <3>2, <3>3, <5>1 DEF ResetReceived, SameFlags
        <5>3. QED
          BY <5>1, <5>2
      <4>3. QED
        BY <4>1, <4>2
    <3>6. /\ opens'[r][t] + c1 = opens[r][t] + c
      <4>1. CASE r = p /\ t = s
        <5>1. c1 = 0 /\ c = 1
          BY <1>2, <1>3, <1>5, <1>6, <3>2, <3>3, <4>1 DEF ResetSent
        <5>2. QED
          BY <1>4, <4>1, <5>1
      <4>2. CASE ~(r = p /\ t = s)
        <5>1. SameFlags(r, t) /\ opens'[r][t] = opens[r][t]
          BY <1>1, <1>3, <1>4, <4>2
        <5>2. c1 = c
          BY <1>5, <3>2, <3>3, <5>1 DEF ResetSent, SameFlags
        <5>3. QED
          BY <5>1, <5>2
      <4>3. QED
        BY <4>1, <4>2
    <3>7. opens'[x][t] \in Nat /\ opens'[r][t] \in Nat /\ opens[x][t] \in Nat /\ opens[r][t] \in Nat
      BY <1>1, <1>4
    <3>8. opens'[x][t] + a1 + b1 = opens'[r][t] + c1
      BY <3>2, <3>4, <3>5, <3>6, <3>7
    <3>9. QED
      BY <3>3, <3>8
  <2>4. Closing(r, t)' => opens'[r][t] <= opens'[x][t]
    <3>1. Closing(r, t) => opens[r][t] <= opens[x][t]
      BY <2>1, <2>2, CountedFor
    <3>2. CASE r = p /\ t = s
      BY <1>3, <3>2
    <3>3. CASE ~(r = p /\ t = s)
      <4>1. SameFlags(r, t) /\ opens'[r][t] = opens[r][t] /\ opens[x][t] <= opens'[x][t]
        BY <1>1, <1>3, <1>4, <2>1, <3>3
      <4>2. opens'[x][t] \in Nat /\ opens[x][t] \in Nat /\ opens[r][t] \in Nat
        BY <1>1, <1>4
      <4>3. QED
        BY <3>1, <4>1, <4>2 DEF SameFlags
    <3>4. QED
      BY <3>2, <3>3
  <2>5. /\ HoldsOnce(tasks'[x], "incoming", t)
        /\ Unconveyed(r, t)' => ~Holds(tasks'[x], "incoming", t)
    BY <1>5, <2>1, <2>2, CountedFor
  <2>6. /\ InFlight(r, t) => /\ Known(r, t) /\ ~OutDone(r, t) /\ HoldsOnce(tasks[r], "outgoing", t)
                             /\ t \in resetting[r].sids => ~Holds(tasks[r], "outgoing", t)
        /\ Known(r, t) /\ ResetSent(r, t) => Asked(r, t) /\ (Closing(r, t) \/ InDone(r, t))
    BY <2>1, <2>2, CountedFor
  <2>7. /\ InFlight(r, t)' => /\ Known(r, t)' /\ ~OutDone(r, t)' /\ HoldsOnce(tasks'[r], "outgoing", t)
                              /\ t \in resetting'[r].sids => ~Holds(tasks'[r], "outgoing", t)
        /\ Known(r, t)' /\ ResetSent(r, t)' => Asked(r, t)' /\ (Closing(r, t)' \/ InDone(r, t)')
    <3>1. CASE r = p /\ t = s
      BY <1>3, <1>5, <1>6, <3>1 DEF ResetSent
    <3>2. CASE ~(r = p /\ t = s)
      <4>1. SameFlags(r, t)
        BY <1>1, <1>3, <3>2
      <4>2. QED
        BY <1>5, <2>2, <2>6, <4>1 DEF SameFlags, ResetSent
    <3>3. QED
      BY <3>1, <3>2
  <2>8. QED
    BY <2>1, <2>3, <2>4, <2>5, <2>7, CountedNext
<1>9. \A r \in Peers : NoneRefused(r)' /\ RequestsMatch(r)'
  BY <1>2 DEF ResetsInv, NoneRefused, RequestsMatch
<1>10. QED
  BY <1>2, <1>7, <1>8, <1>9 DEF ResetsInv
-----------------------------------------------------------------------------
(* usrsctp conveys resets.                                                   *)

\* Where the resets of a stream are, each at one place only.
PlacedOnce(r, s) ==
    /\ HoldsOnce(tasks[r], "incoming", s)
    /\ Unconveyed(r, s) => ~Holds(tasks[Peer(r)], "incoming", s)
    /\ InFlight(r, s) => /\ HoldsOnce(tasks[r], "outgoing", s)
                         /\ s \in resetting[r].sids => ~Holds(tasks[r], "outgoing", s)

LEMMA PlacesOf ==
    ASSUME ResetsInv, failures = 0, NEW r \in Peers, NEW s \in Sids
    PROVE  PlacedOnce(r, s)
<1>1. ResetsCounted(r, s) /\ ResetsCounted(Peer(r), s) /\ Peer(Peer(r)) = r
  BY PeerFacts DEF ResetsInv
<1>2. QED
  BY <1>1 DEF PlacedOnce, ResetsCounted

LEMMA ResetsMoved ==
    ASSUME Typed, ResetsInv,
           UNCHANGED <<stream_status_by_sid_, opens, failures, partial_outgoing_message_>>,
           \A r \in Peers, s \in Sids :
               /\ InFlight(r, s)' <=> InFlight(r, s)
               /\ Underway(r, s)' <=> Underway(r, s),
           \A r \in Peers : RequestsMatch(r)',
           failures = 0 => \A r \in Peers : NoneRefused(r)' /\ \A s \in Sids : PlacedOnce(r, s)'
    PROVE  ResetsInv'
<1>1. \A r \in Peers, s \in Sids :
          /\ SameFlags(r, s) /\ (Open(r, s)' <=> Open(r, s)) /\ (Buffered(r, s)' <=> Buffered(r, s))
  BY DEF SameFlags, Known, Closing, Asked, OutDone, InDone, Open, Buffered
<1>2. \A r \in Peers, s \in Sids :
          /\ ResetSent(r, s)' <=> ResetSent(r, s)
          /\ ResetReceived(r, s)' <=> ResetReceived(r, s)
  BY <1>1 DEF SameFlags, ResetSent, ResetReceived
<1>3. \A r \in Peers, s \in Sids : FlightsClosed(r, s)'
  BY <1>1, <1>2 DEF ResetsInv, FlightsClosed
<1>4. ASSUME failures = 0, NEW r \in Peers, NEW s \in Sids PROVE ResetsCounted(r, s)'
  <2>1. PICK x \in Peers : x = Peer(r) /\ Peer(x) = r
    BY PeerFacts
  <2>2. ResetsCounted(r, s)
    BY <1>4 DEF ResetsInv
  <2>3. Balance(r, x, s)'
    <3>1. Balance(r, x, s)
      BY <2>1, <2>2, CountedFor
    <3>2. Count(ResetReceived(x, s))' = Count(ResetReceived(x, s))
      BY <1>2 DEF Count
    <3>3. /\ Count(Underway(r, s))' = Count(Underway(r, s))
          /\ Count(ResetSent(r, s))' = Count(ResetSent(r, s))
      BY <1>2 DEF Count
    <3>4. QED
      BY <3>1, <3>2, <3>3 DEF Balance
  <2>4. PlacedOnce(r, s)' /\ PlacedOnce(x, s)'
    BY <1>4
  <2>5. /\ InFlight(r, s) => Known(r, s) /\ ~OutDone(r, s)
        /\ Known(r, s) /\ ResetSent(r, s) => Asked(r, s) /\ (Closing(r, s) \/ InDone(r, s))
        /\ Closing(r, s) => opens[r][s] <= opens[x][s]
    BY <2>1, <2>2, CountedFor
  <2>6. /\ HoldsOnce(tasks'[x], "incoming", s)
        /\ Unconveyed(r, s)' => ~Holds(tasks'[x], "incoming", s)
        /\ InFlight(r, s)' => /\ HoldsOnce(tasks'[r], "outgoing", s)
                              /\ s \in resetting'[r].sids => ~Holds(tasks'[r], "outgoing", s)
    BY <2>1, <2>4 DEF PlacedOnce
  <2>7. /\ InFlight(r, s)' => Known(r, s)' /\ ~OutDone(r, s)'
        /\ Known(r, s)' /\ ResetSent(r, s)' => Asked(r, s)' /\ (Closing(r, s)' \/ InDone(r, s)')
        /\ Closing(r, s)' => opens'[r][s] <= opens'[x][s]
    BY <1>1, <1>2, <2>5 DEF SameFlags
  <2>8. QED
    BY <2>1, <2>3, <2>6, <2>7, CountedNext
<1>5. ASSUME failures # 0, NEW r \in Peers, NEW s \in Sids PROVE UsedOnce(r, s)'
  BY <1>1, <1>2, <1>5, PeerFacts DEF ResetsInv, UsedOnce
<1>6. QED
  BY <1>3, <1>4, <1>5 DEF ResetsInv

LEMMA ConveyResetStep ==
    ASSUME Typed, ResetsInv, NEW p \in Peers, ConveyReset(p)
    PROVE  ResetsInv'
<1>1. PICK q \in Peers : q = Peer(p) /\ p = Peer(q) /\ q # p /\ \A r \in Peers : r = p \/ r = q
  BY PeerFacts
<1>2. /\ TypeOK /\ out[p] # <<>> /\ Head(out[p]).kind = "reset"
      /\ out[p] \in Seq(Chunk) /\ Head(out[p]).sids \subseteq Sids
  BY RequestAtHead DEF Typed, ConveyReset
<1>3. /\ Head(out[p]) = out[p][1] /\ 1 \in DOMAIN out[p]
      /\ resetting[p].phase = "sent" /\ Head(out[p]).sids = resetting[p].sids
  <2>1. Head(out[p]) = out[p][1] /\ 1 \in DOMAIN out[p]
    BY <1>2
  <2>2. QED
    BY <1>2, <2>1 DEF ResetsInv, RequestsMatch
<1>4. PICK e \in Task : e = [kind |-> "incoming", sids |-> resetting[p].sids]
  BY <1>2, <1>3 DEF Task
<1>5. /\ tasks[q] \in Seq(Task) /\ tasks'[q] = Append(tasks[q], e) /\ tasks'[p] = tasks[p]
  <2>1. tasks[q] \in Seq(Task)
    BY <1>2 DEF TypeOK
  <2>2. tasks'[q] = Append(tasks[q], e) /\ tasks'[p] = tasks[p]
    <3>1. tasks' = Posted(q, <<e>>)
      BY <1>1, <1>3, <1>4 DEF ConveyReset
    <3>2. QED
      BY <1>1, <1>2, <3>1, ResetStepsEffect
  <2>3. QED
    BY <2>1, <2>2
<1>6. /\ resetting'[q] = resetting[q]
      /\ resetting'[p].phase = "performed" /\ resetting'[p].sids = resetting[p].sids
      /\ out'[q] = out[q] /\ out'[p] = Tail(out[p])
  BY <1>1, <1>2 DEF ConveyReset, TypeOK
<1>7. \A s \in Sids :
          /\ Holds(tasks'[q], "incoming", s) <=> Holds(tasks[q], "incoming", s) \/ s \in resetting[p].sids
          /\ Holds(tasks'[q], "outgoing", s) <=> Holds(tasks[q], "outgoing", s)
          /\ HoldsOnce(tasks[q], "outgoing", s) => HoldsOnce(tasks'[q], "outgoing", s)
          /\ HoldsOnce(tasks[q], "incoming", s) /\ ~(Holds(tasks[q], "incoming", s) /\ s \in resetting[p].sids)
             => HoldsOnce(tasks'[q], "incoming", s)
  <2>1. SUFFICES ASSUME NEW s \in Sids
        PROVE  /\ Holds(tasks'[q], "incoming", s) <=> Holds(tasks[q], "incoming", s) \/ s \in resetting[p].sids
               /\ Holds(tasks'[q], "outgoing", s) <=> Holds(tasks[q], "outgoing", s)
               /\ HoldsOnce(tasks[q], "outgoing", s) => HoldsOnce(tasks'[q], "outgoing", s)
               /\ HoldsOnce(tasks[q], "incoming", s) /\ ~(Holds(tasks[q], "incoming", s) /\ s \in resetting[p].sids)
                  => HoldsOnce(tasks'[q], "incoming", s)
    OBVIOUS
  <2>2. /\ Resets(e, "incoming", s) <=> s \in resetting[p].sids
        /\ ~Resets(e, "outgoing", s)
    BY <1>4 DEF Resets
  <2>3. QED
    BY <1>5, <2>2, HoldsAppended
<1>8. \A s \in Sids : ~Unconveyed(p, s)' /\ (Unconveyed(q, s)' <=> Unconveyed(q, s))
                      /\ (Unconveyed(p, s) <=> s \in resetting[p].sids)
  BY <1>3, <1>6 DEF Unconveyed
<1>9. \A r \in Peers, s \in Sids :
               /\ InFlight(r, s)' <=> InFlight(r, s)
               /\ Underway(r, s)' <=> Underway(r, s)
  <2>1. \A s \in Sids : InFlight(p, s)' <=> InFlight(p, s)
    BY <1>5, <1>6 DEF InFlight
  <2>2. \A s \in Sids : InFlight(q, s)' <=> InFlight(q, s)
    BY <1>6, <1>7 DEF InFlight
  <2>3. \A s \in Sids : Underway(p, s)' <=> Underway(p, s)
    BY <1>1, <1>7, <1>8 DEF Underway
  <2>4. \A s \in Sids : Underway(q, s)' <=> Underway(q, s)
    BY <1>1, <1>5, <1>8 DEF Underway
  <2>5. QED
    BY <1>1, <2>1, <2>2, <2>3, <2>4
<1>10. ASSUME failures = 0, NEW s \in Sids PROVE PlacedOnce(p, s)' /\ PlacedOnce(q, s)'
  <2>1. PlacedOnce(p, s) /\ PlacedOnce(q, s)
    BY <1>10, PlacesOf
  <2>2. PlacedOnce(p, s)'
    BY <1>5, <1>6, <1>8, <1>9, <2>1 DEF PlacedOnce
  <2>3. HoldsOnce(tasks'[q], "incoming", s)
    BY <1>1, <1>7, <1>8, <2>1 DEF PlacedOnce
  <2>4. PlacedOnce(q, s)'
    BY <1>1, <1>5, <1>6, <1>7, <1>8, <1>9, <2>1, <2>3 DEF PlacedOnce
  <2>5. QED
    BY <2>2, <2>4
<1>11. ASSUME failures = 0, NEW r \in Peers PROVE NoneRefused(r)'
  <2>1. NoneRefused(r)
    BY <1>11 DEF ResetsInv
  <2>2. CASE r = p
    BY <1>5, <2>1, <2>2 DEF NoneRefused
  <2>3. CASE r = q
    <3>1. e.kind # "failed"
      BY <1>4
    <3>2. QED
      BY <1>5, <2>1, <2>3, <3>1 DEF NoneRefused
  <2>4. QED
    BY <1>1, <2>2, <2>3
<1>12. RequestsMatch(q)' /\ RequestsMatch(p)'
  <2>1. RequestsMatch(q)'
    BY <1>6 DEF ResetsInv, RequestsMatch
  <2>2. \A i \in DOMAIN Tail(out[p]) :
            Tail(out[p])[i] = out[p][i + 1] /\ i + 1 \in DOMAIN out[p] /\ i + 1 # 1
    BY <1>2
  <2>3. \A i \in DOMAIN out[p] : out[p][i].kind = "reset" => i = 1
    BY <1>2, <1>3 DEF ResetsInv, RequestsMatch
  <2>4. \A i \in DOMAIN out'[p] : out'[p][i].kind # "reset"
    BY <1>6, <2>2, <2>3
  <2>5. RequestsMatch(p)'
    BY <1>6, <2>4 DEF RequestsMatch
  <2>6. QED
    BY <2>1, <2>5
<1>13. UNCHANGED <<stream_status_by_sid_, opens, failures, partial_outgoing_message_>>
  BY DEF ConveyReset, history
<1>14. QED
  BY <1>1, <1>9, <1>10, <1>11, <1>12, <1>13, ResetsMoved

LEMMA AnswerResetStep ==
    ASSUME Typed, ResetsInv, NEW p \in Peers, AnswerReset(p)
    PROVE  ResetsInv'
<1>1. PICK q \in Peers : q = Peer(p) /\ p = Peer(q) /\ q # p /\ \A r \in Peers : r = p \/ r = q
  BY PeerFacts
<1>2. TypeOK /\ resetting[p].phase = "performed" /\ resetting[p].sids \subseteq Sids
  BY DEF Typed, TypeOK, AnswerReset
<1>3. PICK e \in Task : e = [kind |-> "outgoing", sids |-> resetting[p].sids]
  BY <1>2 DEF Task
<1>4. tasks[p] \in Seq(Task) /\ tasks'[p] = Append(tasks[p], e) /\ tasks'[q] = tasks[q]
  BY <1>1, <1>2, <1>3, ResetStepsEffect DEF AnswerReset, TypeOK
<1>5. /\ resetting'[q] = resetting[q]
      /\ resetting'[p].phase = "none" /\ resetting'[p].sids = {} /\ out' = out
  BY <1>1, <1>2 DEF AnswerReset, TypeOK, NoReset
<1>6. \A s \in Sids :
          /\ Holds(tasks'[p], "outgoing", s) <=> Holds(tasks[p], "outgoing", s) \/ s \in resetting[p].sids
          /\ Holds(tasks'[p], "incoming", s) <=> Holds(tasks[p], "incoming", s)
          /\ HoldsOnce(tasks[p], "incoming", s) => HoldsOnce(tasks'[p], "incoming", s)
          /\ HoldsOnce(tasks[p], "outgoing", s) /\ ~(Holds(tasks[p], "outgoing", s) /\ s \in resetting[p].sids)
             => HoldsOnce(tasks'[p], "outgoing", s)
  <2>1. SUFFICES ASSUME NEW s \in Sids
        PROVE  /\ Holds(tasks'[p], "outgoing", s) <=> Holds(tasks[p], "outgoing", s) \/ s \in resetting[p].sids
               /\ Holds(tasks'[p], "incoming", s) <=> Holds(tasks[p], "incoming", s)
               /\ HoldsOnce(tasks[p], "incoming", s) => HoldsOnce(tasks'[p], "incoming", s)
               /\ HoldsOnce(tasks[p], "outgoing", s) /\ ~(Holds(tasks[p], "outgoing", s) /\ s \in resetting[p].sids)
                  => HoldsOnce(tasks'[p], "outgoing", s)
    OBVIOUS
  <2>2. /\ Resets(e, "outgoing", s) <=> s \in resetting[p].sids
        /\ ~Resets(e, "incoming", s)
    BY <1>3 DEF Resets
  <2>3. QED
    BY <1>4, <2>2, HoldsAppended
<1>7. \A s \in Sids : /\ ~Unconveyed(p, s) /\ ~Unconveyed(p, s)'
                      /\ Unconveyed(q, s)' <=> Unconveyed(q, s)
  BY <1>2, <1>5 DEF Unconveyed
<1>8. \A r \in Peers, s \in Sids :
               /\ InFlight(r, s)' <=> InFlight(r, s)
               /\ Underway(r, s)' <=> Underway(r, s)
  <2>1. \A s \in Sids : InFlight(p, s)' <=> InFlight(p, s)
    BY <1>5, <1>6 DEF InFlight
  <2>2. \A s \in Sids : InFlight(q, s)' <=> InFlight(q, s)
    BY <1>4, <1>5 DEF InFlight
  <2>3. \A s \in Sids : Underway(p, s)' <=> Underway(p, s)
    BY <1>1, <1>4, <1>7 DEF Underway
  <2>4. \A s \in Sids : Underway(q, s)' <=> Underway(q, s)
    BY <1>1, <1>6, <1>7 DEF Underway
  <2>5. QED
    BY <1>1, <2>1, <2>2, <2>3, <2>4
<1>9. ASSUME failures = 0, NEW s \in Sids PROVE PlacedOnce(p, s)' /\ PlacedOnce(q, s)'
  <2>1. PlacedOnce(p, s) /\ PlacedOnce(q, s)
    BY <1>9, PlacesOf
  <2>2. ASSUME InFlight(p, s)' PROVE HoldsOnce(tasks'[p], "outgoing", s)
    BY <1>6, <1>8, <2>1, <2>2 DEF PlacedOnce
  <2>3. PlacedOnce(p, s)'
    BY <1>1, <1>5, <1>6, <1>7, <2>1, <2>2 DEF PlacedOnce
  <2>4. PlacedOnce(q, s)'
    BY <1>1, <1>4, <1>5, <1>6, <1>7, <1>8, <2>1 DEF PlacedOnce
  <2>5. QED
    BY <2>3, <2>4
<1>10. ASSUME failures = 0, NEW r \in Peers PROVE NoneRefused(r)'
  <2>1. NoneRefused(r)
    BY <1>10 DEF ResetsInv
  <2>2. CASE r = q
    BY <1>4, <2>1, <2>2 DEF NoneRefused
  <2>3. CASE r = p
    <3>1. e.kind # "failed"
      BY <1>3
    <3>2. QED
      BY <1>4, <2>1, <2>3, <3>1 DEF NoneRefused
  <2>4. QED
    BY <1>1, <2>2, <2>3
<1>11. RequestsMatch(q)' /\ RequestsMatch(p)'
  <2>1. RequestsMatch(q) /\ RequestsMatch(p)
    BY DEF ResetsInv
  <2>2. QED
    BY <1>2, <1>5, <2>1 DEF RequestsMatch
<1>12. UNCHANGED <<stream_status_by_sid_, opens, failures, partial_outgoing_message_>>
  BY DEF AnswerReset, history
<1>13. QED
  BY <1>1, <1>8, <1>9, <1>10, <1>11, <1>12, ResetsMoved

\* A refused reset leaves the queue, and no stream was or will be used twice.
LEMMA FailResetStep ==
    ASSUME Typed, ResetsInv, ~ReuseAfterRefusal, NEW p \in Peers, FailReset(p)
    PROVE  ResetsInv'
<1>1. PICK q \in Peers : q = Peer(p) /\ p = Peer(q) /\ q # p /\ \A r \in Peers : r = p \/ r = q
  BY PeerFacts
<1>2. /\ TypeOK /\ out[p] # <<>> /\ Head(out[p]).kind = "reset" /\ out[p] \in Seq(Chunk)
      /\ \A r \in Peers, s \in Sids : opens[r][s] = 1
  BY RequestAtHead DEF Typed, FailReset
<1>3. PICK e \in Task : e = [kind |-> "failed"]
  BY DEF Task
<1>4. tasks[p] \in Seq(Task) /\ tasks'[p] = Append(tasks[p], e) /\ tasks'[q] = tasks[q]
  BY <1>1, <1>2, <1>3, ResetStepsEffect DEF FailReset, TypeOK
<1>5. /\ resetting'[q] = resetting[q] /\ out'[q] = out[q]
      /\ resetting'[p].phase = "none" /\ resetting'[p].sids = {} /\ out'[p] = Tail(out[p])
  BY <1>1, <1>2 DEF FailReset, TypeOK, NoReset
<1>6. \A s \in Sids :
          /\ Holds(tasks'[p], "outgoing", s) <=> Holds(tasks[p], "outgoing", s)
          /\ Holds(tasks'[p], "incoming", s) <=> Holds(tasks[p], "incoming", s)
  <2>1. \A s : ~Resets(e, "outgoing", s) /\ ~Resets(e, "incoming", s)
    BY <1>3 DEF Resets
  <2>2. QED
    BY <1>4, <2>1, HoldsAppended
<1>7. \A s \in Sids : ~Unconveyed(p, s)' /\ (Unconveyed(q, s)' <=> Unconveyed(q, s))
  BY <1>5 DEF Unconveyed
<1>8. \A r \in Peers, s \in Sids :
               /\ InFlight(r, s)' => InFlight(r, s)
               /\ Underway(r, s)' => Underway(r, s)
  <2>1. \A s \in Sids : InFlight(p, s)' => InFlight(p, s)
    BY <1>5, <1>6 DEF InFlight
  <2>2. \A s \in Sids : InFlight(q, s)' => InFlight(q, s)
    BY <1>4, <1>5 DEF InFlight
  <2>3. \A s \in Sids : Underway(p, s)' => Underway(p, s)
    BY <1>1, <1>4, <1>7 DEF Underway
  <2>4. \A s \in Sids : Underway(q, s)' => Underway(q, s)
    BY <1>1, <1>6, <1>7 DEF Underway
  <2>5. QED
    BY <1>1, <2>1, <2>2, <2>3, <2>4
<1>9. UNCHANGED <<stream_status_by_sid_, opens, partial_outgoing_message_>> /\ failures' # 0
  BY <1>2 DEF FailReset, history, TypeOK
<1>10. \A r \in Peers, s \in Sids :
          /\ SameFlags(r, s) /\ (Open(r, s)' <=> Open(r, s)) /\ (Buffered(r, s)' <=> Buffered(r, s))
          /\ ResetSent(r, s)' => ResetSent(r, s)
          /\ ResetReceived(r, s)' <=> ResetReceived(r, s)
  <2>1. \A r \in Peers, s \in Sids :
          /\ SameFlags(r, s) /\ (Open(r, s)' <=> Open(r, s)) /\ (Buffered(r, s)' <=> Buffered(r, s))
    BY <1>9 DEF SameFlags, Known, Closing, Asked, OutDone, InDone, Open, Buffered
  <2>2. QED
    BY <1>8, <2>1 DEF SameFlags, ResetSent, ResetReceived
<1>11. \A r \in Peers, s \in Sids : FlightsClosed(r, s)'
  BY <1>8, <1>10 DEF ResetsInv, FlightsClosed
<1>12. ASSUME NEW r \in Peers, NEW s \in Sids PROVE UsedOnce(r, s)'
  <2>1. PICK x \in Peers : x = Peer(r)
    BY PeerFacts
  <2>2. Underway(r, s) \/ ResetReceived(x, s) => ~Open(r, s) /\ ~Buffered(r, s)
    <3>1. CASE failures # 0
      BY <2>1, <3>1 DEF ResetsInv, UsedOnce
    <3>2. CASE failures = 0
      <4>1. Balance(r, x, s)
        BY <2>1, <3>2, CountedFor DEF ResetsInv
      <4>2. PICK a \in 0 .. 1, b \in 0 .. 1, c \in 0 .. 1 :
                 /\ a = 1 <=> ResetReceived(x, s)
                 /\ b = 1 <=> Underway(r, s)
                 /\ c = 1 <=> ResetSent(r, s)
                 /\ opens[x][s] + a + b = opens[r][s] + c
        BY <4>1, Balanced
      <4>3. a + b <= c
        BY <1>2, <4>2
      <4>4. Underway(r, s) \/ ResetReceived(x, s) => ResetSent(r, s)
        BY <4>2, <4>3
      <4>5. FlightsClosed(r, s)
        BY DEF ResetsInv
      <4>6. QED
        BY <4>4, <4>5, OpenIs DEF FlightsClosed, ResetSent
    <3>3. QED
      BY <3>1, <3>2
  <2>3. opens'[r][s] = 1
    BY <1>2, <1>9
  <2>4. QED
    BY <1>8, <1>10, <2>1, <2>2, <2>3 DEF UsedOnce
<1>13. RequestsMatch(q)' /\ RequestsMatch(p)'
  <2>1. RequestsMatch(q)'
    BY <1>5 DEF ResetsInv, RequestsMatch
  <2>2. \A i \in DOMAIN Tail(out[p]) :
            Tail(out[p])[i] = out[p][i + 1] /\ i + 1 \in DOMAIN out[p] /\ i + 1 # 1
    BY <1>2
  <2>3. \A i \in DOMAIN out[p] : out[p][i].kind = "reset" => i = 1
    <3>1. Head(out[p]) = out[p][1] /\ 1 \in DOMAIN out[p]
      BY <1>2
    <3>2. QED
      BY <1>2, <3>1 DEF ResetsInv, RequestsMatch
  <2>4. \A i \in DOMAIN out'[p] : out'[p][i].kind # "reset"
    BY <1>5, <2>2, <2>3
  <2>5. RequestsMatch(p)'
    BY <1>5, <2>4 DEF RequestsMatch
  <2>6. QED
    BY <2>1, <2>5
<1>14. QED
  BY <1>1, <1>9, <1>11, <1>12, <1>13 DEF ResetsInv
-----------------------------------------------------------------------------
(* Steps that end with SendQueuedStreamResets.  What they have done before   *)
(* that is described by the next map, which differs from it in the resets    *)
(* asked for only.                                                           *)

\* A reset is in flight, and has been sent, before the call.
Flying(p, s) == s \in resetting[p].sids \/ Holds(tasks'[p], "outgoing", s)

SentBefore(p, s) == ~Known(p, s)' \/ OutDone(p, s)' \/ Flying(p, s)

BalanceBefore(p, q, s) ==
    opens[q][s] + Count(ResetReceived(q, s)) + Count(Underway(p, s))
        = opens[p][s] + Count(SentBefore(p, s))

LEMMA BalancedBefore ==
    ASSUME NEW p, NEW q, NEW s
    PROVE  \E a \in 0 .. 1, b \in 0 .. 1, c \in 0 .. 1 :
               /\ a = 1 <=> ResetReceived(q, s)
               /\ b = 1 <=> Underway(p, s)
               /\ c = 1 <=> SentBefore(p, s)
               /\ BalanceBefore(p, q, s) <=> opens[q][s] + a + b = opens[p][s] + c
BY DEF BalanceBefore, Count

ReadyCounted(p, q, status, s) ==
    /\ Flying(p, s) => /\ Known(p, s)' /\ ~OutDone(p, s)' /\ HoldsOnce(tasks'[p], "outgoing", s)
                       /\ s \in resetting[p].sids => ~Holds(tasks'[p], "outgoing", s)
    /\ Known(p, s)' /\ SentBefore(p, s)
       => status[s].outgoing_reset_initiated /\ (Closing(p, s)' \/ InDone(p, s)')
    /\ Closing(p, s)' => opens[p][s] <= opens[q][s]
    /\ BalanceBefore(p, q, s)

ReadyOnce(p, q, s) ==
    Underway(p, s) \/ ResetReceived(q, s) => ~Open(p, s)' /\ ~Buffered(p, s)'

Ready(p, q, status, s) ==
    /\ Flying(p, s) => ~Open(p, s)'
    /\ Buffered(p, s)' => ~SentBefore(p, s)
    /\ failures = 0 => ReadyCounted(p, q, status, s) /\ ResetsCounted(q, s)'
    /\ failures # 0 => ReadyOnce(p, q, s) /\ UsedOnce(q, s)'

\* Nothing but the resets of R changes with the call.
Asking(p, q, status, partial, o, R) ==
    /\ UNCHANGED <<opens, failures>>
    /\ tasks'[q] = tasks[q] /\ resetting'[q] = resetting[q]
    /\ stream_status_by_sid_'[q] = stream_status_by_sid_[q]
    /\ partial_outgoing_message_'[q] = partial_outgoing_message_[q]
    /\ partial_outgoing_message_'[p] = partial
    /\ \A s \in Sids : MapBecomes(p, status, s)
    /\ AsksFor(p, status, partial, o, R)

\* After the call.
LEMMA AskedFlights ==
    ASSUME NEW p, NEW q, NEW status, NEW partial, NEW o, NEW R, Asking(p, q, status, partial, o, R),
           NEW s \in Sids, q = Peer(p)
    PROVE  /\ InFlight(p, s)' <=> Flying(p, s) \/ s \in R
           /\ ResetSent(p, s)' <=> SentBefore(p, s) \/ s \in R
           /\ Underway(p, s)' <=> Underway(p, s) \/ s \in R
           /\ Unconveyed(p, s)' <=> Unconveyed(p, s) \/ s \in R
           /\ s \in R => /\ resetting[p].sids = {} /\ resetting[p].phase = "none"
                         /\ Known(p, s)' /\ Asked(p, s)' /\ (Closing(p, s)' \/ InDone(p, s)')
                         /\ ~status[s].outgoing_reset_initiated /\ ~Buffered(p, s)'
           /\ Known(p, s)' /\ status[s].outgoing_reset_initiated => Asked(p, s)'
           /\ s \in resetting'[p].sids => s \in resetting[p].sids \/ s \in R
<1>1. /\ MapBecomes(p, status, s) /\ AsksFor(p, status, partial, o, R) /\ tasks'[q] = tasks[q]
      /\ partial_outgoing_message_'[p] = partial
  BY DEF Asking
<1>2. /\ s \in R => s \in DOMAIN status /\ need_outgoing_reset(status[s]) /\ Asked(p, s)'
      /\ s \in R => \A i \in DOMAIN partial : partial[i].sid # s
      /\ R # {} => resetting[p].sids = {} /\ resetting[p].phase = "none"
      /\ R # {} => resetting'[p].sids = R /\ resetting'[p].phase = "sent"
      /\ R = {} => resetting'[p] = resetting[p]
  BY <1>1 DEF AsksFor, NoReset
<1>3. InFlight(p, s)' <=> Flying(p, s) \/ s \in R
  BY <1>2 DEF InFlight, Flying
<1>4. Unconveyed(p, s)' <=> Unconveyed(p, s) \/ s \in R
  BY <1>2 DEF Unconveyed
<1>5. Underway(p, s)' <=> Underway(p, s) \/ s \in R
  BY <1>1, <1>4 DEF Underway
<1>6. s \in R => /\ resetting[p].sids = {} /\ resetting[p].phase = "none"
                 /\ Known(p, s)' /\ Asked(p, s)' /\ (Closing(p, s)' \/ InDone(p, s)')
                 /\ ~status[s].outgoing_reset_initiated /\ ~Buffered(p, s)'
  BY <1>1, <1>2 DEF MapBecomes, need_outgoing_reset, Buffered
<1>7. Known(p, s)' /\ status[s].outgoing_reset_initiated => Asked(p, s)'
  BY <1>1 DEF MapBecomes
<1>8. ResetSent(p, s)' <=> SentBefore(p, s) \/ s \in R
  BY <1>3 DEF ResetSent, SentBefore
<1>9. s \in resetting'[p].sids => s \in resetting[p].sids \/ s \in R
  BY <1>2
<1>10. QED
  BY <1>3, <1>4, <1>5, <1>6, <1>7, <1>8, <1>9

LEMMA AskedCounted ==
    ASSUME Typed, NEW p \in Peers, NEW q \in Peers, q = Peer(p), p = Peer(q),
           NEW status, NEW partial, NEW o, NEW R, Asking(p, q, status, partial, o, R),
           NEW s \in Sids, ResetsCounted(p, s), ResetsCounted(q, s)', ReadyCounted(p, q, status, s)
    PROVE  ResetsCounted(p, s)'
<1>1. /\ InFlight(p, s)' <=> Flying(p, s) \/ s \in R
      /\ ResetSent(p, s)' <=> SentBefore(p, s) \/ s \in R
      /\ Underway(p, s)' <=> Underway(p, s) \/ s \in R
      /\ Unconveyed(p, s)' <=> Unconveyed(p, s) \/ s \in R
      /\ s \in R => /\ resetting[p].sids = {}
                    /\ Known(p, s)' /\ Asked(p, s)' /\ (Closing(p, s)' \/ InDone(p, s)')
                    /\ ~status[s].outgoing_reset_initiated
      /\ Known(p, s)' /\ status[s].outgoing_reset_initiated => Asked(p, s)'
      /\ s \in resetting'[p].sids => s \in resetting[p].sids \/ s \in R
  BY AskedFlights
<1>2. opens' = opens /\ tasks'[q] = tasks[q] /\ stream_status_by_sid_'[q] = stream_status_by_sid_[q]
  BY DEF Asking
<1>3. PICK m \in Nat, n \in Nat : m = opens[p][s] /\ n = opens[q][s]
  BY DEF Typed, TypeOK
<1>4. PICK a \in 0 .. 1, b \in 0 .. 1, c \in 0 .. 1 :
           /\ a = 1 <=> ResetReceived(q, s)
           /\ b = 1 <=> Underway(p, s)
           /\ c = 1 <=> SentBefore(p, s)
           /\ n + a + b = m + c
  <2>1. \E a \in 0 .. 1, b \in 0 .. 1, c \in 0 .. 1 :
            /\ a = 1 <=> ResetReceived(q, s)
            /\ b = 1 <=> Underway(p, s)
            /\ c = 1 <=> SentBefore(p, s)
            /\ opens[q][s] + a + b = opens[p][s] + c
    BY BalancedBefore DEF ReadyCounted
  <2>2. QED
    BY <1>3, <2>1
<1>5. PICK d \in 0 .. 1, f \in 0 .. 1, g \in 0 .. 1 :
           /\ d = 1 <=> ResetReceived(p, s)'
           /\ f = 1 <=> Underway(q, s)'
           /\ g = 1 <=> ResetSent(q, s)'
           /\ m + d + f = n + g
  <2>1. Balance(q, p, s)'
    BY DEF ResetsCounted, Balance
  <2>2. \E d \in 0 .. 1, f \in 0 .. 1, g \in 0 .. 1 :
            /\ d = 1 <=> ResetReceived(p, s)'
            /\ f = 1 <=> Underway(q, s)'
            /\ g = 1 <=> ResetSent(q, s)'
            /\ opens'[p][s] + d + f = opens'[q][s] + g
    BY <2>1, BalancedNext
  <2>3. QED
    BY <1>2, <1>3, <2>2
<1>6. s \in R => ~SentBefore(p, s)
  BY <1>1 DEF ReadyCounted
<1>7. s \in R => ~Underway(p, s)
  <2>1. SUFFICES ASSUME s \in R, Underway(p, s) PROVE FALSE
    OBVIOUS
  <2>2. n + 1 <= m
    BY <1>4, <1>6, <2>1
  <2>3. ~Closing(p, s)'
    <3>1. ~(m <= n)
      BY <2>2
    <3>2. QED
      BY <1>3, <3>1 DEF ReadyCounted
  <2>4. d = 1
    BY <1>1, <1>5, <2>1, <2>3 DEF ResetReceived
  <2>5. QED
    BY <1>5, <2>2, <2>4
<1>8. Balance(p, q, s)'
  <2>1. PICK a1 \in 0 .. 1, b1 \in 0 .. 1, c1 \in 0 .. 1 :
             /\ a1 = 1 <=> ResetReceived(q, s)'
             /\ b1 = 1 <=> Underway(p, s)'
             /\ c1 = 1 <=> ResetSent(p, s)'
             /\ Balance(p, q, s)' <=> opens'[q][s] + a1 + b1 = opens'[p][s] + c1
    BY BalancedNext
  <2>2. a1 = a
    BY <1>2, <1>4, <2>1 DEF ResetReceived, Known, InDone
  <2>3. n + a1 + b1 = m + c1 => Balance(p, q, s)'
    BY <1>2, <1>3, <2>1
  <2>4. n + a1 + b1 = m + c1
    <3>1. CASE s \in R
      <4>1. b1 = 1 /\ c1 = 1 /\ b = 0 /\ c = 0
        BY <1>1, <1>4, <1>6, <1>7, <2>1, <3>1
      <4>2. QED
        BY <1>4, <2>2, <4>1
    <3>2. CASE s \notin R
      <4>1. b1 = b /\ c1 = c
        BY <1>1, <1>4, <2>1, <3>2
      <4>2. QED
        BY <1>4, <2>2, <4>1
    <3>3. QED
      BY <3>1, <3>2
  <2>5. QED
    BY <2>3, <2>4
<1>9. Closing(p, s)' => opens'[p][s] <= opens'[q][s]
  BY <1>2 DEF ReadyCounted
<1>10. HoldsOnce(tasks[q], "incoming", s) /\ (Unconveyed(p, s) => ~Holds(tasks[q], "incoming", s))
  BY CountedFor
<1>11. HoldsOnce(tasks'[q], "incoming", s) /\ (Unconveyed(p, s)' => ~Holds(tasks'[q], "incoming", s))
  BY <1>1, <1>2, <1>7, <1>10 DEF Underway
<1>12. InFlight(p, s)' => /\ Known(p, s)' /\ ~OutDone(p, s)' /\ HoldsOnce(tasks'[p], "outgoing", s)
                          /\ s \in resetting'[p].sids => ~Holds(tasks'[p], "outgoing", s)
  <2>1. CASE s \in R
    <3>1. ~Holds(tasks'[p], "outgoing", s) /\ ~OutDone(p, s)'
      BY <1>6, <2>1 DEF SentBefore, Flying
    <3>2. HoldsOnce(tasks'[p], "outgoing", s)
      BY <3>1 DEF Holds, HoldsOnce
    <3>3. QED
      BY <1>1, <2>1, <3>1, <3>2
  <2>2. CASE s \notin R
    BY <1>1, <2>2 DEF ReadyCounted
  <2>3. QED
    BY <2>1, <2>2
<1>13. Known(p, s)' /\ ResetSent(p, s)' => Asked(p, s)' /\ (Closing(p, s)' \/ InDone(p, s)')
  BY <1>1 DEF ReadyCounted
<1>14. QED
  BY <1>8, <1>9, <1>11, <1>12, <1>13, CountedNext

\* A step that ends with SendQueuedStreamResets keeps the invariant if what it
\* did before the call does.
LEMMA ResettingStep ==
    ASSUME Typed, ResetsInv, NEW p \in Peers, NEW q \in Peers, q = Peer(p), p = Peer(q), p # q,
           NEW status \in StatusMap, NEW partial, NEW o \in Seq(Chunk),
           SendQueuedStreamResets(p, status, partial, o),
           UNCHANGED <<opens, failures>>, tasks'[q] = tasks[q],
           partial_outgoing_message_'[q] = partial_outgoing_message_[q],
           partial_outgoing_message_'[p] = partial,
           o = out[p] \/ \E c \in DataChunk : o = Append(out[p], c),
           failures = 0 => NoneRefused(p)',
           \A s \in Sids : Ready(p, q, status, s)
    PROVE  ResetsInv'
<1>1. PICK R \in SUBSET Sids : AsksFor(p, status, partial, o, R)
  BY QueuedResets DEF Typed
<1>2. OnlyAt(p) /\ \A s \in Sids : MapBecomes(p, status, s)
  BY QueuedResets DEF Typed
<1>3. Asking(p, q, status, partial, o, R) /\ out'[q] = out[q]
  BY <1>1, <1>2 DEF Asking, OnlyAt
<1>4. \A r \in Peers : r = p \/ r = q
  BY PeerFacts
<1>5. \A s \in Sids : FlightsClosed(p, s)' /\ FlightsClosed(q, s)'
  <2>1. SUFFICES ASSUME NEW s \in Sids PROVE FlightsClosed(p, s)' /\ FlightsClosed(q, s)'
    OBVIOUS
  <2>2. FlightsClosed(q, s)'
    <3>1. FlightsClosed(q, s)
      BY DEF ResetsInv
    <3>2. QED
      BY <1>3, <3>1 DEF Asking, FlightsClosed, InFlight, Open, Buffered, ResetSent, Known, OutDone
  <2>3. /\ InFlight(p, s)' <=> Flying(p, s) \/ s \in R
        /\ ResetSent(p, s)' <=> SentBefore(p, s) \/ s \in R
        /\ s \in R => ~Buffered(p, s)' /\ (Closing(p, s)' \/ InDone(p, s)')
    BY <1>3, AskedFlights
  <2>4. Ready(p, q, status, s)
    OBVIOUS
  <2>5. QED
    BY <2>2, <2>3, <2>4, OpenIsNext DEF Ready, FlightsClosed
<1>6. ASSUME failures' = 0, NEW r \in Peers PROVE NoneRefused(r)'
  BY <1>3, <1>4, <1>6 DEF ResetsInv, NoneRefused, Asking
<1>7. ASSUME failures' = 0, NEW s \in Sids PROVE ResetsCounted(p, s)' /\ ResetsCounted(q, s)'
  <2>1. ReadyCounted(p, q, status, s) /\ ResetsCounted(q, s)' /\ ResetsCounted(p, s)
    BY <1>7 DEF Ready, ResetsInv
  <2>2. QED
    BY <1>3, <2>1, AskedCounted
<1>8. ASSUME failures' # 0, NEW s \in Sids PROVE UsedOnce(p, s)' /\ UsedOnce(q, s)'
  <2>1. ReadyOnce(p, q, s) /\ UsedOnce(q, s)' /\ UsedOnce(p, s)
    BY <1>8 DEF Ready, ResetsInv
  <2>2. /\ Underway(p, s)' <=> Underway(p, s) \/ s \in R
        /\ s \in R => ~Buffered(p, s)' /\ (Closing(p, s)' \/ InDone(p, s)')
    BY <1>3, AskedFlights
  <2>3. ResetReceived(q, s)' <=> ResetReceived(q, s)
    BY <1>3 DEF Asking, ResetReceived, Known, InDone
  <2>4. opens'[p][s] = 1
    BY <2>1 DEF UsedOnce
  <2>5. QED
    BY <2>1, <2>2, <2>3, <2>4, OpenIsNext DEF ReadyOnce, UsedOnce
<1>9. RequestsMatch(q)'
  BY <1>3 DEF Asking, ResetsInv, RequestsMatch
<1>10. RequestsMatch(p)'
  <2>1. RequestsMatch(p)
    BY DEF ResetsInv
  <2>2. CASE R = {}
    <3>1. resetting'[p] = resetting[p] /\ out'[p] = o
      BY <1>1, <2>2 DEF AsksFor
    <3>2. QED
      BY <2>1, <3>1, RequestsStay
  <2>3. CASE R # {}
    <3>1. /\ resetting[p].phase # "sent" /\ resetting'[p] = [phase |-> "sent", sids |-> R]
      BY <1>1, <2>3 DEF AsksFor, NoReset
    <3>2. PICK c \in Chunk : c = [kind |-> "reset", sids |-> R]
      BY DEF Chunk
    <3>3. out'[p] = Append(o, c)
      BY <1>1, <2>3, <3>2 DEF AsksFor
    <3>4. \A i \in DOMAIN o : o[i].kind # "reset"
      <4>1. \A i \in DOMAIN out[p] : out[p][i].kind # "reset"
        BY <2>1, <3>1 DEF RequestsMatch
      <4>2. ASSUME NEW d \in DataChunk, o = Append(out[p], d) PROVE \A i \in DOMAIN o : o[i].kind # "reset"
        <5>1. d.kind # "reset"
          BY DEF DataChunk
        <5>2. out[p] \in Seq(Chunk)
          BY DEF Typed, TypeOK
        <5>3. QED
          BY <4>1, <4>2, <5>1, <5>2
      <4>3. QED
        BY <4>1, <4>2
    <3>5. PICK l \in Nat : l = Len(o)
      OBVIOUS
    <3>6. /\ DOMAIN out'[p] = 1 .. (l + 1) /\ out'[p][l + 1] = c
          /\ \A i \in 1 .. l : out'[p][i] = o[i] /\ i \in DOMAIN o
      BY <3>3, <3>5
    <3>7. \A i \in 1 .. (l + 1) : i \in 1 .. l \/ i = l + 1
      OBVIOUS
    <3>8. \A i \in DOMAIN out'[p] : out'[p][i].kind = "reset" => i = l + 1
      BY <3>4, <3>6, <3>7
    <3>9. c.sids = R
      BY <3>2
    <3>10. QED
      BY <3>1, <3>6, <3>8, <3>9 DEF RequestsMatch
  <2>4. QED
    BY <2>2, <2>3
<1>11. QED
  BY <1>4, <1>5, <1>6, <1>7, <1>8, <1>9, <1>10 DEF ResetsInv

\* While none was refused, a reset is sent only when the one before is handled
\* and the stream is used again at the other end.
LEMMA HandledBefore ==
    ASSUME Typed, ResetsInv, failures = 0, NEW p \in Peers, NEW q \in Peers, q = Peer(p), p = Peer(q),
           NEW s \in Sids, Underway(p, s)
    PROVE  ~ResetReceived(q, s)
<1>1. SUFFICES ASSUME ResetReceived(q, s) PROVE FALSE
  OBVIOUS
<1>2. PICK m \in Nat, n \in Nat : m = opens[p][s] /\ n = opens[q][s]
  BY DEF Typed, TypeOK
<1>3. /\ Balance(p, q, s) /\ Balance(q, p, s)
      /\ Closing(p, s) => m <= n
      /\ Known(p, s) /\ ResetSent(p, s) => Closing(p, s) \/ InDone(p, s)
  <2>1. ResetsCounted(p, s) /\ ResetsCounted(q, s)
    BY DEF ResetsInv
  <2>2. QED
    BY <1>2, <2>1, CountedFor
<1>4. PICK a \in 0 .. 1, b \in 0 .. 1, c \in 0 .. 1 :
           /\ a = 1 <=> ResetReceived(q, s)
           /\ b = 1 <=> Underway(p, s)
           /\ c = 1 <=> ResetSent(p, s)
           /\ n + a + b = m + c
  <2>1. \E a \in 0 .. 1, b \in 0 .. 1, c \in 0 .. 1 :
            /\ a = 1 <=> ResetReceived(q, s)
            /\ b = 1 <=> Underway(p, s)
            /\ c = 1 <=> ResetSent(p, s)
            /\ opens[q][s] + a + b = opens[p][s] + c
    BY <1>3, Balanced
  <2>2. QED
    BY <1>2, <2>1
<1>5. PICK d \in 0 .. 1, f \in 0 .. 1, g \in 0 .. 1 :
           /\ d = 1 <=> ResetReceived(p, s)
           /\ m + d + f = n + g
  <2>1. \E d \in 0 .. 1, f \in 0 .. 1, g \in 0 .. 1 :
            /\ d = 1 <=> ResetReceived(p, s)
            /\ opens[p][s] + d + f = opens[q][s] + g
    BY <1>3, Balanced
  <2>2. QED
    BY <1>2, <2>1
<1>6. a = 1 /\ b = 1
  BY <1>1, <1>4
<1>7. c = 1 /\ d = 0 /\ ~(m <= n)
  BY <1>4, <1>5, <1>6
<1>8. Known(p, s) /\ ~InDone(p, s) /\ ResetSent(p, s)
  BY <1>4, <1>5, <1>7 DEF ResetReceived
<1>9. QED
  BY <1>3, <1>7, <1>8

\* What the steps do to a stream before the call.
Keeps(p, q, status, s) ==
    /\ SentBefore(p, s) <=> ResetSent(p, s)
    /\ Flying(p, s) => InFlight(p, s)
    /\ Known(p, s)' => /\ Known(p, s)
                       /\ Closing(p, s) => Closing(p, s)'
                       /\ InDone(p, s) => InDone(p, s)'
    /\ Open(p, s)' => Open(p, s)
    /\ Closing(p, s)' => Closing(p, s) \/ opens[p][s] = opens[q][s]
    /\ Buffered(p, s)' => Buffered(p, s)
    /\ Holds(tasks'[p], "incoming", s) => Holds(tasks[p], "incoming", s)
    /\ ResetReceived(p, s)' => ResetReceived(p, s) \/ Holds(tasks[p], "incoming", s)

KeepsCounted(p, status, s) ==
    /\ Asked(p, s) /\ Known(p, s)' => status[s].outgoing_reset_initiated
    /\ Flying(p, s) => /\ Known(p, s)' /\ ~OutDone(p, s)' /\ HoldsOnce(tasks'[p], "outgoing", s)
                       /\ s \in resetting[p].sids => ~Holds(tasks'[p], "outgoing", s)
    /\ HoldsOnce(tasks'[p], "incoming", s)
    /\ \/ /\ ResetReceived(p, s)' <=> ResetReceived(p, s)
          /\ Holds(tasks'[p], "incoming", s) <=> Holds(tasks[p], "incoming", s)
       \/ /\ Holds(tasks[p], "incoming", s) /\ ~Holds(tasks'[p], "incoming", s)
          /\ ~ResetReceived(p, s) /\ ResetReceived(p, s)'

LeftAlone(q) ==
    /\ tasks'[q] = tasks[q] /\ resetting'[q] = resetting[q]
    /\ stream_status_by_sid_'[q] = stream_status_by_sid_[q]
    /\ partial_outgoing_message_'[q] = partial_outgoing_message_[q]

LEMMA PeerCounted ==
    ASSUME Typed, NEW p \in Peers, NEW q \in Peers, q = Peer(p), p = Peer(q), NEW status, NEW s \in Sids,
           LeftAlone(q), UNCHANGED opens, ResetsCounted(q, s),
           Keeps(p, q, status, s), KeepsCounted(p, status, s)
    PROVE  ResetsCounted(q, s)'
<1>1. /\ Known(q, s)' <=> Known(q, s)
      /\ Closing(q, s)' <=> Closing(q, s)
      /\ Asked(q, s)' <=> Asked(q, s)
      /\ OutDone(q, s)' <=> OutDone(q, s)
      /\ InDone(q, s)' <=> InDone(q, s)
      /\ InFlight(q, s)' <=> InFlight(q, s)
      /\ Unconveyed(q, s)' <=> Unconveyed(q, s)
  BY DEF LeftAlone, Known, Closing, Asked, OutDone, InDone, InFlight, Unconveyed
<1>2. ResetSent(q, s)' <=> ResetSent(q, s)
  BY <1>1 DEF ResetSent
<1>3. Unconveyed(q, s) => ~Holds(tasks[p], "incoming", s)
  BY CountedFor
<1>4. PICK m \in Nat, n \in Nat : m = opens[p][s] /\ n = opens[q][s]
  BY DEF Typed, TypeOK
<1>5. PICK a \in 0 .. 1, b \in 0 .. 1, c \in 0 .. 1 :
           /\ a = 1 <=> ResetReceived(p, s)
           /\ b = 1 <=> Underway(q, s)
           /\ c = 1 <=> ResetSent(q, s)
           /\ m + a + b = n + c
  <2>1. Balance(q, p, s)
    BY CountedFor
  <2>2. \E a \in 0 .. 1, b \in 0 .. 1, c \in 0 .. 1 :
            /\ a = 1 <=> ResetReceived(p, s)
            /\ b = 1 <=> Underway(q, s)
            /\ c = 1 <=> ResetSent(q, s)
            /\ opens[p][s] + a + b = opens[q][s] + c
    BY <2>1, Balanced
  <2>3. QED
    BY <1>4, <2>2
<1>6. PICK a1 \in 0 .. 1, b1 \in 0 .. 1, c1 \in 0 .. 1 :
           /\ a1 = 1 <=> ResetReceived(p, s)'
           /\ b1 = 1 <=> Underway(q, s)'
           /\ c1 = 1 <=> ResetSent(q, s)'
           /\ m + a1 + b1 = n + c1 => Balance(q, p, s)'
  <2>1. opens'[p][s] = m /\ opens'[q][s] = n
    BY <1>4
  <2>2. QED
    BY <2>1, BalancedNext
<1>7. c1 = c
  BY <1>2, <1>5, <1>6
<1>8. b1 = 1 => b = 1
  BY <1>1, <1>5, <1>6 DEF Underway, Keeps
<1>9. a1 + b1 = a + b
  <2>1. CASE /\ ResetReceived(p, s)' <=> ResetReceived(p, s)
             /\ Holds(tasks'[p], "incoming", s) <=> Holds(tasks[p], "incoming", s)
    <3>1. a1 = a /\ b1 = b
      BY <1>1, <1>5, <1>6, <2>1 DEF Underway
    <3>2. QED
      BY <3>1
  <2>2. CASE /\ Holds(tasks[p], "incoming", s) /\ ~Holds(tasks'[p], "incoming", s)
             /\ ~ResetReceived(p, s) /\ ResetReceived(p, s)'
    <3>1. b = 1 /\ b1 = 0 /\ a = 0 /\ a1 = 1
      BY <1>1, <1>3, <1>5, <1>6, <2>2 DEF Underway
    <3>2. QED
      BY <3>1
  <2>3. QED
    BY <2>1, <2>2 DEF KeepsCounted
<1>10. Balance(q, p, s)'
  BY <1>5, <1>6, <1>7, <1>9
<1>11. Closing(q, s)' => opens'[q][s] <= opens'[p][s]
  BY <1>1, CountedFor
<1>12. HoldsOnce(tasks'[p], "incoming", s) /\ (Unconveyed(q, s)' => ~Holds(tasks'[p], "incoming", s))
  BY <1>1, <1>3 DEF Keeps, KeepsCounted
<1>13. InFlight(q, s)' => /\ Known(q, s)' /\ ~OutDone(q, s)' /\ HoldsOnce(tasks'[q], "outgoing", s)
                          /\ s \in resetting'[q].sids => ~Holds(tasks'[q], "outgoing", s)
  <2>1. InFlight(q, s) => /\ Known(q, s) /\ ~OutDone(q, s) /\ HoldsOnce(tasks[q], "outgoing", s)
                          /\ s \in resetting[q].sids => ~Holds(tasks[q], "outgoing", s)
    BY CountedFor
  <2>2. QED
    BY <1>1, <2>1 DEF LeftAlone
<1>14. Known(q, s)' /\ ResetSent(q, s)' => Asked(q, s)' /\ (Closing(q, s)' \/ InDone(q, s)')
  BY <1>1, <1>2, CountedFor
<1>15. QED
  BY <1>10, <1>11, <1>12, <1>13, <1>14, CountedNext

LEMMA ReadyFor ==
    ASSUME Typed, ResetsInv, NEW p \in Peers, NEW q \in Peers, q = Peer(p), p = Peer(q),
           NEW status, NEW s \in Sids, LeftAlone(q), UNCHANGED opens,
           Keeps(p, q, status, s), failures = 0 => KeepsCounted(p, status, s)
    PROVE  Ready(p, q, status, s)
<1>1. FlightsClosed(p, s)
  BY DEF ResetsInv
<1>2. /\ Flying(p, s) => ~Open(p, s)'
      /\ Buffered(p, s)' => ~SentBefore(p, s)
  BY <1>1 DEF FlightsClosed, Keeps
<1>3. ASSUME failures = 0 PROVE ReadyCounted(p, q, status, s) /\ ResetsCounted(q, s)'
  <2>1. ResetsCounted(p, s) /\ ResetsCounted(q, s) /\ KeepsCounted(p, status, s)
    BY <1>3 DEF ResetsInv
  <2>2. Flying(p, s) => /\ Known(p, s)' /\ ~OutDone(p, s)' /\ HoldsOnce(tasks'[p], "outgoing", s)
                        /\ s \in resetting[p].sids => ~Holds(tasks'[p], "outgoing", s)
    BY <2>1 DEF KeepsCounted
  <2>3. /\ Known(p, s) /\ ResetSent(p, s) => Asked(p, s) /\ (Closing(p, s) \/ InDone(p, s))
        /\ Closing(p, s) => opens[p][s] <= opens[q][s]
        /\ Balance(p, q, s)
    BY <2>1, CountedFor
  <2>4. Known(p, s)' /\ SentBefore(p, s)
        => status[s].outgoing_reset_initiated /\ (Closing(p, s)' \/ InDone(p, s)')
    BY <2>1, <2>3 DEF Keeps, KeepsCounted
  <2>5. Closing(p, s)' => opens[p][s] <= opens[q][s]
    <3>1. PICK m \in Nat, n \in Nat : m = opens[p][s] /\ n = opens[q][s]
      BY DEF Typed, TypeOK
    <3>2. m = n => m <= n
      OBVIOUS
    <3>3. Closing(p, s)' => Closing(p, s) \/ opens[p][s] = opens[q][s]
      BY DEF Keeps
    <3>4. QED
      BY <2>3, <3>1, <3>2, <3>3
  <2>6. BalanceBefore(p, q, s)
    <3>1. Count(SentBefore(p, s)) = Count(ResetSent(p, s))
      BY DEF Keeps, Count
    <3>2. QED
      BY <2>3, <3>1 DEF Balance, BalanceBefore
  <2>7. ResetsCounted(q, s)'
    BY <2>1, PeerCounted
  <2>8. QED
    BY <2>2, <2>4, <2>5, <2>6, <2>7 DEF ReadyCounted
<1>4. ASSUME failures # 0 PROVE ReadyOnce(p, q, s) /\ UsedOnce(q, s)'
  <2>1. UsedOnce(p, s) /\ UsedOnce(q, s)
    BY <1>4 DEF ResetsInv
  <2>2. ReadyOnce(p, q, s)
    BY <2>1 DEF ReadyOnce, UsedOnce, Keeps
  <2>3. Unconveyed(q, s)' <=> Unconveyed(q, s)
    BY DEF LeftAlone, Unconveyed
  <2>4. Underway(q, s)' \/ ResetReceived(p, s)' => Underway(q, s) \/ ResetReceived(p, s)
    BY <2>3 DEF Underway, Keeps
  <2>5. (Open(q, s)' <=> Open(q, s)) /\ (Buffered(q, s)' <=> Buffered(q, s))
    BY DEF LeftAlone, Open, Buffered
  <2>6. UsedOnce(q, s)'
    BY <2>1, <2>4, <2>5 DEF UsedOnce
  <2>7. QED
    BY <2>2, <2>6
<1>5. QED
  BY <1>2, <1>3, <1>4 DEF Ready

\* The map is the same but for streams whose closing begins, and resets asked
\* for that were refused.
SameMap(p, q, status, s) ==
    /\ s \in DOMAIN status <=> Known(p, s)
    /\ s \in DOMAIN status =>
           /\ status[s].incoming_reset_complete <=> InDone(p, s)
           /\ status[s].outgoing_reset_complete <=> OutDone(p, s)
           /\ Closing(p, s) => status[s].closure_initiated
           /\ status[s].closure_initiated => Closing(p, s) \/ opens[p][s] = opens[q][s]
           /\ failures = 0 => (status[s].outgoing_reset_initiated <=> Asked(p, s))

LEMMA KeptMap ==
    ASSUME Typed, ResetsInv, NEW p \in Peers, NEW q \in Peers, q = Peer(p), p = Peer(q),
           NEW status, NEW s \in Sids, MapBecomes(p, status, s), SameMap(p, q, status, s),
           Buffered(p, s)' => Buffered(p, s),
           Holds(tasks'[p], "incoming", s) <=> Holds(tasks[p], "incoming", s),
           Holds(tasks'[p], "outgoing", s) <=> Holds(tasks[p], "outgoing", s),
           HoldsOnce(tasks[p], "incoming", s) => HoldsOnce(tasks'[p], "incoming", s),
           HoldsOnce(tasks[p], "outgoing", s) => HoldsOnce(tasks'[p], "outgoing", s)
    PROVE  Keeps(p, q, status, s) /\ (failures = 0 => KeepsCounted(p, status, s))
<1>1. /\ Known(p, s)' <=> Known(p, s)
      /\ InDone(p, s)' <=> InDone(p, s)
      /\ OutDone(p, s)' <=> OutDone(p, s)
      /\ Closing(p, s) => Closing(p, s)'
      /\ Closing(p, s)' => Closing(p, s) \/ opens[p][s] = opens[q][s]
      /\ failures = 0 /\ Known(p, s) /\ Asked(p, s) => status[s].outgoing_reset_initiated
  <2>1. InDone(p, s) \/ OutDone(p, s) \/ Closing(p, s) => Known(p, s)
    BY OpenIs
  <2>2. QED
    BY <2>1 DEF MapBecomes, SameMap
<1>2. Flying(p, s) <=> InFlight(p, s)
  BY DEF Flying, InFlight
<1>3. SentBefore(p, s) <=> ResetSent(p, s)
  BY <1>1, <1>2 DEF SentBefore, ResetSent
<1>4. ResetReceived(p, s)' <=> ResetReceived(p, s)
  BY <1>1 DEF ResetReceived
<1>5. Open(p, s)' => Open(p, s)
  BY <1>1, OpenIs, OpenIsNext
<1>6. Keeps(p, q, status, s)
  BY <1>1, <1>2, <1>3, <1>4, <1>5 DEF Keeps
<1>7. ASSUME failures = 0 PROVE KeepsCounted(p, status, s)
  <2>1. ResetsCounted(p, s) /\ PlacedOnce(p, s)
    BY <1>7, PlacesOf DEF ResetsInv
  <2>2. InFlight(p, s) => /\ Known(p, s) /\ ~OutDone(p, s) /\ HoldsOnce(tasks[p], "outgoing", s)
                          /\ s \in resetting[p].sids => ~Holds(tasks[p], "outgoing", s)
    BY <2>1, CountedFor
  <2>3. HoldsOnce(tasks[p], "incoming", s)
    BY <2>1 DEF PlacedOnce
  <2>4. QED
    BY <1>1, <1>2, <1>4, <1>7, <2>2, <2>3 DEF KeepsCounted
<1>8. QED
  BY <1>6, <1>7

LEMMA ResetStreamStep ==
    ASSUME Typed, ResetsInv, NEW p \in Peers, NEW t \in Sids, ResetStream(p, t)
    PROVE  ResetsInv'
<1>1. PICK q \in Peers : q = Peer(p) /\ p = Peer(q) /\ q # p
  BY PeerFacts
<1>2. PICK f \in StatusMap : f = stream_status_by_sid_[p]
  BY DEF Typed, TypeOK
<1>3. DOMAIN f \subseteq Sids /\ f \in [DOMAIN f -> StreamStatus] /\ t \in DOMAIN f
  BY <1>2, StatusMaps DEF ResetStream, Open
<1>4. PICK status \in StatusMap : status = [f EXCEPT ![t].closure_initiated = TRUE]
  BY <1>2, <1>3, MapsTyped DEF Typed
<1>5. /\ SendQueuedStreamResets(p, status, partial_outgoing_message_[p], out[p])
      /\ out[p] \in Seq(Chunk) /\ opens[p][t] = opens[q][t]
      /\ UNCHANGED <<partial_outgoing_message_, tasks, opens, failures>>
  BY <1>1, <1>2, <1>4 DEF ResetStream, history, Typed, TypeOK
<1>6. OnlyAt(p) /\ \A s \in Sids : MapBecomes(p, status, s)
  BY <1>5, QueuedResets DEF Typed
<1>7. LeftAlone(q)
  BY <1>1, <1>5, <1>6 DEF LeftAlone, OnlyAt
<1>8. ASSUME NEW s \in Sids PROVE Ready(p, q, status, s)
  <2>1. /\ DOMAIN status = DOMAIN f
        /\ \A x \in DOMAIN f :
              /\ status[x].incoming_reset_complete = f[x].incoming_reset_complete
              /\ status[x].outgoing_reset_complete = f[x].outgoing_reset_complete
              /\ status[x].outgoing_reset_initiated = f[x].outgoing_reset_initiated
              /\ status[x].closure_initiated = (f[x].closure_initiated \/ x = t)
    BY <1>3, <1>4 DEF StreamStatus
  <2>2. SameMap(p, q, status, s)
    BY <1>2, <1>5, <2>1 DEF SameMap, Known, InDone, OutDone, Closing, Asked
  <2>3. Buffered(p, s)' <=> Buffered(p, s)
    BY <1>5 DEF Buffered
  <2>4. Keeps(p, q, status, s) /\ (failures = 0 => KeepsCounted(p, status, s))
    BY <1>1, <1>5, <1>6, <2>2, <2>3, KeptMap
  <2>5. QED
    BY <1>1, <1>5, <1>7, <2>4, ReadyFor
<1>9. failures = 0 => NoneRefused(p)'
  BY <1>5 DEF ResetsInv, NoneRefused
<1>10. QED
  BY <1>1, <1>5, <1>8, <1>9, ResettingStep

\* A callback that says nothing of resets, with SendQueuedStreamResets.
LEMMA QueuedResetsSent ==
    ASSUME Typed, ResetsInv, NEW p \in Peers, NEW partial, NEW o \in Seq(Chunk),
           SendQueuedStreamResets(p, stream_status_by_sid_[p], partial, o),
           \E kind \in {"up", "threshold"} : Callback(p, kind),
           UNCHANGED <<opens, failures>>,
           o = out[p] \/ \E c \in DataChunk : o = Append(out[p], c),
           partial_outgoing_message_' = [partial_outgoing_message_ EXCEPT ![p] = partial],
           partial \in {<<>>, partial_outgoing_message_[p]}
    PROVE  ResetsInv'
<1>1. PICK q \in Peers : q = Peer(p) /\ p = Peer(q) /\ q # p
  BY PeerFacts
<1>2. PICK status \in StatusMap : status = stream_status_by_sid_[p]
  BY DEF Typed, TypeOK
<1>3. /\ tasks[p] # <<>> /\ tasks[p] \in Seq(Task) /\ Harmless(Head(tasks[p]))
      /\ tasks'[p] = Tail(tasks[p]) /\ tasks'[q] = tasks[q]
  BY <1>1, CallbackEffect DEF Typed, Harmless
<1>4. SameResets(tasks'[p], tasks[p])
  BY <1>3, HarmlessTaken
<1>5. OnlyAt(p) /\ \A s \in Sids : MapBecomes(p, status, s)
  BY <1>2, QueuedResets DEF Typed
<1>6. /\ partial_outgoing_message_'[p] = partial
      /\ partial_outgoing_message_'[q] = partial_outgoing_message_[q]
  BY <1>1 DEF Typed, TypeOK
<1>7. LeftAlone(q)
  BY <1>1, <1>3, <1>5, <1>6 DEF LeftAlone, OnlyAt
<1>8. ASSUME NEW s \in Sids PROVE Ready(p, q, status, s)
  <2>1. SameMap(p, q, status, s)
    BY <1>2 DEF SameMap, Known, InDone, OutDone, Closing, Asked
  <2>2. Buffered(p, s)' => Buffered(p, s)
    BY <1>6 DEF Buffered
  <2>3. /\ Holds(tasks'[p], "incoming", s) <=> Holds(tasks[p], "incoming", s)
        /\ Holds(tasks'[p], "outgoing", s) <=> Holds(tasks[p], "outgoing", s)
        /\ HoldsOnce(tasks[p], "incoming", s) => HoldsOnce(tasks'[p], "incoming", s)
        /\ HoldsOnce(tasks[p], "outgoing", s) => HoldsOnce(tasks'[p], "outgoing", s)
    BY <1>4 DEF SameResets
  <2>4. Keeps(p, q, status, s) /\ (failures = 0 => KeepsCounted(p, status, s))
    BY <1>1, <1>5, <2>1, <2>2, <2>3, KeptMap
  <2>5. QED
    BY <1>1, <1>7, <2>4, ReadyFor
<1>9. failures = 0 => NoneRefused(p)'
  BY <1>4 DEF ResetsInv, NoneRefused, SameResets
<1>10. QED
  BY <1>1, <1>2, <1>3, <1>6, <1>8, <1>9, ResettingStep

LEMMA AssocChangeStep ==
    ASSUME Typed, ResetsInv, NEW p \in Peers, OnNotificationAssocChange(p)
    PROVE  ResetsInv'
<1>1. PICK partial : partial = partial_outgoing_message_[p]
  OBVIOUS
<1>2. partial_outgoing_message_' = [partial_outgoing_message_ EXCEPT ![p] = partial]
  BY <1>1 DEF Typed, TypeOK, OnNotificationAssocChange
<1>3. out[p] \in Seq(Chunk)
  BY DEF Typed, TypeOK
<1>4. /\ Callback(p, "up") /\ UNCHANGED <<opens, failures>>
      /\ SendQueuedStreamResets(p, stream_status_by_sid_[p], partial, out[p])
  BY <1>1 DEF OnNotificationAssocChange, history
<1>5. QED
  BY <1>1, <1>2, <1>3, <1>4, QueuedResetsSent

LEMMA ThresholdStep ==
    ASSUME Typed, ResetsInv, NEW p \in Peers, OnSendThresholdCallback(p)
    PROVE  ResetsInv'
<1>1. PICK q \in Peers : q = Peer(p) /\ p = Peer(q) /\ q # p /\ \A r \in Peers : r = p \/ r = q
  BY PeerFacts
<1>2. Callback(p, "threshold") /\ UNCHANGED <<opens, failures>>
  BY ThresholdCases DEF history
<1>3. \A r \in Peers : SameResets(tasks'[r], tasks[r])
  <2>1. /\ tasks[p] # <<>> /\ tasks[p] \in Seq(Task) /\ Harmless(Head(tasks[p]))
        /\ tasks'[p] = Tail(tasks[p]) /\ tasks'[q] = tasks[q]
    BY <1>1, <1>2, CallbackEffect DEF Typed, Harmless
  <2>2. QED
    BY <1>1, <2>1, HarmlessTaken, SameResetsRefl
<1>4. CASE UNCHANGED <<partial_outgoing_message_, stream_status_by_sid_, out, resetting>>
  <2>1. SameStreams
    BY <1>2, <1>3, <1>4 DEF SameStreams
  <2>2. \A r \in Peers : RequestsMatch(r)'
    BY <1>4 DEF ResetsInv, RequestsMatch
  <2>3. \A r \in Peers, s \in Sids : Buffered(r, s)' => Buffered(r, s)
    BY <1>4 DEF Buffered
  <2>4. QED
    BY <2>1, <2>2, <2>3, ResetsInvSame
<1>5. ASSUME NEW m \in Range(partial_outgoing_message_[p]), PartSent(p, m) \/ RestSent(p, m)
      PROVE  ResetsInv'
  <2>1. /\ m.left \in Nat /\ m.sid \in Sids /\ m.id \in Nat /\ m \in Message
        /\ DOMAIN partial_outgoing_message_[p] = {1} /\ m = partial_outgoing_message_[p][1]
    BY <1>5, BufferedMessage DEF Message
  <2>2. out' = [out EXCEPT ![p] = SentOn(p, m)] /\ UNCHANGED <<stream_status_by_sid_, resetting>>
    BY <1>5 DEF PartSent, RestSent
  <2>3. SameStreams
    BY <1>2, <1>3, <2>2 DEF SameStreams
  <2>4. \A r \in Peers : RequestsMatch(r)'
    <3>1. out'[p] = SentOn(p, m) /\ \A r \in Peers : r # p => out'[r] = out[r]
      BY <2>2 DEF Typed, TypeOK
    <3>2. out'[p] = out[p] \/ \E c \in DataChunk : out'[p] = Append(out[p], c)
      BY <2>1, <3>1, SentOnIs
    <3>3. QED
      BY <2>2, <3>1, <3>2, RequestsStay DEF ResetsInv
  <2>5. \A r \in Peers, s \in Sids : Buffered(r, s)' => Buffered(r, s)
    <3>1. PICK x : x = [m EXCEPT !.left = Left(p, m)]
      OBVIOUS
    <3>2. x.sid = m.sid
      BY <2>1, <3>1 DEF Message
    <3>3. /\ partial_outgoing_message_'[p] \in {<<x>>, <<>>}
          /\ \A r \in Peers : r # p => partial_outgoing_message_'[r] = partial_outgoing_message_[r]
      BY <1>5, <3>1 DEF PartSent, RestSent, Typed, TypeOK
    <3>4. \A s \in Sids : Buffered(p, s)' => s = m.sid
      BY <3>2, <3>3 DEF Buffered
    <3>5. Buffered(p, m.sid)
      BY <2>1 DEF Buffered
    <3>6. QED
      BY <3>3, <3>4, <3>5 DEF Buffered
  <2>6. QED
    BY <2>3, <2>4, <2>5, ResetsInvSame
<1>6. ASSUME NEW m \in Range(partial_outgoing_message_[p]), RestSentThenResets(p, m)
      PROVE  ResetsInv'
  <2>1. m.left \in Nat /\ m.sid \in Sids /\ m.id \in Nat
    BY <1>6, BufferedMessage DEF Message
  <2>2. PICK o \in Seq(Chunk) : o = SentOn(p, m)
    BY <2>1, TakenFits DEF Typed
  <2>3. o = out[p] \/ \E c \in DataChunk : o = Append(out[p], c)
    BY <2>1, <2>2, SentOnIs
  <2>4. /\ SendQueuedStreamResets(p, stream_status_by_sid_[p], <<>>, o)
        /\ partial_outgoing_message_' = [partial_outgoing_message_ EXCEPT ![p] = <<>>]
    BY <1>6, <2>2 DEF RestSentThenResets
  <2>5. QED
    BY <1>2, <2>3, <2>4, QueuedResetsSent
<1>7. QED
  BY <1>4, <1>5, <1>6, ThresholdCases

\* OnStreamResetFailed forgets what was asked for, which happens only after a
\* refusal.
LEMMA ResetFailedStep ==
    ASSUME Typed, ResetsInv, NEW p \in Peers, OnStreamResetFailed(p)
    PROVE  ResetsInv'
<1>1. PICK q \in Peers : q = Peer(p) /\ p = Peer(q) /\ q # p
  BY PeerFacts
<1>2. PICK f \in StatusMap : f = stream_status_by_sid_[p]
  BY DEF Typed, TypeOK
<1>3. DOMAIN f \subseteq Sids /\ f \in [DOMAIN f -> StreamStatus]
  BY <1>2, StatusMaps
<1>4. PICK status \in StatusMap :
          status = [s \in DOMAIN f |-> [f[s] EXCEPT !.outgoing_reset_initiated = FALSE]]
  BY <1>2, MapsTyped DEF Typed
<1>5. /\ SendQueuedStreamResets(p, status, partial_outgoing_message_[p], out[p])
      /\ out[p] \in Seq(Chunk) /\ Callback(p, "failed")
      /\ UNCHANGED <<partial_outgoing_message_, opens, failures>>
  BY <1>2, <1>4 DEF OnStreamResetFailed, history, Typed, TypeOK
<1>6. /\ tasks[p] # <<>> /\ tasks[p] \in Seq(Task) /\ Head(tasks[p]).kind = "failed"
      /\ tasks'[p] = Tail(tasks[p]) /\ tasks'[q] = tasks[q]
  BY <1>1, <1>5, CallbackEffect DEF Typed
<1>7. failures # 0
  <2>1. ~NoneRefused(p)
    BY <1>6 DEF NoneRefused
  <2>2. QED
    BY <2>1 DEF ResetsInv
<1>8. OnlyAt(p) /\ \A s \in Sids : MapBecomes(p, status, s)
  BY <1>5, QueuedResets DEF Typed
<1>9. LeftAlone(q)
  BY <1>1, <1>5, <1>6, <1>8 DEF LeftAlone, OnlyAt
<1>10. ASSUME NEW s \in Sids PROVE Ready(p, q, status, s)
  <2>1. /\ DOMAIN status = DOMAIN f
        /\ \A x \in DOMAIN f :
              /\ status[x].incoming_reset_complete = f[x].incoming_reset_complete
              /\ status[x].outgoing_reset_complete = f[x].outgoing_reset_complete
              /\ status[x].closure_initiated = f[x].closure_initiated
    BY <1>3, <1>4 DEF StreamStatus
  <2>2. SameMap(p, q, status, s)
    BY <1>2, <1>7, <2>1 DEF SameMap, Known, InDone, OutDone, Closing, Asked
  <2>3. Buffered(p, s)' <=> Buffered(p, s)
    BY <1>5 DEF Buffered
  <2>4. /\ Holds(tasks'[p], "incoming", s) <=> Holds(tasks[p], "incoming", s)
        /\ Holds(tasks'[p], "outgoing", s) <=> Holds(tasks[p], "outgoing", s)
        /\ HoldsOnce(tasks[p], "incoming", s) => HoldsOnce(tasks'[p], "incoming", s)
        /\ HoldsOnce(tasks[p], "outgoing", s) => HoldsOnce(tasks'[p], "outgoing", s)
    <3>1. ~Resets(Head(tasks[p]), "incoming", s) /\ ~Resets(Head(tasks[p]), "outgoing", s)
      BY <1>6 DEF Resets
    <3>2. QED
      BY <1>6, <3>1, HoldsTail
  <2>5. Keeps(p, q, status, s)
    BY <1>1, <1>8, <2>2, <2>3, <2>4, KeptMap
  <2>6. QED
    BY <1>1, <1>5, <1>7, <1>9, <2>5, ReadyFor
<1>11. QED
  BY <1>1, <1>5, <1>6, <1>7, <1>10, ResettingStep

\* OnStreamResetEvent marks the streams, and forgets those reset in both
\* directions.
MarkedMap(p, status, sids, incoming, s) ==
    LET in == InDone(p, s) \/ (incoming /\ Known(p, s) /\ s \in sids)
        done == OutDone(p, s) \/ (~incoming /\ Known(p, s) /\ s \in sids)
    IN  /\ s \in DOMAIN status <=> Known(p, s) /\ ~(in /\ done)
        /\ s \in DOMAIN status =>
               /\ status[s].incoming_reset_complete <=> in
               /\ status[s].outgoing_reset_complete <=> done
               /\ status[s].closure_initiated <=> Closing(p, s)
               /\ status[s].outgoing_reset_initiated <=> Asked(p, s)

LEMMA MarkedMaps ==
    ASSUME TypeOK, NEW p \in Peers, NEW sids, NEW incoming \in BOOLEAN, NEW s \in Sids
    PROVE  MarkedMap(p, WithoutClosed(Marked(stream_status_by_sid_[p], sids, incoming)), sids, incoming, s)
<1>1. PICK f \in StatusMap : f = stream_status_by_sid_[p]
  BY DEF TypeOK
<1>2. DOMAIN f \subseteq Sids /\ f \in [DOMAIN f -> StreamStatus]
  BY StatusMaps
<1>3. PICK g : g = Marked(f, sids, incoming)
  OBVIOUS
<1>4. /\ DOMAIN g = DOMAIN f
      /\ \A x \in DOMAIN f :
            /\ g[x].incoming_reset_complete = (f[x].incoming_reset_complete \/ (x \in sids /\ incoming))
            /\ g[x].outgoing_reset_complete = (f[x].outgoing_reset_complete \/ (x \in sids /\ ~incoming))
            /\ g[x].closure_initiated = f[x].closure_initiated
            /\ g[x].outgoing_reset_initiated = f[x].outgoing_reset_initiated
  BY <1>2, <1>3 DEF Marked, StreamStatus
<1>5. PICK h : h = WithoutClosed(g)
  OBVIOUS
<1>6. /\ \A x : x \in DOMAIN h <=> x \in DOMAIN g /\ ~reset_complete(g[x])
      /\ \A x \in DOMAIN h : h[x] = g[x]
  BY <1>5 DEF WithoutClosed
<1>7. MarkedMap(p, h, sids, incoming, s)
  BY <1>1, <1>4, <1>6 DEF MarkedMap, Known, InDone, OutDone, Closing, Asked, reset_complete
<1>8. QED
  BY <1>1, <1>3, <1>5, <1>7

LEMMA KeptMarked ==
    ASSUME Typed, ResetsInv, NEW p \in Peers, NEW q \in Peers, q = Peer(p), p = Peer(q),
           NEW status, NEW s \in Sids, NEW sids, NEW incoming \in BOOLEAN,
           MapBecomes(p, status, s), MarkedMap(p, status, sids, incoming, s),
           Buffered(p, s)' => Buffered(p, s),
           tasks[p] \in Seq(Task), tasks[p] # <<>>, tasks'[p] = Tail(tasks[p]),
           Head(tasks[p]).kind = IF incoming THEN "incoming" ELSE "outgoing",
           Head(tasks[p]).sids = sids
    PROVE  Keeps(p, q, status, s) /\ (failures = 0 => KeepsCounted(p, status, s))
<1>1. /\ InDone(p, s)' <=> Known(p, s)' /\ (InDone(p, s) \/ (incoming /\ s \in sids))
      /\ OutDone(p, s)' <=> Known(p, s)' /\ (OutDone(p, s) \/ (~incoming /\ s \in sids))
      /\ Closing(p, s)' <=> Known(p, s)' /\ Closing(p, s)
      /\ Known(p, s)' => Known(p, s) /\ (Asked(p, s) => status[s].outgoing_reset_initiated)
      /\ Known(p, s) /\ ~Known(p, s)' => /\ InDone(p, s) \/ (incoming /\ s \in sids)
                                         /\ OutDone(p, s) \/ (~incoming /\ s \in sids)
      /\ Known(p, s)' => ~(InDone(p, s)' /\ OutDone(p, s)')
  BY DEF MapBecomes, MarkedMap
<1>2. /\ Resets(Head(tasks[p]), "incoming", s) <=> incoming /\ s \in sids
      /\ Resets(Head(tasks[p]), "outgoing", s) <=> ~incoming /\ s \in sids
  BY DEF Resets
<1>3. /\ Holds(tasks[p], "incoming", s) <=> Holds(tasks'[p], "incoming", s) \/ (incoming /\ s \in sids)
      /\ Holds(tasks[p], "outgoing", s) <=> Holds(tasks'[p], "outgoing", s) \/ (~incoming /\ s \in sids)
      /\ HoldsOnce(tasks[p], "incoming", s) => /\ HoldsOnce(tasks'[p], "incoming", s)
                                               /\ incoming /\ s \in sids => ~Holds(tasks'[p], "incoming", s)
      /\ HoldsOnce(tasks[p], "outgoing", s) => /\ HoldsOnce(tasks'[p], "outgoing", s)
                                               /\ ~incoming /\ s \in sids => ~Holds(tasks'[p], "outgoing", s)
  BY <1>2, HoldsTail
<1>4. /\ Flying(p, s) => InFlight(p, s)
      /\ InFlight(p, s) <=> Flying(p, s) \/ (~incoming /\ s \in sids)
  BY <1>3 DEF Flying, InFlight
<1>5. InDone(p, s) \/ OutDone(p, s) \/ Closing(p, s) => Known(p, s)
  BY OpenIs
<1>6. SentBefore(p, s) <=> ResetSent(p, s)
  BY <1>1, <1>4, <1>5 DEF SentBefore, ResetSent
<1>7. ResetReceived(p, s)' => ResetReceived(p, s) \/ (incoming /\ s \in sids)
  BY <1>1, <1>5 DEF ResetReceived
<1>8. Open(p, s)' => Open(p, s)
  BY <1>1, OpenIs, OpenIsNext
<1>9. Keeps(p, q, status, s)
  BY <1>1, <1>3, <1>4, <1>6, <1>7, <1>8 DEF Keeps
<1>10. ASSUME failures = 0 PROVE KeepsCounted(p, status, s)
  <2>1. ResetsCounted(p, s) /\ PlacedOnce(p, s)
    BY <1>10, PlacesOf DEF ResetsInv
  <2>2. InFlight(p, s) => /\ Known(p, s) /\ ~OutDone(p, s) /\ HoldsOnce(tasks[p], "outgoing", s)
                          /\ s \in resetting[p].sids => ~Holds(tasks[p], "outgoing", s)
    BY <2>1, CountedFor
  <2>3. HoldsOnce(tasks[p], "incoming", s)
    BY <2>1 DEF PlacedOnce
  <2>4. Flying(p, s) => ~(~incoming /\ s \in sids)
    BY <1>3, <1>4, <2>2 DEF Flying
  <2>5. Flying(p, s) => /\ Known(p, s)' /\ ~OutDone(p, s)' /\ HoldsOnce(tasks'[p], "outgoing", s)
                        /\ s \in resetting[p].sids => ~Holds(tasks'[p], "outgoing", s)
    BY <1>1, <1>3, <1>4, <2>2, <2>4
  <2>6. \/ /\ ResetReceived(p, s)' <=> ResetReceived(p, s)
           /\ Holds(tasks'[p], "incoming", s) <=> Holds(tasks[p], "incoming", s)
        \/ /\ Holds(tasks[p], "incoming", s) /\ ~Holds(tasks'[p], "incoming", s)
           /\ ~ResetReceived(p, s) /\ ResetReceived(p, s)'
    <3>1. CASE incoming /\ s \in sids
      <4>1. Holds(tasks[p], "incoming", s) /\ ~Holds(tasks'[p], "incoming", s)
        BY <1>3, <2>3, <3>1
      <4>2. Underway(q, s)
        BY <4>1 DEF Underway
      <4>3. ~ResetReceived(p, s)
        BY <1>10, <4>2, HandledBefore
      <4>4. ResetReceived(p, s)'
        BY <1>1, <3>1 DEF ResetReceived
      <4>5. QED
        BY <4>1, <4>3, <4>4
    <3>2. CASE ~(incoming /\ s \in sids)
      <4>1. ResetReceived(p, s) => ResetReceived(p, s)'
        BY <1>1, <1>5 DEF ResetReceived
      <4>2. QED
        BY <1>3, <1>7, <3>2, <4>1
    <3>3. QED
      BY <3>1, <3>2
  <2>7. QED
    BY <1>1, <1>3, <2>3, <2>5, <2>6 DEF KeepsCounted
<1>11. QED
  BY <1>9, <1>10

LEMMA ResetEventStep ==
    ASSUME Typed, ResetsInv, NEW p \in Peers, NEW kind \in {"incoming", "outgoing"},
           OnStreamResetEvent(p, kind)
    PROVE  ResetsInv'
<1>1. PICK q \in Peers : q = Peer(p) /\ p = Peer(q) /\ q # p
  BY PeerFacts
<1>2. PICK incoming \in BOOLEAN : incoming = (kind = "incoming")
  OBVIOUS
<1> DEFINE sids == Head(tasks[p]).sids
<1>3. PICK status \in StatusMap :
          status = WithoutClosed(Marked(stream_status_by_sid_[p], sids, incoming))
  BY MapsTyped DEF Typed
<1>4. /\ SendQueuedStreamResets(p, status, partial_outgoing_message_[p], out[p])
      /\ out[p] \in Seq(Chunk) /\ Callback(p, kind)
      /\ UNCHANGED <<partial_outgoing_message_, opens, failures>>
  BY <1>2, <1>3 DEF OnStreamResetEvent, history, Typed, TypeOK
<1>5. /\ tasks[p] # <<>> /\ tasks[p] \in Seq(Task) /\ Head(tasks[p]).kind = kind
      /\ tasks'[p] = Tail(tasks[p]) /\ tasks'[q] = tasks[q]
  BY <1>1, <1>4, CallbackEffect DEF Typed
<1>6. OnlyAt(p) /\ \A s \in Sids : MapBecomes(p, status, s)
  BY <1>4, QueuedResets DEF Typed
<1>7. LeftAlone(q)
  BY <1>1, <1>4, <1>5, <1>6 DEF LeftAlone, OnlyAt
<1>8. ASSUME NEW s \in Sids PROVE Ready(p, q, status, s)
  <2>1. MarkedMap(p, status, sids, incoming, s)
    BY <1>3, MarkedMaps DEF Typed
  <2>2. Buffered(p, s)' <=> Buffered(p, s)
    BY <1>4 DEF Buffered
  <2>3. Head(tasks[p]).kind = IF incoming THEN "incoming" ELSE "outgoing"
    BY <1>2, <1>5
  <2>4. Keeps(p, q, status, s) /\ (failures = 0 => KeepsCounted(p, status, s))
    BY <1>1, <1>2, <1>5, <1>6, <2>1, <2>2, <2>3, KeptMarked
  <2>5. QED
    BY <1>1, <1>4, <1>7, <2>4, ReadyFor
<1>9. failures = 0 => NoneRefused(p)'
  <2>1. \A i \in DOMAIN Tail(tasks[p]) : i + 1 \in DOMAIN tasks[p] /\ Tail(tasks[p])[i] = tasks[p][i + 1]
    BY <1>5
  <2>2. QED
    BY <1>5, <2>1 DEF ResetsInv, NoneRefused
<1>10. QED
  BY <1>1, <1>4, <1>5, <1>8, <1>9, ResettingStep
-----------------------------------------------------------------------------
(* The invariant, and what follows from it.                                  *)

LEMMA InitResets ==
    ASSUME Init
    PROVE  ResetsInv
<1>1. \A r \in Peers, s \in Sids :
          /\ Known(r, s) /\ ~Closing(r, s) /\ ~Asked(r, s) /\ ~OutDone(r, s) /\ ~InDone(r, s)
          /\ ~Buffered(r, s)
  BY DEF Init, NewStatus, Known, Closing, Asked, OutDone, InDone, Buffered
<1>2. /\ \A r \in Peers : RequestsMatch(r) /\ NoneRefused(r) /\ tasks[r] = <<>>
      /\ \A r \in Peers : resetting[r].phase = "none" /\ resetting[r].sids = {}
  BY DEF Init, RequestsMatch, NoneRefused, NoReset
<1>3. \A r \in Peers, s \in Sids, kind \in {"incoming", "outgoing"} :
          ~Holds(tasks[r], kind, s) /\ HoldsOnce(tasks[r], kind, s)
  BY <1>2 DEF Holds, HoldsOnce
<1>4. \A r \in Peers, s \in Sids :
          ~InFlight(r, s) /\ ~Unconveyed(r, s) /\ ~Underway(r, s)
  BY <1>2, <1>3, PeerFacts DEF InFlight, Unconveyed, Underway
<1>5. \A r \in Peers, s \in Sids : ~ResetSent(r, s) /\ ~ResetReceived(r, s) /\ opens[r][s] = 1
  BY <1>1, <1>4 DEF ResetSent, ResetReceived, Init
<1>6. \A r \in Peers, s \in Sids : FlightsClosed(r, s)
  BY <1>1, <1>4 DEF FlightsClosed
<1>7. \A r \in Peers, s \in Sids : ResetsCounted(r, s)
  <2>1. SUFFICES ASSUME NEW r \in Peers, NEW s \in Sids PROVE ResetsCounted(r, s)
    OBVIOUS
  <2>2. PICK x \in Peers : x = Peer(r)
    BY PeerFacts
  <2>3. /\ Count(ResetReceived(x, s)) = 0 /\ Count(Underway(r, s)) = 0 /\ Count(ResetSent(r, s)) = 0
    BY <1>4, <1>5 DEF Count
  <2>4. opens[x][s] = 1 /\ opens[r][s] = 1
    BY <1>5
  <2>5. HoldsOnce(tasks[x], "incoming", s)
    BY <1>3
  <2>6. QED
    BY <1>1, <1>4, <1>5, <2>2, <2>3, <2>4, <2>5 DEF ResetsCounted
<1>8. failures = 0
  BY DEF Init
<1>9. QED
  BY <1>2, <1>6, <1>7, <1>8 DEF ResetsInv

LEMMA NextResets ==
    ASSUME Typed, ResetsInv, ~ReuseAfterRefusal, [Next]_vars
    PROVE  ResetsInv'
<1>1. CASE UNCHANGED vars
  <2>1. SameStreams /\ UNCHANGED <<out, partial_outgoing_message_>>
    BY <1>1, SameResetsRefl DEF SameStreams, vars, association, history
  <2>2. \A r \in Peers : RequestsMatch(r)'
    BY <2>1 DEF SameStreams, ResetsInv, RequestsMatch
  <2>3. \A r \in Peers, s \in Sids : Buffered(r, s)' => Buffered(r, s)
    BY <2>1 DEF Buffered
  <2>4. QED
    BY <2>1, <2>2, <2>3, ResetsInvSame
<1>2. CASE CommUp
  <2>1. PICK p \in Peers : TRUE
    BY SctpConstants
  <2>2. QED
    BY <1>2, <2>1, QuietSteps
<1>3. ASSUME NEW p \in Peers, Application(p) PROVE ResetsInv'
  <2>1. ASSUME NEW w \in Writers, w[1] = p, SendData(p, w[2], w[3]) PROVE ResetsInv'
    <3>1. w[2] \in Sids /\ w[3] \in Nat
      BY <2>1, SctpConstants
    <3>2. QED
      BY <2>1, <3>1, SendDataResets
  <2>2. QED
    BY <1>3, <2>1, QuietSteps, OpenStreamResets, ResetStreamStep DEF Application
<1>4. ASSUME NEW p \in Peers, Usrsctp(p) \/ FailReset(p) PROVE ResetsInv'
  BY <1>4, QuietSteps, ConveyResetStep, AnswerResetStep, FailResetStep DEF Usrsctp
<1>5. ASSUME NEW p \in Peers, NetworkThread(p) PROVE ResetsInv'
  BY <1>5, QuietSteps, AssocChangeStep, ThresholdStep, ResetFailedStep, ResetEventStep DEF NetworkThread
<1>6. QED
  BY <1>1, <1>2, <1>3, <1>4, <1>5 DEF Next

\* Resets are accounted for: each stream is reset once in each of its uses, by
\* one request at a time, and an end has handled its peer's resets but for one
\* on its way; once a reset was refused, no stream is used again.
THEOREM ResetsAccounted == ~ReuseAfterRefusal => (Spec => []ResetsInv)
<1>1. SUFFICES ASSUME ~ReuseAfterRefusal PROVE Spec => []ResetsInv
  OBVIOUS
<1>2. Init => ResetsInv
  BY InitResets
<1>3. Typed /\ ResetsInv /\ [Next]_vars => ResetsInv'
  BY <1>1, NextResets
<1>4. QED
  BY <1>2, <1>3, SctpTyped, PTL DEF Spec

\* SendBufferedMessage finds the stream of the message it sends.
THEOREM BufferedStreamIsKnown == ~ReuseAfterRefusal => (Spec => []BufferedStreamKnown)
<1>1. SUFFICES ASSUME ~ReuseAfterRefusal PROVE Spec => []BufferedStreamKnown
  OBVIOUS
<1>2. Typed /\ ResetsInv => BufferedStreamKnown
  <2>1. SUFFICES ASSUME Typed, ResetsInv, NEW p \in Peers, NEW i \in DOMAIN partial_outgoing_message_[p]
                 PROVE  partial_outgoing_message_[p][i].sid \in DOMAIN stream_status_by_sid_[p]
    BY DEF BufferedStreamKnown
  <2>2. partial_outgoing_message_[p][i] \in Message
    BY <2>1 DEF Typed, TypeOK
  <2>3. PICK s \in Sids : s = partial_outgoing_message_[p][i].sid
    BY <2>2 DEF Message
  <2>4. Buffered(p, s) /\ FlightsClosed(p, s)
    BY <2>1, <2>3 DEF Buffered, ResetsInv
  <2>5. Known(p, s)
    BY <2>4 DEF FlightsClosed, ResetSent
  <2>6. QED
    BY <2>3, <2>5 DEF Known
<1>3. QED
  BY <1>1, <1>2, SctpTyped, ResetsAccounted, PTL

\* An end that is told of its peer's reset is told of one that its peer sent in
\* the same use of the stream.
THEOREM RemoteClosesAreReal == ~ReuseAfterRefusal => (Spec => []RemoteCloseIsReal)
<1>1. SUFFICES ASSUME ~ReuseAfterRefusal PROVE Spec => []RemoteCloseIsReal
  OBVIOUS
<1>2. Typed /\ ResetsInv => RemoteCloseIsReal
  <2>1. SUFFICES ASSUME Typed, ResetsInv, NEW p \in Peers, NEW s \in DOMAIN stream_status_by_sid_[p],
                        stream_status_by_sid_[p][s].incoming_reset_complete,
                        Open(Peer(p), s), opens[Peer(p)][s] = opens[p][s]
                 PROVE  FALSE
    BY DEF RemoteCloseIsReal
  <2>2. PICK q \in Peers : q = Peer(p) /\ p = Peer(q)
    BY PeerFacts
  <2>3. s \in Sids
    <3>1. stream_status_by_sid_[p] \in StatusMap
      BY <2>1 DEF Typed, TypeOK
    <3>2. QED
      BY <2>1, <3>1, StatusMaps
  <2>4. ResetReceived(p, s) /\ Open(q, s)
    BY <2>1, <2>2 DEF ResetReceived, InDone, Known
  <2>5. CASE failures # 0
    BY <2>1, <2>2, <2>3, <2>4, <2>5 DEF ResetsInv, UsedOnce
  <2>6. CASE failures = 0
    <3>1. Balance(q, p, s) /\ FlightsClosed(q, s)
      BY <2>1, <2>2, <2>3, <2>6, CountedFor DEF ResetsInv
    <3>2. ~ResetSent(q, s)
      BY <2>4, <3>1, OpenIs DEF FlightsClosed, ResetSent
    <3>3. PICK n \in Nat : n = opens[p][s] /\ n = opens[q][s]
      BY <2>1, <2>2, <2>3 DEF Typed, TypeOK
    <3>4. PICK a \in 0 .. 1, b \in 0 .. 1, c \in 0 .. 1 :
               /\ a = 1 <=> ResetReceived(p, s)
               /\ c = 1 <=> ResetSent(q, s)
               /\ n + a + b = n + c
      <4>1. \E a \in 0 .. 1, b \in 0 .. 1, c \in 0 .. 1 :
                /\ a = 1 <=> ResetReceived(p, s)
                /\ c = 1 <=> ResetSent(q, s)
                /\ opens[p][s] + a + b = opens[q][s] + c
        BY <3>1, Balanced
      <4>2. QED
        BY <3>3, <4>1
    <3>5. a = 1 /\ c = 0
      BY <2>4, <3>2, <3>4
    <3>6. QED
      BY <3>4, <3>5
  <2>7. QED
    BY <2>5, <2>6
<1>3. QED
  BY <1>1, <1>2, SctpTyped, ResetsAccounted, PTL

-----------------------------------------------------------------------------
(* Data in the queues.                                                       *)

LEMMA RangeAppended ==
    ASSUME NEW S, NEW t \in Seq(S), NEW e \in S
    PROVE  /\ Range(Append(t, e)) = Range(t) \cup {e}
           /\ \A x, y : Behind(Append(t, e), x, y) <=> Behind(t, x, y) \/ (x \in Range(t) /\ y = e)
<1>1. PICK l \in Nat : l = Len(t)
  OBVIOUS
<1>2. PICK u \in Seq(S) : u = Append(t, e)
  <2>1. Append(t, e) \in Seq(S)
    OBVIOUS
  <2>2. QED
    BY <2>1, Zenon
<1>3. /\ DOMAIN t = 1 .. l /\ DOMAIN u = 1 .. (l + 1) /\ u[l + 1] = e
      /\ \A i \in 1 .. l : u[i] = t[i]
  BY <1>1, <1>2
<1>4. \A i \in 1 .. (l + 1) : i \in 1 .. l \/ i = l + 1
  OBVIOUS
<1>5. 1 .. l \subseteq 1 .. (l + 1) /\ l + 1 \in 1 .. (l + 1) /\ \A i \in 1 .. l : i < l + 1 /\ ~(l + 1 < i)
  OBVIOUS
<1>6. Range(u) = Range(t) \cup {e}
  BY <1>3, <1>4, <1>5 DEF Range
<1>7. ASSUME NEW x, NEW y PROVE Behind(u, x, y) <=> Behind(t, x, y) \/ (x \in Range(t) /\ y = e)
  <2>1. ASSUME Behind(u, x, y) PROVE Behind(t, x, y) \/ (x \in Range(t) /\ y = e)
    <3>1. PICK i \in 1 .. (l + 1), j \in 1 .. (l + 1) : i < j /\ u[i] = x /\ u[j] = y
      BY <1>3, <2>1 DEF Behind
    <3>2. i \in 1 .. l
      BY <3>1
    <3>3. CASE j \in 1 .. l
      BY <1>3, <3>1, <3>2, <3>3 DEF Behind
    <3>4. CASE j = l + 1
      BY <1>3, <3>1, <3>2, <3>4 DEF Range
    <3>5. QED
      BY <1>4, <3>3, <3>4
  <2>2. ASSUME Behind(t, x, y) PROVE Behind(u, x, y)
    BY <1>3, <1>5, <2>2 DEF Behind
  <2>3. ASSUME x \in Range(t), y = e PROVE Behind(u, x, y)
    <3>1. PICK i \in 1 .. l : t[i] = x
      BY <1>3, <2>3 DEF Range
    <3>2. i < l + 1 /\ u[i] = x /\ u[l + 1] = y
      BY <1>3, <1>5, <2>3, <3>1
    <3>3. QED
      BY <1>3, <1>5, <3>2 DEF Behind
  <2>4. QED
    BY <2>1, <2>2, <2>3
<1>8. QED
  BY <1>2, <1>6, <1>7

LEMMA RangeTail ==
    ASSUME NEW S, NEW t \in Seq(S), t # <<>>
    PROVE  /\ Range(t) = Range(Tail(t)) \cup {Head(t)}
           /\ \A x, y : Behind(t, x, y)
                        <=> Behind(Tail(t), x, y) \/ (x = Head(t) /\ y \in Range(Tail(t)))
<1>1. PICK l \in Nat : l + 1 = Len(t)
  <2>1. Len(t) \in Nat /\ Len(t) # 0
    OBVIOUS
  <2>2. Len(t) - 1 \in Nat /\ (Len(t) - 1) + 1 = Len(t)
    BY <2>1
  <2>3. QED
    BY <2>2
<1>2. PICK u \in Seq(S) : u = Tail(t)
  <2>1. Tail(t) \in Seq(S)
    OBVIOUS
  <2>2. QED
    BY <2>1, Zenon
<1>3. /\ DOMAIN t = 1 .. (l + 1) /\ DOMAIN u = 1 .. l /\ Head(t) = t[1]
      /\ \A i \in 1 .. l : u[i] = t[i + 1]
  BY <1>1, <1>2
<1>4. \A i \in 1 .. (l + 1) : i = 1 \/ (\E j \in 1 .. l : i = j + 1)
  <2>1. SUFFICES ASSUME NEW i \in 1 .. (l + 1), i # 1 PROVE \E j \in 1 .. l : i = j + 1
    OBVIOUS
  <2>2. i - 1 \in 1 .. l /\ i = (i - 1) + 1
    BY <2>1
  <2>3. QED
    BY <2>2
<1>5. 1 \in 1 .. (l + 1) /\ \A i \in 1 .. l : i + 1 \in 1 .. (l + 1) /\ 1 < i + 1
  OBVIOUS
<1>6. Range(t) = Range(u) \cup {Head(t)}
  <2>1. ASSUME NEW x \in Range(t) PROVE x \in Range(u) \cup {Head(t)}
    <3>1. PICK i \in 1 .. (l + 1) : t[i] = x
      BY <1>3, <2>1 DEF Range
    <3>2. CASE i = 1
      BY <1>3, <3>1, <3>2
    <3>3. CASE i # 1
      <4>1. PICK j \in 1 .. l : i = j + 1
        BY <1>4, <3>3
      <4>2. u[j] = x
        BY <1>3, <3>1, <4>1
      <4>3. QED
        BY <1>3, <4>2 DEF Range
    <3>4. QED
      BY <3>2, <3>3
  <2>2. ASSUME NEW x \in Range(u) PROVE x \in Range(t)
    <3>1. PICK i \in 1 .. l : u[i] = x
      BY <1>3, <2>2 DEF Range
    <3>2. t[i + 1] = x /\ i + 1 \in DOMAIN t
      BY <1>3, <1>5, <3>1
    <3>3. QED
      BY <3>2 DEF Range
  <2>3. Head(t) \in Range(t)
    BY <1>3, <1>5 DEF Range
  <2>4. QED
    BY <2>1, <2>2, <2>3
<1>7. ASSUME NEW x, NEW y
      PROVE  Behind(t, x, y) <=> Behind(u, x, y) \/ (x = Head(t) /\ y \in Range(u))
  <2>1. ASSUME Behind(t, x, y) PROVE Behind(u, x, y) \/ (x = Head(t) /\ y \in Range(u))
    <3>1. PICK i \in 1 .. (l + 1), j \in 1 .. (l + 1) : i < j /\ t[i] = x /\ t[j] = y
      BY <1>3, <2>1 DEF Behind
    <3>2. PICK k \in 1 .. l : j = k + 1
      <4>1. j # 1
        BY <3>1
      <4>2. QED
        BY <1>4, <4>1
    <3>3. u[k] = y
      BY <1>3, <3>1, <3>2
    <3>4. CASE i = 1
      BY <1>3, <3>1, <3>3, <3>4 DEF Range
    <3>5. CASE i # 1
      <4>1. PICK h \in 1 .. l : i = h + 1
        BY <1>4, <3>5
      <4>2. h < k /\ u[h] = x
        BY <1>3, <3>1, <3>2, <4>1
      <4>3. QED
        BY <1>3, <3>3, <4>2 DEF Behind
    <3>6. QED
      BY <3>4, <3>5
  <2>2. ASSUME Behind(u, x, y) PROVE Behind(t, x, y)
    <3>1. PICK i \in 1 .. l, j \in 1 .. l : i < j /\ u[i] = x /\ u[j] = y
      BY <1>3, <2>2 DEF Behind
    <3>2. i + 1 < j + 1 /\ t[i + 1] = x /\ t[j + 1] = y
      BY <1>3, <3>1
    <3>3. QED
      BY <1>3, <1>5, <3>2 DEF Behind
  <2>3. ASSUME x = Head(t), y \in Range(u) PROVE Behind(t, x, y)
    <3>1. PICK i \in 1 .. l : u[i] = y
      BY <1>3, <2>3 DEF Range
    <3>2. 1 < i + 1 /\ t[1] = x /\ t[i + 1] = y
      BY <1>3, <1>5, <2>3, <3>1
    <3>3. QED
      BY <1>3, <1>5, <3>2 DEF Behind
  <2>4. QED
    BY <2>1, <2>2, <2>3
<1>8. QED
  BY <1>2, <1>6, <1>7

\* The data is the same, and behind no more than before.
Calm(u, t) ==
    /\ Data(u) = Data(t)
    /\ \A e, c : c.kind = "data" /\ Behind(u, e, c) => Behind(t, e, c)
    /\ \A e \in Range(u) : e.kind = "incoming" => e \in Range(t)

LEMMA CalmSame ==
    ASSUME NEW t
    PROVE  Calm(t, t)
BY DEF Calm

LEMMA CalmAppended ==
    ASSUME NEW S, NEW t \in Seq(S), NEW e \in S, e.kind \notin {"data", "incoming"}
    PROVE  Calm(Append(t, e), t)
<1>1. /\ Range(Append(t, e)) = Range(t) \cup {e}
      /\ \A x, y : Behind(Append(t, e), x, y) <=> Behind(t, x, y) \/ (x \in Range(t) /\ y = e)
  BY RangeAppended
<1>2. QED
  BY <1>1 DEF Calm, Data

LEMMA CalmTail ==
    ASSUME NEW S, NEW t \in Seq(S), t # <<>>, Head(t).kind # "data"
    PROVE  Calm(Tail(t), t)
<1>1. /\ Range(t) = Range(Tail(t)) \cup {Head(t)}
      /\ \A x, y : Behind(t, x, y)
                   <=> Behind(Tail(t), x, y) \/ (x = Head(t) /\ y \in Range(Tail(t)))
  BY RangeTail
<1>2. QED
  BY <1>1 DEF Calm, Data

LEMMA CalmNoticed ==
    ASSUME NEW t \in Seq(Task), NEW e \in Seq(Notices)
    PROVE  Calm(t \o e, t)
<1>1. PICK u : u = t \o e
  OBVIOUS
<1>2. PICK l \in Nat, k \in Nat : l = Len(t) /\ k = Len(e)
  OBVIOUS
<1>3. /\ DOMAIN u = 1 .. (l + k) /\ DOMAIN t = 1 .. l
      /\ \A i \in 1 .. l : u[i] = t[i]
      /\ \A i \in 1 .. (l + k) : i \notin 1 .. l => u[i] = e[i - l] /\ i - l \in 1 .. k
  BY <1>1, <1>2
<1>4. \A i \in 1 .. k : e[i].kind \notin {"data", "incoming"}
  <2>1. \A n \in Notices : n.kind \notin {"data", "incoming"}
    BY DEF Notices
  <2>2. \A i \in 1 .. k : e[i] \in Notices
    BY <1>2
  <2>3. QED
    BY <2>1, <2>2
<1>5. \A i \in 1 .. (l + k) : i \notin 1 .. l => u[i].kind \notin {"data", "incoming"}
  BY <1>3, <1>4
<1>6. 1 .. l \subseteq 1 .. (l + k)
  OBVIOUS
<1>7. Data(u) = Data(t)
  <2>1. ASSUME NEW x \in Range(u), x.kind = "data" PROVE x \in Range(t)
    BY <1>3, <1>5, <2>1 DEF Range
  <2>2. Range(t) \subseteq Range(u)
    BY <1>3, <1>6 DEF Range
  <2>3. QED
    BY <2>1, <2>2 DEF Data
<1>8. \A x \in Range(u) : x.kind = "incoming" => x \in Range(t)
  BY <1>3, <1>5 DEF Range
<1>9. ASSUME NEW x, NEW c, c.kind = "data", Behind(u, x, c) PROVE Behind(t, x, c)
  <2>1. PICK i \in 1 .. (l + k), j \in 1 .. (l + k) : i < j /\ u[i] = x /\ u[j] = c
    BY <1>3, <1>9 DEF Behind
  <2>2. j \in 1 .. l
    BY <1>5, <1>9, <2>1
  <2>3. i \in 1 .. l
    BY <2>1, <2>2
  <2>4. QED
    BY <1>3, <2>1, <2>2, <2>3 DEF Behind
<1>10. QED
  BY <1>1, <1>7, <1>8, <1>9 DEF Calm

\* The chunks of p, and what is behind a reset.
Flow(p) == ChunksLogged(p) /\ NothingLost(p) /\ NothingOvertaken(p)

LEMMA TransitTyped ==
    ASSUME TypeOK, NEW p \in Peers
    PROVE  InTransit(p) \subseteq DataChunk
<1>1. /\ \A e \in Task : e.kind = "data" => e \in DataChunk
      /\ \A e \in Chunk : e.kind = "data" => e \in DataChunk
  BY DEF Task, Chunk, DataChunk
<1>2. out[p] \in Seq(Chunk) /\ tasks[Peer(p)] \in Seq(Task)
  BY PeerFacts DEF TypeOK
<1>3. Range(out[p]) \subseteq Chunk /\ Range(tasks[Peer(p)]) \subseteq Task
  BY <1>2 DEF Range
<1>4. QED
  BY <1>1, <1>3 DEF InTransit, Data

\* A step that takes from the flow only what it hands out.
LEMMA FlowTaken ==
    ASSUME TypeOK, NEW p \in Peers, Flow(p), UNCHANGED opens, log'[p] = log[p],
           \A x \in Range(partial_outgoing_message_'[p]) :
               \E m \in Range(partial_outgoing_message_[p]) : m.id = x.id /\ m.sid = x.sid,
           \A m \in Range(partial_outgoing_message_[p]) :
               \E x \in Range(partial_outgoing_message_'[p]) : m.id = x.id,
           InTransit(p)' \subseteq InTransit(p),
           \A c \in InTransit(p) : c.eor => c \in InTransit(p)' \/ HandedOut(p, c.id)',
           \A i : HandedOut(p, i) => HandedOut(p, i)',
           \A c \in InTransit(p)' : BehindReset(p, c)' => BehindReset(p, c)
    PROVE  Flow(p)'
<1>1. ChunksLogged(p)'
  <2>1. \A c \in InTransit(p)' : OfLog(p, c)'
    BY DEF Flow, ChunksLogged, OfLog
  <2>2. ASSUME NEW x \in Range(partial_outgoing_message_'[p])
        PROVE  OfLog(p, x)' /\ OpeningOf(p, x)' = opens'[p][x.sid]
    <3>1. PICK m \in Range(partial_outgoing_message_[p]) : m.id = x.id /\ m.sid = x.sid
      BY <2>2
    <3>2. OfLog(p, m) /\ OpeningOf(p, m) = opens[p][m.sid]
      BY DEF Flow, ChunksLogged
    <3>3. QED
      BY <3>1, <3>2 DEF OfLog, OpeningOf
  <2>3. QED
    BY <2>1, <2>2 DEF ChunksLogged
<1>2. NothingLost(p)'
  <2>1. SUFFICES ASSUME NEW i \in DOMAIN log[p]
        PROVE  \/ HandedOut(p, i)'
               \/ \E m \in Range(partial_outgoing_message_'[p]) : m.id = i
               \/ \E c \in InTransit(p)' : c.id = i /\ c.eor
    BY DEF NothingLost
  <2>2. CASE HandedOut(p, i)
    BY <2>2
  <2>3. ASSUME NEW m \in Range(partial_outgoing_message_[p]), m.id = i
        PROVE  \E x \in Range(partial_outgoing_message_'[p]) : x.id = i
    BY <2>3
  <2>4. ASSUME NEW c \in InTransit(p), c.id = i, c.eor
        PROVE  HandedOut(p, i)' \/ \E d \in InTransit(p)' : d.id = i /\ d.eor
    BY <2>4
  <2>5. QED
    BY <2>1, <2>2, <2>3, <2>4 DEF Flow, NothingLost
<1>3. NothingOvertaken(p)'
  BY DEF Flow, NothingOvertaken, OpeningOf
<1>4. QED
  BY <1>1, <1>2, <1>3 DEF Flow

\* A step that leaves the chunks of p where they are.
LEMMA FlowCalm ==
    ASSUME TypeOK, NEW p \in Peers, NEW q \in Peers, q = Peer(p), Flow(p),
           UNCHANGED opens, log'[p] = log[p], handed'[q] = handed[q],
           partial_outgoing_message_'[p] = partial_outgoing_message_[p],
           Calm(out'[p], out[p]), Calm(tasks'[q], tasks[q]),
           \A s \in Sids : ResetReceived(q, s)' => ResetReceived(q, s)
    PROVE  Flow(p)'
<1>1. InTransit(p)' = InTransit(p)
  BY DEF InTransit, Calm
<1>2. \A c \in InTransit(p) : c.sid \in Sids /\ c.kind = "data"
  <2>1. \A c \in DataChunk : c.sid \in Sids /\ c.kind = "data"
    BY DEF DataChunk
  <2>2. QED
    BY <2>1, TransitTyped
<1>3. ASSUME NEW c \in InTransit(p), BehindReset(p, c)' PROVE BehindReset(p, c)
  <2>1. c.sid \in Sids /\ c.kind = "data"
    BY <1>2
  <2>2. CASE ResetReceived(q, c.sid)'
    BY <2>1, <2>2 DEF BehindReset
  <2>3. ASSUME NEW e \in Range(tasks'[q]), Resets(e, "incoming", c.sid),
               c \in Range(out'[p]) \/ Behind(tasks'[q], e, c)
        PROVE  BehindReset(p, c)
    <3>1. e \in Range(tasks[q])
      BY <2>3 DEF Calm, Resets
    <3>2. c \in Range(out[p]) \/ Behind(tasks[q], e, c)
      BY <2>1, <2>3 DEF Calm, Data
    <3>3. QED
      BY <2>3, <3>1, <3>2 DEF BehindReset
  <2>4. ASSUME NEW e \in Range(out'[p]), Resets(e, "reset", c.sid), Behind(out'[p], e, c)
        PROVE  BehindReset(p, c)
    <3>1. Behind(out[p], e, c)
      BY <2>1, <2>4 DEF Calm
    <3>2. e \in Range(out[p])
      BY <3>1 DEF Behind, Range
    <3>3. QED
      BY <2>4, <3>1, <3>2 DEF BehindReset
  <2>5. QED
    BY <1>3, <2>2, <2>3, <2>4 DEF BehindReset
<1>4. \A i : HandedOut(p, i) <=> HandedOut(p, i)'
  BY DEF HandedOut
<1>5. QED
  BY <1>1, <1>3, <1>4, FlowTaken

\* Where a stream that takes or holds a message was or will be reset, its user
\* is ahead of its peer.
LEMMA UsedAhead ==
    ASSUME Typed, ResetsInv, NEW p \in Peers, NEW q \in Peers, q = Peer(p), NEW s \in Sids,
           Open(p, s) \/ Buffered(p, s), ResetReceived(q, s) \/ Underway(p, s)
    PROVE  opens[p][s] > opens[q][s]
<1>1. failures = 0
  BY DEF ResetsInv, UsedOnce
<1>2. Balance(p, q, s) /\ FlightsClosed(p, s)
  BY <1>1, CountedFor DEF ResetsInv
<1>3. ~ResetSent(p, s)
  BY <1>2, OpenIs DEF FlightsClosed, ResetSent
<1>4. PICK m \in Nat, n \in Nat : m = opens[p][s] /\ n = opens[q][s]
  BY DEF Typed, TypeOK
<1>5. PICK a \in 0 .. 1, b \in 0 .. 1, c \in 0 .. 1 :
           /\ a = 1 <=> ResetReceived(q, s)
           /\ b = 1 <=> Underway(p, s)
           /\ c = 1 <=> ResetSent(p, s)
           /\ n + a + b = m + c
  <2>1. \E a \in 0 .. 1, b \in 0 .. 1, c \in 0 .. 1 :
            /\ a = 1 <=> ResetReceived(q, s)
            /\ b = 1 <=> Underway(p, s)
            /\ c = 1 <=> ResetSent(p, s)
            /\ opens[q][s] + a + b = opens[p][s] + c
    BY <1>2, Balanced
  <2>2. QED
    BY <1>4, <2>1
<1>6. c = 0 /\ (a = 1 \/ b = 1)
  BY <1>3, <1>5
<1>7. m > n
  BY <1>5, <1>6
<1>8. QED
  BY <1>4, <1>7

\* Another chunk of p is sent.
LEMMA FlowSent ==
    ASSUME Typed, ResetsInv, NEW p \in Peers, NEW q \in Peers, q = Peer(p), Flow(p),
           UNCHANGED opens, handed'[q] = handed[q], tasks'[q] = tasks[q],
           NEW c \in DataChunk, Calm(out'[p], Append(out[p], c)),
           Open(p, c.sid) \/ Buffered(p, c.sid),
           \A s \in Sids : ResetReceived(q, s)' => ResetReceived(q, s),
           \A i \in DOMAIN log[p] : i \in DOMAIN log'[p] /\ log'[p][i] = log[p][i],
           \A i \in DOMAIN log'[p] : i \in DOMAIN log[p] \/ i = c.id,
           c.id \in DOMAIN log'[p], log'[p][c.id].sid = c.sid, log'[p][c.id].opening = opens[p][c.sid],
           \A x \in Range(partial_outgoing_message_'[p]) : x.id = c.id /\ x.sid = c.sid,
           c.eor \/ \E x \in Range(partial_outgoing_message_'[p]) : x.id = c.id,
           \A m \in Range(partial_outgoing_message_[p]) : m.id = c.id
    PROVE  Flow(p)'
<1>1. TypeOK /\ out[p] \in Seq(Chunk) /\ c \in Chunk /\ c.kind = "data" /\ c.sid \in Sids
  BY DEF Typed, TypeOK, Chunk, DataChunk
<1>2. /\ Range(Append(out[p], c)) = Range(out[p]) \cup {c}
      /\ \A x, y : Behind(Append(out[p], c), x, y) <=> Behind(out[p], x, y) \/ (x \in Range(out[p]) /\ y = c)
  BY <1>1, RangeAppended
<1>3. Data(out'[p]) = Data(out[p]) \cup {c}
  BY <1>1, <1>2 DEF Calm, Data
<1>4. InTransit(p)' = InTransit(p) \cup {c}
  BY <1>3 DEF InTransit
<1>5. \A d \in InTransit(p) : d.sid \in Sids /\ d.kind = "data"
  <2>1. \A d \in DataChunk : d.sid \in Sids /\ d.kind = "data"
    BY DEF DataChunk
  <2>2. QED
    BY <1>1, <2>1, TransitTyped
<1>6. ASSUME NEW d \in InTransit(p), d # c, BehindReset(p, d)' PROVE BehindReset(p, d)
  <2>1. d.sid \in Sids /\ d.kind = "data"
    BY <1>5
  <2>2. CASE ResetReceived(q, d.sid)'
    BY <2>1, <2>2 DEF BehindReset
  <2>3. ASSUME NEW e \in Range(tasks[q]), Resets(e, "incoming", d.sid),
               d \in Range(out'[p]) \/ Behind(tasks[q], e, d)
        PROVE  BehindReset(p, d)
    <3>1. d \in Range(out[p]) \/ Behind(tasks[q], e, d)
      BY <1>3, <1>6, <2>1, <2>3 DEF Data
    <3>2. QED
      BY <2>3, <3>1 DEF BehindReset
  <2>4. ASSUME NEW e \in Range(out'[p]), Resets(e, "reset", d.sid), Behind(out'[p], e, d)
        PROVE  BehindReset(p, d)
    <3>1. Behind(out[p], e, d)
      BY <1>2, <1>6, <2>1, <2>4 DEF Calm
    <3>2. e \in Range(out[p])
      BY <3>1 DEF Behind, Range
    <3>3. QED
      BY <2>4, <3>1, <3>2 DEF BehindReset
  <2>5. QED
    BY <1>6, <2>2, <2>3, <2>4 DEF BehindReset
<1>7. ASSUME BehindReset(p, c)' PROVE opens[p][c.sid] > opens[q][c.sid]
  <2>1. CASE ResetReceived(q, c.sid)'
    BY <1>1, <2>1, UsedAhead
  <2>2. ASSUME NEW e \in Range(tasks[q]), Resets(e, "incoming", c.sid)
        PROVE  opens[p][c.sid] > opens[q][c.sid]
    <3>1. Underway(p, c.sid)
      BY <2>2 DEF Underway, Holds, Range
    <3>2. QED
      BY <1>1, <3>1, UsedAhead
  <2>3. ASSUME NEW e \in Range(out'[p]), Resets(e, "reset", c.sid), Behind(out'[p], e, c)
        PROVE  opens[p][c.sid] > opens[q][c.sid]
    <3>1. Behind(Append(out[p], c), e, c)
      BY <1>1, <2>3 DEF Calm
    <3>2. e \in Range(out[p])
      BY <1>2, <3>1 DEF Behind, Range
    <3>3. Unconveyed(p, c.sid)
      BY <2>3, <3>2 DEF ResetsInv, RequestsMatch, Range, Resets, Unconveyed
    <3>4. Underway(p, c.sid)
      BY <3>3 DEF Underway
    <3>5. QED
      BY <1>1, <3>4, UsedAhead
  <2>4. QED
    BY <1>7, <2>1, <2>2, <2>3 DEF BehindReset
<1>8. ASSUME NEW d \in InTransit(p) PROVE OfLog(p, d) /\ OfLog(p, d)' /\ OpeningOf(p, d)' = OpeningOf(p, d)
  <2>1. OfLog(p, d)
    BY <1>8 DEF Flow, ChunksLogged
  <2>2. QED
    BY <2>1 DEF OfLog, OpeningOf
<1>9. ChunksLogged(p)'
  <2>1. OfLog(p, c)'
    BY DEF OfLog
  <2>2. \A x \in Range(partial_outgoing_message_'[p]) : OfLog(p, x)' /\ OpeningOf(p, x)' = opens'[p][x.sid]
    BY DEF OfLog, OpeningOf
  <2>3. QED
    BY <1>4, <1>8, <2>1, <2>2 DEF ChunksLogged
<1>10. NothingLost(p)'
  <2>1. SUFFICES ASSUME NEW i \in DOMAIN log'[p]
        PROVE  \/ HandedOut(p, i)'
               \/ \E m \in Range(partial_outgoing_message_'[p]) : m.id = i
               \/ \E d \in InTransit(p)' : d.id = i /\ d.eor
    BY DEF NothingLost
  <2>2. CASE i = c.id
    BY <1>4, <2>2
  <2>3. CASE i # c.id
    <3>1. i \in DOMAIN log[p]
      BY <2>1, <2>3
    <3>2. \/ HandedOut(p, i)
          \/ \E d \in InTransit(p) : d.id = i /\ d.eor
      BY <2>3, <3>1 DEF Flow, NothingLost
    <3>3. QED
      BY <1>4, <3>2 DEF HandedOut
  <2>4. QED
    BY <2>2, <2>3
<1>11. NothingOvertaken(p)'
  <2>1. SUFFICES ASSUME NEW d \in InTransit(p)', BehindReset(p, d)'
                 PROVE  OpeningOf(p, d)' > opens[q][d.sid]
    BY DEF NothingOvertaken
  <2>2. CASE d = c
    BY <1>7, <2>1, <2>2 DEF OpeningOf
  <2>3. CASE d # c
    <3>1. d \in InTransit(p) /\ BehindReset(p, d)
      BY <1>4, <1>6, <2>1, <2>3
    <3>2. OpeningOf(p, d) > opens[q][d.sid]
      BY <3>1 DEF Flow, NothingOvertaken
    <3>3. QED
      BY <1>8, <3>1, <3>2
  <2>4. QED
    BY <2>2, <2>3
<1>12. QED
  BY <1>9, <1>10, <1>11 DEF Flow

\* A direction that a step does not touch, but for callbacks of the receiver
\* that are no data.
LEMMA FlowBeside ==
    ASSUME TypeOK, NEW q \in Peers, NEW p \in Peers, p = Peer(q), Flow(q),
           UNCHANGED opens, log'[q] = log[q], handed'[p] = handed[p],
           partial_outgoing_message_'[q] = partial_outgoing_message_[q], out'[q] = out[q],
           Calm(tasks'[p], tasks[p]),
           \A s \in Sids : ResetReceived(p, s)' => ResetReceived(p, s)
    PROVE  Flow(q)'
BY CalmSame, FlowCalm

LEMMA SendDataFlow ==
    ASSUME Typed, ResetsInv, DataInv, NEW p \in Peers, NEW s \in Sids, NEW size \in Nat,
           SendData(p, s, size)
    PROVE  DataInv'
<1>1. PICK q \in Peers : q = Peer(p) /\ p = Peer(q) /\ q # p /\ \A r \in Peers : r = p \/ r = q
  BY PeerFacts
<1>2. PICK m : m = [sid |-> s, id |-> Len(log[p]) + 1, left |-> size]
  OBVIOUS
<1>3. TypeOK /\ m.sid = s /\ m.id = Len(log[p]) + 1 /\ m.id \in Nat /\ m.left = size
  <2>1. PICK l \in Nat : l = Len(log[p])
    <3>1. log[p] \in Seq([sid : Sids, size : Nat, opening : Nat])
      BY DEF Typed, TypeOK
    <3>2. QED
      BY <3>1
  <2>2. m.sid = s /\ m.id = l + 1 /\ m.left = size
    BY <1>2, <2>1
  <2>3. QED
    BY <2>1, <2>2 DEF Typed
<1>4. /\ out' = [out EXCEPT ![p] = SentOn(p, m)] /\ Open(p, s) /\ partial_outgoing_message_[p] = <<>>
      /\ partial_outgoing_message_' = [partial_outgoing_message_ EXCEPT ![p] =
             IF Left(p, m) \in 1..(size - 1) THEN <<[m EXCEPT !.left = Left(p, m)]>> ELSE <<>>]
      /\ log' = IF Taken(p, m) = 0 THEN log
                ELSE [log EXCEPT ![p] =
                          Append(@, [sid |-> s, size |-> size, opening |-> opens[p][s]])]
      /\ UNCHANGED <<stream_status_by_sid_, tasks, opens, handed>>
  BY <1>2 DEF SendData
<1>5. Flow(p) /\ Flow(q)
  BY DEF DataInv, Flow
<1>6. /\ out'[p] = SentOn(p, m) /\ out'[q] = out[q] /\ log'[q] = log[q]
      /\ partial_outgoing_message_'[q] = partial_outgoing_message_[q]
      /\ partial_outgoing_message_'[p] =
             IF Left(p, m) \in 1..(size - 1) THEN <<[m EXCEPT !.left = Left(p, m)]>> ELSE <<>>
  BY <1>1, <1>3, <1>4 DEF TypeOK
<1>7. \A r \in Peers, x \in Sids : ResetReceived(r, x)' <=> ResetReceived(r, x)
  BY <1>4 DEF ResetReceived, Known, InDone
<1>8. Flow(q)'
  BY <1>1, <1>3, <1>4, <1>5, <1>6, <1>7, CalmSame, FlowBeside
<1>9. /\ Taken(p, m) \in Nat /\ Left(p, m) \in Nat
      /\ (Left(p, m) = 0 /\ size > 0 => Taken(p, m) = size) /\ Left(p, m) <= size
      /\ Taken(p, m) <= DataLength(m)
      /\ (Taken(p, m) > 0 /\ size > 0 => Left(p, m) < size)
  <2>1. Taken(p, m) \in 0 .. DataLength(m) /\ DataLength(m) \in Nat
    BY <1>3, TakenFits DEF Typed
  <2>2. /\ Left(p, m) \in Nat
        /\ (Left(p, m) = 0 /\ size > 0 => Taken(p, m) = size) /\ Left(p, m) <= size
        /\ (Taken(p, m) > 0 /\ size > 0 => Left(p, m) < size)
    BY <1>3, TakenFits DEF Typed
  <2>3. QED
    BY <2>1, <2>2
<1>10. CASE Taken(p, m) = 0
  <2>1. out'[p] = out[p] /\ log'[p] = log[p]
    BY <1>4, <1>6, <1>10 DEF SentOn
  <2>2. partial_outgoing_message_'[p] = <<>>
    <3>1. Left(p, m) \notin 1 .. (size - 1)
      BY <1>3, <1>10 DEF Left
    <3>2. QED
      BY <1>6, <3>1
  <2>3. Flow(p)'
    BY <1>1, <1>3, <1>4, <1>5, <1>7, <2>1, <2>2, CalmSame, FlowBeside
  <2>4. QED
    BY <1>1, <1>8, <2>3 DEF DataInv, Flow
<1>11. CASE Taken(p, m) # 0
  <2>1. Taken(p, m) > 0
    BY <1>9, <1>11
  <2>2. PICK c \in DataChunk :
            /\ SentOn(p, m) = Append(out[p], c)
            /\ c.kind = "data" /\ c.sid = m.sid /\ c.id = m.id
            /\ c.eor <=> Taken(p, m) = DataLength(m)
    BY <1>3, <1>11, SentOnIs
  <2>3. Calm(out'[p], Append(out[p], c))
    BY <1>6, <2>2, CalmSame
  <2>4. PICK e : e = [sid |-> s, size |-> size, opening |-> opens[p][s]]
    OBVIOUS
  <2>5. PICK l \in Seq([sid : Sids, size : Nat, opening : Nat]) : l = log[p]
    BY <1>3 DEF TypeOK
  <2>6. log'[p] = Append(l, e) /\ e \in [sid : Sids, size : Nat, opening : Nat]
    BY <1>3, <1>4, <1>11, <2>4, <2>5 DEF TypeOK
  <2>7. /\ \A i \in DOMAIN log[p] : i \in DOMAIN log'[p] /\ log'[p][i] = log[p][i]
        /\ \A i \in DOMAIN log'[p] : i \in DOMAIN log[p] \/ i = c.id
        /\ c.id \in DOMAIN log'[p] /\ log'[p][c.id] = e
    <3>1. PICK n \in Nat : n = Len(l)
      BY <2>5
    <3>2. DOMAIN log[p] = 1 .. n /\ c.id = n + 1
      BY <1>3, <2>2, <2>5, <3>1
    <3>3. /\ DOMAIN log'[p] = 1 .. (n + 1) /\ log'[p][n + 1] = e
          /\ \A i \in 1 .. n : log'[p][i] = log[p][i]
      BY <2>5, <2>6, <3>1
    <3>4. \A i \in 1 .. (n + 1) : i \in 1 .. n \/ i = n + 1
      OBVIOUS
    <3>5. 1 .. n \subseteq 1 .. (n + 1) /\ n + 1 \in 1 .. (n + 1)
      OBVIOUS
    <3>6. QED
      BY <3>2, <3>3, <3>4, <3>5
  <2>8. log'[p][c.id].sid = c.sid /\ log'[p][c.id].opening = opens[p][c.sid]
    BY <1>3, <2>2, <2>4, <2>7
  <2>9. /\ \A x \in Range(partial_outgoing_message_'[p]) : x.id = c.id /\ x.sid = c.sid
        /\ c.eor \/ \E x \in Range(partial_outgoing_message_'[p]) : x.id = c.id
    <3>1. PICK x : x = [m EXCEPT !.left = Left(p, m)]
      OBVIOUS
    <3>2. x.id = c.id /\ x.sid = c.sid
      BY <1>2, <2>2, <3>1
    <3>3. CASE Left(p, m) \in 1 .. (size - 1)
      <4>1. partial_outgoing_message_'[p] = <<x>>
        BY <1>6, <3>1, <3>3
      <4>2. QED
        BY <3>2, <4>1 DEF Range
    <3>4. CASE Left(p, m) \notin 1 .. (size - 1)
      <4>1. partial_outgoing_message_'[p] = <<>>
        BY <1>6, <3>4
      <4>2. Left(p, m) = 0
        <5>1. CASE size = 0
          BY <1>9, <5>1
        <5>2. CASE size > 0
          BY <1>9, <2>1, <3>4, <5>2
        <5>3. QED
          BY <5>1, <5>2
      <4>3. Taken(p, m) = DataLength(m)
        <5>1. CASE size = 0
          BY <1>3, <1>9, <2>1, <5>1 DEF DataLength
        <5>2. CASE size > 0
          BY <1>3, <1>9, <4>2, <5>2 DEF DataLength
        <5>3. QED
          BY <5>1, <5>2
      <4>4. QED
        BY <2>2, <4>1, <4>3 DEF Range
    <3>5. QED
      BY <3>3, <3>4
  <2>10. \A x \in Range(partial_outgoing_message_[p]) : x.id = c.id
    BY <1>4 DEF Range
  <2>11. Flow(p)'
    BY <1>1, <1>3, <1>4, <1>5, <1>7, <2>2, <2>3, <2>7, <2>8, <2>9, <2>10, FlowSent
  <2>12. QED
    BY <1>1, <1>8, <2>11 DEF DataInv, Flow
<1>12. QED
  BY <1>10, <1>11

\* SendQueuedStreamResets puts a request behind the data.
LEMMA ResetsCalm ==
    ASSUME TypeOK, NEW p \in Peers, NEW status \in StatusMap, NEW partial, NEW o \in Seq(Chunk),
           SendQueuedStreamResets(p, status, partial, o)
    PROVE  /\ Calm(out'[p], o) /\ OnlyAt(p)
           /\ \A s \in Sids : ResetReceived(p, s)'
                               <=> (s \in DOMAIN status => status[s].incoming_reset_complete)
<1>1. PICK R \in SUBSET Sids : AsksFor(p, status, partial, o, R)
  BY QueuedResets
<1>2. OnlyAt(p) /\ \A s \in Sids : MapBecomes(p, status, s)
  BY QueuedResets
<1>3. Calm(out'[p], o)
  <2>1. CASE R = {}
    BY <1>1, <2>1, CalmSame DEF AsksFor
  <2>2. CASE R # {}
    <3>1. PICK c \in Chunk : c = [kind |-> "reset", sids |-> R]
      BY DEF Chunk
    <3>2. out'[p] = Append(o, c) /\ c.kind \notin {"data", "incoming"}
      BY <1>1, <2>2, <3>1 DEF AsksFor
    <3>3. QED
      BY <3>2, CalmAppended
  <2>3. QED
    BY <2>1, <2>2
<1>4. \A s \in Sids : ResetReceived(p, s)'
                      <=> (s \in DOMAIN status => status[s].incoming_reset_complete)
  BY <1>2 DEF MapBecomes, ResetReceived
<1>5. QED
  BY <1>2, <1>3, <1>4

\* A step that touches no data at all.
LEMMA CalmStep ==
    ASSUME Typed, DataInv, UNCHANGED <<opens, log, handed, partial_outgoing_message_>>,
           \A r \in Peers : Calm(out'[r], out[r]) /\ Calm(tasks'[r], tasks[r]),
           \A r \in Peers, s \in Sids : ResetReceived(r, s)' => ResetReceived(r, s)
    PROVE  DataInv'
<1>1. SUFFICES ASSUME NEW p \in Peers PROVE Flow(p)'
  BY DEF DataInv, Flow
<1>2. PICK q \in Peers : q = Peer(p)
  BY PeerFacts
<1>3. TypeOK /\ Flow(p)
  BY DEF Typed, DataInv, Flow
<1>4. QED
  BY <1>2, <1>3, FlowCalm

LEMMA StreamsSame ==
    ASSUME UNCHANGED stream_status_by_sid_
    PROVE  \A r \in Peers, s \in Sids : ResetReceived(r, s)' <=> ResetReceived(r, s)
BY DEF ResetReceived, Known, InDone

LEMMA CallbackCalm ==
    ASSUME TypeOK, NEW p \in Peers, NEW kind, Callback(p, kind), kind # "data"
    PROVE  \A r \in Peers : Calm(tasks'[r], tasks[r])
<1>1. /\ tasks[p] # <<>> /\ tasks[p] \in Seq(Task) /\ Head(tasks[p]).kind = kind
      /\ tasks'[p] = Tail(tasks[p])
      /\ \A x \in Peers : x # p => tasks'[x] = tasks[x]
  BY CallbackEffect
<1>2. Calm(tasks'[p], tasks[p])
  BY <1>1, CalmTail
<1>3. QED
  BY <1>1, <1>2, CalmSame

\* A callback or a request at the end of a queue.
LEMMA PostedCalm ==
    ASSUME TypeOK, NEW p \in Peers, NEW e \in Task, e.kind \notin {"data", "incoming"},
           tasks' = Posted(p, <<e>>)
    PROVE  \A r \in Peers : Calm(tasks'[r], tasks[r])
<1>1. tasks'[p] = Append(tasks[p], e) /\ \A x \in Peers : x # p => tasks'[x] = tasks[x]
  BY ResetStepsEffect
<1>2. tasks[p] \in Seq(Task)
  BY DEF TypeOK
<1>3. Calm(tasks'[p], tasks[p])
  BY <1>1, <1>2, CalmAppended
<1>4. QED
  BY <1>1, <1>3, CalmSame

LEMMA QuietFlow ==
    ASSUME Typed, DataInv, NEW p \in Peers,
           \/ \E limit \in Limits[p] : Start(p, limit)
           \/ OnWritableState(p) \/ SendDataBlocked(p) \/ OnSenderDry(p)
    PROVE  DataInv'
<1>1. UNCHANGED <<opens, log, handed, partial_outgoing_message_, stream_status_by_sid_, out>>
  BY DEF Start, OnWritableState, SendDataBlocked, OnSenderDry, history, association
<1>2. \A r \in Peers : Calm(tasks'[r], tasks[r])
  <2>1. CASE OnSenderDry(p)
    BY <2>1, CallbackCalm DEF OnSenderDry, Typed
  <2>2. CASE ~OnSenderDry(p)
    <3>1. UNCHANGED tasks
      BY <2>2 DEF Start, OnWritableState, SendDataBlocked
    <3>2. QED
      BY <3>1, CalmSame
  <2>3. QED
    BY <2>1, <2>2
<1>3. \A r \in Peers : Calm(out'[r], out[r])
  BY <1>1, CalmSame
<1>4. QED
  BY <1>1, <1>2, <1>3, CalmStep, StreamsSame

LEMMA UsrsctpCalm ==
    ASSUME Typed, DataInv, NEW p \in Peers, CommUp \/ AnswerReset(p) \/ FailReset(p)
    PROVE  DataInv'
<1>1. TypeOK /\ UNCHANGED <<opens, log, handed, partial_outgoing_message_, stream_status_by_sid_>>
  BY DEF CommUp, AnswerReset, FailReset, history, Typed
<1>2. CASE CommUp
  <2>1. PICK n \in Notices : \A r \in Peers : tasks'[r] = Append(tasks[r], n)
    BY <1>1, <1>2, CommUpEffect
  <2>2. n \in Task /\ n.kind \notin {"data", "incoming"}
    BY DEF Notices, Task
  <2>3. \A r \in Peers : tasks[r] \in Seq(Task)
    BY <1>1 DEF TypeOK
  <2>4. \A r \in Peers : Calm(tasks'[r], tasks[r])
    BY <2>1, <2>2, <2>3, CalmAppended
  <2>5. \A r \in Peers : Calm(out'[r], out[r])
    BY <1>2, CalmSame DEF CommUp
  <2>6. QED
    BY <1>1, <2>4, <2>5, CalmStep, StreamsSame
<1>3. CASE AnswerReset(p)
  <2>1. PICK e \in Task : e = [kind |-> "outgoing", sids |-> resetting[p].sids]
    <3>1. resetting[p].sids \in SUBSET Sids
      BY <1>1 DEF TypeOK
    <3>2. QED
      BY <3>1 DEF Task
  <2>2. e.kind \notin {"data", "incoming"} /\ tasks' = Posted(p, <<e>>)
    BY <1>3, <2>1 DEF AnswerReset
  <2>3. \A r \in Peers : Calm(tasks'[r], tasks[r])
    BY <1>1, <2>2, PostedCalm
  <2>4. \A r \in Peers : Calm(out'[r], out[r])
    BY <1>3, CalmSame DEF AnswerReset
  <2>5. QED
    BY <1>1, <2>3, <2>4, CalmStep, StreamsSame
<1>4. CASE FailReset(p)
  <2>1. PICK e \in Task : e = [kind |-> "failed"]
    BY DEF Task
  <2>2. e.kind \notin {"data", "incoming"} /\ tasks' = Posted(p, <<e>>)
    BY <1>4, <2>1 DEF FailReset
  <2>3. \A r \in Peers : Calm(tasks'[r], tasks[r])
    BY <1>1, <2>2, PostedCalm
  <2>4. /\ out[p] # <<>> /\ Head(out[p]).kind = "reset" /\ out[p] \in Seq(Chunk)
        /\ out'[p] = Tail(out[p]) /\ \A r \in Peers : r # p => out'[r] = out[r]
    BY <1>1, <1>4 DEF FailReset, TypeOK
  <2>5. Calm(out'[p], out[p])
    BY <2>4, CalmTail
  <2>6. QED
    BY <1>1, <2>3, <2>4, <2>5, CalmStep, StreamsSame, CalmSame
<1>5. QED
  BY <1>2, <1>3, <1>4

LEMMA ConveyDataFlow ==
    ASSUME Typed, DataInv, NEW p \in Peers, ConveyData(p)
    PROVE  DataInv'
<1>1. PICK q \in Peers : q = Peer(p) /\ p = Peer(q) /\ q # p /\ \A r \in Peers : r = p \/ r = q
  BY PeerFacts
<1>2. /\ TypeOK /\ Flow(p) /\ Flow(q) /\ out[p] \in Seq(Chunk) /\ tasks[q] \in Seq(Task)
      /\ tasks[p] \in Seq(Task)
  BY <1>1 DEF DataInv, Flow, Typed, TypeOK
<1>3. /\ UNCHANGED <<opens, log, handed, partial_outgoing_message_, stream_status_by_sid_>>
      /\ out' = [out EXCEPT ![p] = Tail(@)]
  BY DEF ConveyData, history
<1>4. \A r \in Peers, s \in Sids : ResetReceived(r, s)' <=> ResetReceived(r, s)
  BY <1>3, StreamsSame
<1>5. out'[q] = out[q]
  BY <1>1, <1>2, <1>3 DEF TypeOK
<1>6. PICK e \in Seq(Notices) : tasks'[p] = tasks[p] \o e
  BY <1>2, ConveyDataEffect
<1>7. Calm(tasks'[p], tasks[p])
  BY <1>2, <1>6, CalmNoticed
<1>8. Flow(q)'
  BY <1>1, <1>2, <1>3, <1>4, <1>5, <1>7, FlowBeside
<1>9. PICK h \in DataChunk : h = Head(out[p])
  BY <1>2, ConveyDataEffect
<1>10. /\ out[p] # <<>> /\ out'[p] = Tail(out[p]) /\ tasks'[q] = Append(tasks[q], h)
       /\ h \in Task /\ h.kind = "data"
  BY <1>1, <1>2, <1>9, ConveyDataEffect DEF Task, DataChunk
<1>11. /\ Range(out[p]) = Range(out'[p]) \cup {h}
       /\ \A x, y : Behind(out'[p], x, y) => Behind(out[p], x, y)
  BY <1>2, <1>9, <1>10, RangeTail
<1>12. /\ Range(tasks'[q]) = Range(tasks[q]) \cup {h}
       /\ \A x, y : Behind(tasks'[q], x, y) <=> Behind(tasks[q], x, y) \/ (x \in Range(tasks[q]) /\ y = h)
  BY <1>2, <1>10, RangeAppended
<1>13. InTransit(p)' = InTransit(p)
  BY <1>1, <1>10, <1>11, <1>12 DEF InTransit, Data
<1>14. \A c \in InTransit(p) : c.sid \in Sids
  <2>1. \A c \in DataChunk : c.sid \in Sids
    BY DEF DataChunk
  <2>2. QED
    BY <1>2, <2>1, TransitTyped
<1>15. ASSUME NEW c \in InTransit(p), BehindReset(p, c)' PROVE BehindReset(p, c)
  <2>1. CASE ResetReceived(q, c.sid)'
    BY <1>1, <1>4, <1>14, <2>1 DEF BehindReset
  <2>2. ASSUME NEW x \in Range(tasks'[q]), Resets(x, "incoming", c.sid),
               c \in Range(out'[p]) \/ Behind(tasks'[q], x, c)
        PROVE  BehindReset(p, c)
    <3>1. x \in Range(tasks[q])
      BY <1>10, <1>12, <2>2 DEF Resets
    <3>2. c \in Range(out[p]) \/ Behind(tasks[q], x, c)
      BY <1>11, <1>12, <2>2
    <3>3. QED
      BY <1>1, <2>2, <3>1, <3>2 DEF BehindReset
  <2>3. ASSUME NEW x \in Range(out'[p]), Resets(x, "reset", c.sid), Behind(out'[p], x, c)
        PROVE  BehindReset(p, c)
    BY <1>11, <2>3 DEF BehindReset
  <2>4. QED
    BY <1>1, <1>15, <2>1, <2>2, <2>3 DEF BehindReset
<1>16. \A i : HandedOut(p, i) <=> HandedOut(p, i)'
  BY <1>3 DEF HandedOut
<1>17. Flow(p)'
  BY <1>2, <1>3, <1>13, <1>15, <1>16, FlowTaken
<1>18. QED
  BY <1>1, <1>8, <1>17 DEF DataInv, Flow

LEMMA ConveyResetFlow ==
    ASSUME Typed, DataInv, NEW p \in Peers, ConveyReset(p)
    PROVE  DataInv'
<1>1. PICK q \in Peers : q = Peer(p) /\ p = Peer(q) /\ q # p /\ \A r \in Peers : r = p \/ r = q
  BY PeerFacts
<1>2. TypeOK /\ Flow(p) /\ Flow(q) /\ out[p] \in Seq(Chunk) /\ tasks[q] \in Seq(Task)
  BY <1>1 DEF DataInv, Flow, Typed, TypeOK
<1>3. /\ UNCHANGED <<opens, log, handed, partial_outgoing_message_, stream_status_by_sid_>>
      /\ out' = [out EXCEPT ![p] = Tail(@)] /\ out[p] # <<>> /\ Head(out[p]).kind = "reset"
      /\ tasks' = Posted(q, <<[kind |-> "incoming", sids |-> Head(out[p]).sids]>>)
  BY <1>1 DEF ConveyReset, history
<1>4. \A r \in Peers, s \in Sids : ResetReceived(r, s)' <=> ResetReceived(r, s)
  BY <1>3, StreamsSame
<1>5. out'[q] = out[q] /\ out'[p] = Tail(out[p])
  BY <1>1, <1>2, <1>3 DEF TypeOK
<1>6. PICK h : h = Head(out[p])
  OBVIOUS
<1>7. PICK e \in Task : e = [kind |-> "incoming", sids |-> h.sids]
  <2>1. h.sids \subseteq Sids
    BY <1>2, <1>3, <1>6, RequestAtHead
  <2>2. QED
    BY <2>1 DEF Task
<1>8. tasks'[q] = Append(tasks[q], e) /\ tasks'[p] = tasks[p]
  BY <1>1, <1>2, <1>3, <1>6, <1>7, ResetStepsEffect
<1>9. Flow(q)'
  BY <1>1, <1>2, <1>3, <1>4, <1>5, <1>8, CalmSame, FlowBeside
<1>10. e.kind = "incoming" /\ e.sids = h.sids /\ h.kind = "reset"
  BY <1>3, <1>6, <1>7
<1>11. /\ Range(out[p]) = Range(out'[p]) \cup {h}
       /\ \A x, y : Behind(out[p], x, y) <=> Behind(out'[p], x, y) \/ (x = h /\ y \in Range(out'[p]))
  BY <1>2, <1>3, <1>5, <1>6, RangeTail
<1>12. /\ Range(tasks'[q]) = Range(tasks[q]) \cup {e}
       /\ \A x, y : Behind(tasks'[q], x, y) <=> Behind(tasks[q], x, y) \/ (x \in Range(tasks[q]) /\ y = e)
  BY <1>2, <1>8, RangeAppended
<1>13. InTransit(p)' = InTransit(p)
  BY <1>1, <1>10, <1>11, <1>12 DEF InTransit, Data
<1>14. \A c \in InTransit(p) : c.sid \in Sids /\ c.kind = "data"
  <2>1. \A c \in DataChunk : c.sid \in Sids /\ c.kind = "data"
    BY DEF DataChunk
  <2>2. QED
    BY <1>2, <2>1, TransitTyped
<1>15. ASSUME NEW c \in InTransit(p), BehindReset(p, c)' PROVE BehindReset(p, c)
  <2>1. CASE ResetReceived(q, c.sid)'
    BY <1>1, <1>4, <1>14, <2>1 DEF BehindReset
  <2>2. ASSUME NEW x \in Range(tasks[q]), Resets(x, "incoming", c.sid),
               c \in Range(out'[p]) \/ Behind(tasks'[q], x, c)
        PROVE  BehindReset(p, c)
    <3>1. c # e
      BY <1>10, <1>14
    <3>2. c \in Range(out[p]) \/ Behind(tasks[q], x, c)
      BY <1>11, <1>12, <2>2, <3>1
    <3>3. QED
      BY <1>1, <2>2, <3>2 DEF BehindReset
  <2>3. ASSUME Resets(e, "incoming", c.sid), c \in Range(out'[p]) PROVE BehindReset(p, c)
    <3>1. Resets(h, "reset", c.sid) /\ h \in Range(out[p]) /\ Behind(out[p], h, c)
      BY <1>10, <1>11, <2>3 DEF Resets
    <3>2. QED
      BY <3>1 DEF BehindReset
  <2>4. ASSUME Resets(e, "incoming", c.sid), Behind(tasks'[q], e, c) PROVE BehindReset(p, c)
    <3>1. Behind(tasks[q], e, c)
      BY <1>10, <1>12, <1>14, <2>4
    <3>2. e \in Range(tasks[q])
      BY <3>1 DEF Behind, Range
    <3>3. QED
      BY <1>1, <2>4, <3>1, <3>2 DEF BehindReset
  <2>5. ASSUME NEW x \in Range(out'[p]), Resets(x, "reset", c.sid), Behind(out'[p], x, c)
        PROVE  BehindReset(p, c)
    BY <1>11, <2>5 DEF BehindReset
  <2>6. \/ ResetReceived(q, c.sid)'
        \/ \E x \in Range(tasks'[q]) :
               Resets(x, "incoming", c.sid) /\ (c \in Range(out'[p]) \/ Behind(tasks'[q], x, c))
        \/ \E x \in Range(out'[p]) : Resets(x, "reset", c.sid) /\ Behind(out'[p], x, c)
    BY <1>1, <1>15 DEF BehindReset
  <2>7. QED
    BY <1>12, <2>1, <2>2, <2>3, <2>4, <2>5, <2>6
<1>16. \A i : HandedOut(p, i) <=> HandedOut(p, i)'
  BY <1>3 DEF HandedOut
<1>17. Flow(p)'
  BY <1>2, <1>3, <1>13, <1>15, <1>16, FlowTaken
<1>18. QED
  BY <1>1, <1>9, <1>17 DEF DataInv, Flow

\* The rest of the buffered message, or part of it, is sent.
LEMMA ThresholdFlow ==
    ASSUME Typed, ResetsInv, DataInv, NEW p \in Peers, OnSendThresholdCallback(p)
    PROVE  DataInv'
<1>1. PICK q \in Peers : q = Peer(p) /\ p = Peer(q) /\ q # p /\ \A r \in Peers : r = p \/ r = q
  BY PeerFacts
<1>2. TypeOK /\ Flow(p) /\ Flow(q)
  BY <1>1 DEF DataInv, Flow, Typed
<1>3. UNCHANGED <<opens, log, handed>> /\ Callback(p, "threshold")
  BY ThresholdCases DEF history
<1>4. Calm(tasks'[p], tasks[p]) /\ tasks'[q] = tasks[q]
  BY <1>1, <1>2, <1>3, CallbackCalm, CallbackEffect
<1>5. CASE UNCHANGED <<partial_outgoing_message_, stream_status_by_sid_, out, resetting>>
  <2>1. \A r \in Peers : Calm(out'[r], out[r]) /\ Calm(tasks'[r], tasks[r])
    BY <1>1, <1>4, <1>5, CalmSame
  <2>2. QED
    BY <1>3, <1>5, <2>1, CalmStep, StreamsSame
<1>6. ASSUME NEW m \in Range(partial_outgoing_message_[p]),
             PartSent(p, m) \/ RestSent(p, m) \/ RestSentThenResets(p, m)
      PROVE  DataInv'
  <2>1. /\ m.left \in Nat /\ m.left > 0 /\ m.sid \in Sids /\ m.id \in Nat /\ m \in Message
        /\ DOMAIN partial_outgoing_message_[p] = {1} /\ m = partial_outgoing_message_[p][1]
    BY <1>6, BufferedMessage DEF Message
  <2>2. Range(partial_outgoing_message_[p]) = {m} /\ Buffered(p, m.sid)
    BY <2>1 DEF Range, Buffered
  <2>3. OfLog(p, m) /\ OpeningOf(p, m) = opens[p][m.sid]
    BY <1>2, <1>6 DEF Flow, ChunksLogged
  <2>4. PICK o \in Seq(Chunk) : o = SentOn(p, m)
    BY <2>1, TakenFits DEF Typed
  <2>5. PICK x : x = [m EXCEPT !.left = Left(p, m)]
    OBVIOUS
  <2>6. x.id = m.id /\ x.sid = m.sid
    BY <2>1, <2>5 DEF Message
  <2>7. /\ partial_outgoing_message_'[q] = partial_outgoing_message_[q]
        /\ Left(p, m) # 0 => partial_outgoing_message_'[p] = <<x>>
        /\ Left(p, m) = 0 => partial_outgoing_message_'[p] = <<>>
    <3>1. PICK b : /\ partial_outgoing_message_' = [partial_outgoing_message_ EXCEPT ![p] = b]
                   /\ Left(p, m) # 0 => b = <<x>>
                   /\ Left(p, m) = 0 => b = <<>>
      <4>1. CASE PartSent(p, m)
        <5>1. Left(p, m) # 0
          <6>1. Left(p, m) \in Nat
            BY <2>1, TakenFits DEF Typed
          <6>2. QED
            BY <4>1, <6>1 DEF PartSent
        <5>2. QED
          BY <2>5, <4>1, <5>1, Zenon DEF PartSent
      <4>2. CASE RestSent(p, m) \/ RestSentThenResets(p, m)
        BY <4>2, Zenon DEF RestSent, RestSentThenResets
      <4>3. QED
        BY <1>6, <4>1, <4>2
    <3>2. QED
      BY <1>1, <1>2, <3>1 DEF TypeOK
  <2>8. Range(partial_outgoing_message_'[p]) = IF Left(p, m) = 0 THEN {} ELSE {x}
    BY <2>7 DEF Range
  <2>9. /\ out'[q] = out[q] /\ Calm(out'[p], o)
        /\ \A r \in Peers, s \in Sids : ResetReceived(r, s)' => ResetReceived(r, s)
    <3>1. CASE PartSent(p, m) \/ RestSent(p, m)
      <4>1. out' = [out EXCEPT ![p] = o] /\ UNCHANGED stream_status_by_sid_
        BY <2>4, <3>1 DEF PartSent, RestSent
      <4>2. out'[p] = o /\ out'[q] = out[q]
        BY <1>1, <1>2, <4>1 DEF TypeOK
      <4>3. QED
        BY <4>1, <4>2, CalmSame, StreamsSame
    <3>2. CASE RestSentThenResets(p, m)
      <4>1. PICK status \in StatusMap : status = stream_status_by_sid_[p]
        BY <1>2, MapsTyped
      <4>2. SendQueuedStreamResets(p, status, <<>>, o)
        BY <2>4, <3>2, <4>1 DEF RestSentThenResets
      <4>3. /\ Calm(out'[p], o) /\ OnlyAt(p)
            /\ \A s \in Sids : ResetReceived(p, s)'
                                <=> (s \in DOMAIN status => status[s].incoming_reset_complete)
        BY <1>2, <4>2, ResetsCalm
      <4>4. \A s \in Sids : ResetReceived(p, s)' => ResetReceived(p, s)
        BY <4>1, <4>3 DEF ResetReceived, Known, InDone
      <4>5. out'[q] = out[q] /\ stream_status_by_sid_'[q] = stream_status_by_sid_[q]
        BY <1>1, <4>3 DEF OnlyAt
      <4>6. \A s \in Sids : ResetReceived(q, s)' => ResetReceived(q, s)
        BY <4>5 DEF ResetReceived, Known, InDone
      <4>7. QED
        BY <1>1, <4>3, <4>4, <4>5, <4>6
    <3>3. QED
      BY <1>6, <3>1, <3>2
  <2>10. Flow(q)'
    BY <1>1, <1>2, <1>3, <1>4, <2>7, <2>9, FlowBeside
  <2>11. PICK l \in Nat, t \in Nat : /\ l = Left(p, m) /\ t = Taken(p, m)
                                     /\ l = 0 => t = DataLength(m)
                                     /\ t = 0 => l = m.left
    <3>1. Left(p, m) \in Nat /\ Taken(p, m) \in Nat /\ (Left(p, m) = 0 => Taken(p, m) = m.left)
      BY <2>1, TakenFits DEF Typed
    <3>2. Taken(p, m) = 0 => Left(p, m) = m.left
      BY <2>1 DEF Left
    <3>3. DataLength(m) = m.left
      BY <2>1 DEF DataLength
    <3>4. QED
      BY <3>1, <3>2, <3>3
  <2>12. CASE t = 0
    <3>1. o = out[p] /\ Range(partial_outgoing_message_'[p]) = {x}
      BY <2>1, <2>4, <2>8, <2>11, <2>12 DEF SentOn
    <3>2. Data(out'[p]) = Data(out[p]) /\ Calm(out'[p], out[p])
      BY <2>9, <3>1 DEF Calm
    <3>3. InTransit(p)' = InTransit(p)
      BY <1>1, <1>4, <3>2 DEF InTransit
    <3>4. \A c \in InTransit(p) : c.sid \in Sids /\ c.kind = "data"
      <4>1. \A c \in DataChunk : c.sid \in Sids /\ c.kind = "data"
        BY DEF DataChunk
      <4>2. QED
        BY <1>2, <4>1, TransitTyped
    <3>5. ASSUME NEW c \in InTransit(p), BehindReset(p, c)' PROVE BehindReset(p, c)
      <4>1. c.sid \in Sids /\ c.kind = "data"
        BY <3>4
      <4>2. CASE ResetReceived(q, c.sid)'
        BY <1>1, <2>9, <4>1, <4>2 DEF BehindReset
      <4>3. ASSUME NEW e \in Range(tasks[q]), Resets(e, "incoming", c.sid),
                   c \in Range(out'[p]) \/ Behind(tasks[q], e, c)
            PROVE  BehindReset(p, c)
        <5>1. c \in Range(out[p]) \/ Behind(tasks[q], e, c)
          BY <3>2, <4>1, <4>3 DEF Data
        <5>2. QED
          BY <1>1, <4>3, <5>1 DEF BehindReset
      <4>4. ASSUME NEW e \in Range(out'[p]), Resets(e, "reset", c.sid), Behind(out'[p], e, c)
            PROVE  BehindReset(p, c)
        <5>1. Behind(out[p], e, c)
          BY <3>2, <4>1, <4>4 DEF Calm
        <5>2. e \in Range(out[p])
          BY <5>1 DEF Behind, Range
        <5>3. QED
          BY <4>4, <5>1, <5>2 DEF BehindReset
      <4>5. QED
        BY <1>1, <1>4, <3>5, <4>2, <4>3, <4>4 DEF BehindReset
    <3>6. \A i : HandedOut(p, i) <=> HandedOut(p, i)'
      BY <1>3 DEF HandedOut
    <3>7. /\ \A y \in Range(partial_outgoing_message_'[p]) :
                 \E z \in Range(partial_outgoing_message_[p]) : z.id = y.id /\ z.sid = y.sid
          /\ \A z \in Range(partial_outgoing_message_[p]) :
                 \E y \in Range(partial_outgoing_message_'[p]) : z.id = y.id
      BY <2>2, <2>6, <3>1
    <3>8. Flow(p)'
      BY <1>2, <1>3, <3>3, <3>5, <3>6, <3>7, FlowTaken
    <3>9. QED
      BY <1>1, <2>10, <3>8 DEF DataInv, Flow
  <2>13. CASE t # 0
    <3>1. PICK c \in DataChunk :
              /\ o = Append(out[p], c)
              /\ c.kind = "data" /\ c.sid = m.sid /\ c.id = m.id
              /\ c.eor <=> Taken(p, m) = DataLength(m)
      BY <2>1, <2>4, <2>11, <2>13, SentOnIs
    <3>2. Calm(out'[p], Append(out[p], c)) /\ Buffered(p, c.sid)
      BY <2>2, <2>9, <3>1
    <3>3. /\ c.id \in DOMAIN log'[p] /\ log'[p][c.id].sid = c.sid
          /\ log'[p][c.id].opening = opens[p][c.sid]
      BY <1>3, <2>3, <3>1 DEF OfLog, OpeningOf
    <3>4. /\ \A y \in Range(partial_outgoing_message_'[p]) : y.id = c.id /\ y.sid = c.sid
          /\ \A y \in Range(partial_outgoing_message_[p]) : y.id = c.id
      BY <2>2, <2>6, <2>8, <3>1
    <3>5. c.eor \/ \E y \in Range(partial_outgoing_message_'[p]) : y.id = c.id
      BY <2>6, <2>8, <2>11, <3>1
    <3>6. Flow(p)'
      BY <1>1, <1>2, <1>3, <1>4, <2>9, <3>2, <3>3, <3>4, <3>5, FlowSent
    <3>7. QED
      BY <1>1, <2>10, <3>6 DEF DataInv, Flow
  <2>14. QED
    BY <2>12, <2>13
<1>7. QED
  BY <1>5, <1>6, ThresholdCases

\* A chunk is taken from the queue; the message it ends is handed out.
LEMMA DataFromSctpFlow ==
    ASSUME Typed, DataInv, NEW p \in Peers, OnDataFromSctp(p)
    PROVE  DataInv'
<1>1. PICK q \in Peers : q = Peer(p) /\ p = Peer(q) /\ q # p /\ \A r \in Peers : r = p \/ r = q
  BY PeerFacts
<1>2. TypeOK /\ Flow(p) /\ Flow(q) /\ tasks[p] \in Seq(Task)
  BY <1>1 DEF DataInv, Flow, Typed, TypeOK
<1>3. UNCHANGED <<opens, log, partial_outgoing_message_, stream_status_by_sid_, out>>
  BY DEF OnDataFromSctp, association
<1>4. \A r \in Peers, s \in Sids : ResetReceived(r, s)' <=> ResetReceived(r, s)
  BY <1>3, StreamsSame
<1>5. PICK h : h = Head(tasks[p])
  OBVIOUS
<1>6. /\ tasks[p] # <<>> /\ tasks'[p] = Tail(tasks[p]) /\ tasks'[q] = tasks[q]
  BY <1>1, <1>2, CallbackEffect DEF OnDataFromSctp
<1>7. PICK g \in Seq([sid : Sids, size : Nat, ids : SUBSET Nat]) : g = handed[p]
  BY <1>2 DEF TypeOK
<1>8. /\ handed'[q] = handed[q]
      /\ Range(handed[p]) \subseteq Range(handed'[p])
      /\ h.eor => \E m \in Range(handed'[p]) : h.id \in m.ids
  <2>1. \/ UNCHANGED handed /\ ~h.eor
        \/ \E x : handed' = [handed EXCEPT ![p] = Append(g, x)] /\ h.id \in x.ids
    <3>1. CASE UNCHANGED handed /\ ~h.eor
      BY <3>1
    <3>2. CASE ~(UNCHANGED handed /\ ~h.eor)
      <4>1. PICK message, size :
                handed' = [handed EXCEPT ![p] = Append(@,
                           [sid |-> h.sid, size |-> size,
                            ids |-> {d.id : d \in Range(message)} \cup {h.id}])]
        BY <1>5, <3>2, Zenon DEF OnDataFromSctp
      <4>2. PICK x : x = [sid |-> h.sid, size |-> size,
                          ids |-> {d.id : d \in Range(message)} \cup {h.id}]
        OBVIOUS
      <4>3. h.id \in x.ids
        BY <4>2
      <4>4. handed' = [handed EXCEPT ![p] = Append(g, x)]
        BY <1>7, <4>1, <4>2
      <4>5. QED
        BY <4>3, <4>4
    <3>3. QED
      BY <3>1, <3>2
  <2>2. CASE UNCHANGED handed /\ ~h.eor
    BY <2>2
  <2>3. ASSUME NEW x, handed' = [handed EXCEPT ![p] = Append(g, x)], h.id \in x.ids
        PROVE  /\ handed'[q] = handed[q] /\ Range(handed[p]) \subseteq Range(handed'[p])
               /\ \E m \in Range(handed'[p]) : h.id \in m.ids
    <3>1. handed'[p] = Append(g, x) /\ handed'[q] = handed[q]
      BY <1>1, <1>2, <2>3 DEF TypeOK
    <3>2. Range(Append(g, x)) = Range(g) \cup {x}
      <4>1. PICK H : g \in Seq(H)
        BY Zenon
      <4>2. PICK S : H \subseteq S /\ x \in S
        <5>1. H \subseteq H \cup {x} /\ x \in H \cup {x}
          OBVIOUS
        <5>2. QED
          BY <5>1, Zenon
      <4>3. g \in Seq(S) /\ x \in S
        BY <4>1, <4>2
      <4>4. QED
        BY <4>3, RangeAppended
    <3>3. QED
      BY <1>7, <2>3, <3>1, <3>2
  <2>4. QED
    BY <2>1, <2>2, <2>3
<1>9. Flow(p)'
  BY <1>1, <1>2, <1>3, <1>4, <1>6, <1>8, CalmSame, FlowBeside
<1>10. /\ Range(tasks[p]) = Range(tasks'[p]) \cup {h}
       /\ \A x, y : Behind(tasks'[p], x, y) => Behind(tasks[p], x, y)
  BY <1>2, <1>5, <1>6, RangeTail
<1>11. InTransit(q)' \subseteq InTransit(q)
  BY <1>1, <1>3, <1>10 DEF InTransit, Data
<1>12. \A i : HandedOut(q, i) => HandedOut(q, i)'
  BY <1>1, <1>8 DEF HandedOut
<1>13. \A c \in InTransit(q) : c.eor => c \in InTransit(q)' \/ HandedOut(q, c.id)'
  <2>1. \A c \in InTransit(q) : c \in InTransit(q)' \/ c = h
    BY <1>1, <1>3, <1>10 DEF InTransit, Data
  <2>2. h.eor => HandedOut(q, h.id)'
    BY <1>1, <1>8 DEF HandedOut
  <2>3. QED
    BY <2>1, <2>2
<1>14. \A c \in InTransit(q) : c.sid \in Sids
  <2>1. \A c \in DataChunk : c.sid \in Sids
    BY DEF DataChunk
  <2>2. QED
    BY <1>2, <2>1, TransitTyped
<1>15. ASSUME NEW c \in InTransit(q)', BehindReset(q, c)' PROVE BehindReset(q, c)
  <2>1. CASE ResetReceived(p, c.sid)'
    BY <1>1, <1>4, <1>11, <1>14, <2>1 DEF BehindReset
  <2>2. ASSUME NEW x \in Range(tasks'[p]), Resets(x, "incoming", c.sid),
               c \in Range(out[q]) \/ Behind(tasks'[p], x, c)
        PROVE  BehindReset(q, c)
    BY <1>1, <1>10, <2>2 DEF BehindReset
  <2>3. ASSUME NEW x \in Range(out[q]), Resets(x, "reset", c.sid), Behind(out[q], x, c)
        PROVE  BehindReset(q, c)
    BY <2>3 DEF BehindReset
  <2>4. QED
    BY <1>1, <1>3, <1>15, <2>1, <2>2, <2>3 DEF BehindReset
<1>16. Flow(q)'
  BY <1>2, <1>3, <1>11, <1>12, <1>13, <1>15, FlowTaken
<1>17. QED
  BY <1>1, <1>9, <1>16 DEF DataInv, Flow

\* The steps that ask for resets touch neither data nor what was received ...
LEMMA ResettingFlow ==
    ASSUME Typed, DataInv, NEW p \in Peers,
           \/ \E s \in Sids : ResetStream(p, s)
           \/ OnNotificationAssocChange(p) \/ OnStreamResetFailed(p)
           \/ OnStreamResetEvent(p, "outgoing")
    PROVE  DataInv'
<1>1. TypeOK /\ out[p] \in Seq(Chunk)
  BY DEF Typed, TypeOK
<1>2. UNCHANGED <<opens, log, handed, partial_outgoing_message_>>
  BY DEF ResetStream, OnNotificationAssocChange, OnStreamResetFailed, OnStreamResetEvent, history
<1>3. \A r \in Peers : Calm(tasks'[r], tasks[r])
  <2>1. CASE \E s \in Sids : ResetStream(p, s)
    BY <2>1, CalmSame DEF ResetStream
  <2>2. ASSUME NEW kind \in {"up", "failed", "outgoing"}, Callback(p, kind)
        PROVE  \A r \in Peers : Calm(tasks'[r], tasks[r])
    BY <1>1, <2>2, CallbackCalm
  <2>3. QED
    BY <2>1, <2>2 DEF OnNotificationAssocChange, OnStreamResetFailed, OnStreamResetEvent
<1>4. PICK status \in StatusMap :
          /\ SendQueuedStreamResets(p, status, partial_outgoing_message_[p], out[p])
          /\ \A s \in Sids : (s \in DOMAIN status => status[s].incoming_reset_complete)
                             => ResetReceived(p, s)
  <2>1. ASSUME NEW s \in Sids, ResetStream(p, s)
        PROVE  \E status \in StatusMap :
                   /\ SendQueuedStreamResets(p, status, partial_outgoing_message_[p], out[p])
                   /\ \A x \in Sids : (x \in DOMAIN status => status[x].incoming_reset_complete)
                                      => ResetReceived(p, x)
    <3>1. PICK status : status = [stream_status_by_sid_[p] EXCEPT ![s].closure_initiated = TRUE]
      OBVIOUS
    <3>2. SendQueuedStreamResets(p, status, partial_outgoing_message_[p], out[p]) /\ Open(p, s)
      BY <2>1, <3>1 DEF ResetStream
    <3>3. status \in StatusMap
      BY <1>1, <3>1, <3>2, MapsTyped DEF Open
    <3>4. ASSUME NEW x \in Sids, x \in DOMAIN status => status[x].incoming_reset_complete
          PROVE  ResetReceived(p, x)
      <4>1. SUFFICES ASSUME x \in DOMAIN stream_status_by_sid_[p]
                     PROVE  stream_status_by_sid_[p][x].incoming_reset_complete
        BY DEF ResetReceived, Known, InDone
      <4>2. stream_status_by_sid_[p][x] \in StreamStatus
        BY <1>1, <4>1, MapsTyped, StatusMaps
      <4>3. status[x].incoming_reset_complete
        BY <3>1, <3>4, <4>1
      <4>4. QED
        BY <3>1, <4>1, <4>2, <4>3 DEF StreamStatus
    <3>5. QED
      BY <3>2, <3>3, <3>4
  <2>2. CASE OnNotificationAssocChange(p)
    <3>1. PICK status \in StatusMap : status = stream_status_by_sid_[p]
      BY <1>1, MapsTyped
    <3>2. SendQueuedStreamResets(p, status, partial_outgoing_message_[p], out[p])
      BY <2>2, <3>1 DEF OnNotificationAssocChange
    <3>3. QED
      BY <3>1, <3>2 DEF ResetReceived, Known, InDone
  <2>3. CASE OnStreamResetFailed(p)
    <3>1. PICK status \in StatusMap :
              status = [s \in DOMAIN stream_status_by_sid_[p] |->
                           [stream_status_by_sid_[p][s] EXCEPT !.outgoing_reset_initiated = FALSE]]
      BY <1>1, MapsTyped, Zenon
    <3>2. SendQueuedStreamResets(p, status, partial_outgoing_message_[p], out[p])
      BY <2>3, <3>1 DEF OnStreamResetFailed
    <3>3. ASSUME NEW x \in Sids, x \in DOMAIN status => status[x].incoming_reset_complete
          PROVE  ResetReceived(p, x)
      <4>1. SUFFICES ASSUME x \in DOMAIN stream_status_by_sid_[p]
                     PROVE  stream_status_by_sid_[p][x].incoming_reset_complete
        BY DEF ResetReceived, Known, InDone
      <4>2. stream_status_by_sid_[p][x] \in StreamStatus
        BY <1>1, <4>1, MapsTyped, StatusMaps
      <4>3. status[x].incoming_reset_complete
        BY <3>1, <3>3, <4>1
      <4>4. QED
        BY <3>1, <4>1, <4>2, <4>3 DEF StreamStatus
    <3>4. QED
      BY <3>2, <3>3
  <2>4. CASE OnStreamResetEvent(p, "outgoing")
    <3>1. PICK status \in StatusMap :
              status = WithoutClosed(Marked(stream_status_by_sid_[p], Head(tasks[p]).sids, FALSE))
      BY <1>1, MapsTyped, Zenon
    <3>2. SendQueuedStreamResets(p, status, partial_outgoing_message_[p], out[p])
      <4>1. ("outgoing" = "incoming") = FALSE
        OBVIOUS
      <4>2. SendQueuedStreamResets(p,
                WithoutClosed(Marked(stream_status_by_sid_[p], Head(tasks[p]).sids,
                                     "outgoing" = "incoming")),
                partial_outgoing_message_[p], out[p])
        BY <2>4 DEF OnStreamResetEvent
      <4>3. QED
        BY <3>1, <4>1, <4>2
    <3>3. \A x \in Sids : MarkedMap(p, status, Head(tasks[p]).sids, FALSE, x)
      BY <1>1, <3>1, MarkedMaps
    <3>4. QED
      BY <3>2, <3>3 DEF MarkedMap, ResetReceived
  <2>5. QED
    BY <2>1, <2>2, <2>3, <2>4
<1>5. /\ Calm(out'[p], out[p]) /\ OnlyAt(p)
      /\ \A s \in Sids : ResetReceived(p, s)'
                          <=> (s \in DOMAIN status => status[s].incoming_reset_complete)
  BY <1>1, <1>4, ResetsCalm
<1>6. \A r \in Peers : Calm(out'[r], out[r])
  BY <1>5, CalmSame DEF OnlyAt
<1>7. \A r \in Peers, s \in Sids : ResetReceived(r, s)' => ResetReceived(r, s)
  <2>1. \A s \in Sids : ResetReceived(p, s)' => ResetReceived(p, s)
    BY <1>4, <1>5
  <2>2. \A r \in Peers : r # p => \A s \in Sids : ResetReceived(r, s)' => ResetReceived(r, s)
    BY <1>5 DEF OnlyAt, ResetReceived, Known, InDone
  <2>3. QED
    BY <2>1, <2>2
<1>8. QED
  BY <1>2, <1>3, <1>6, <1>7, CalmStep

\* ... but for the peer's reset, which was ahead of what it now is behind of.
LEMMA IncomingFlow ==
    ASSUME Typed, DataInv, NEW p \in Peers, OnStreamResetEvent(p, "incoming")
    PROVE  DataInv'
<1>1. PICK q \in Peers : q = Peer(p) /\ p = Peer(q) /\ q # p /\ \A r \in Peers : r = p \/ r = q
  BY PeerFacts
<1>2. TypeOK /\ Flow(p) /\ Flow(q) /\ tasks[p] \in Seq(Task) /\ out[p] \in Seq(Chunk)
  BY <1>1 DEF DataInv, Flow, Typed, TypeOK
<1>3. UNCHANGED <<opens, log, handed, partial_outgoing_message_>> /\ Callback(p, "incoming")
  BY DEF OnStreamResetEvent, history
<1>4. PICK h : h = Head(tasks[p])
  OBVIOUS
<1>5. /\ tasks[p] # <<>> /\ tasks'[p] = Tail(tasks[p]) /\ tasks'[q] = tasks[q]
      /\ h.kind = "incoming"
  BY <1>1, <1>2, <1>3, <1>4, CallbackEffect
<1>6. PICK status \in StatusMap :
          status = WithoutClosed(Marked(stream_status_by_sid_[p], h.sids, TRUE))
  BY <1>2, MapsTyped, Zenon
<1>7. SendQueuedStreamResets(p, status, partial_outgoing_message_[p], out[p])
  <2>1. SendQueuedStreamResets(p,
            WithoutClosed(Marked(stream_status_by_sid_[p], Head(tasks[p]).sids,
                                 "incoming" = "incoming")),
            partial_outgoing_message_[p], out[p])
    BY DEF OnStreamResetEvent
  <2>2. ("incoming" = "incoming") = TRUE
    OBVIOUS
  <2>3. QED
    BY <1>4, <1>6, <2>1, <2>2
<1>8. /\ Calm(out'[p], out[p]) /\ OnlyAt(p)
      /\ \A s \in Sids : ResetReceived(p, s)'
                          <=> (s \in DOMAIN status => status[s].incoming_reset_complete)
  BY <1>2, <1>7, ResetsCalm
<1>9. \A s \in Sids : ResetReceived(p, s)' => ResetReceived(p, s) \/ s \in h.sids
  <2>1. \A s \in Sids : MarkedMap(p, status, h.sids, TRUE, s)
    BY <1>2, <1>6, MarkedMaps
  <2>2. QED
    BY <1>8, <2>1 DEF MarkedMap, ResetReceived
<1>10. out'[q] = out[q] /\ \A s \in Sids : ResetReceived(q, s)' => ResetReceived(q, s)
  BY <1>1, <1>8 DEF OnlyAt, ResetReceived, Known, InDone
<1>11. Flow(p)'
  BY <1>1, <1>2, <1>3, <1>5, <1>8, <1>10, CalmSame, FlowCalm
<1>12. /\ Range(tasks[p]) = Range(tasks'[p]) \cup {h}
       /\ \A x, y : Behind(tasks[p], x, y) <=> Behind(tasks'[p], x, y) \/ (x = h /\ y \in Range(tasks'[p]))
  BY <1>2, <1>4, <1>5, RangeTail
<1>13. InTransit(q)' = InTransit(q)
  BY <1>1, <1>5, <1>10, <1>12 DEF InTransit, Data
<1>14. \A c \in InTransit(q) : c.sid \in Sids
  <2>1. \A c \in DataChunk : c.sid \in Sids
    BY DEF DataChunk
  <2>2. QED
    BY <1>2, <2>1, TransitTyped
<1>15. ASSUME NEW c \in InTransit(q), BehindReset(q, c)' PROVE BehindReset(q, c)
  <2>1. CASE ResetReceived(p, c.sid)
    BY <1>1, <2>1 DEF BehindReset
  <2>2. CASE c.sid \in h.sids
    <3>1. Resets(h, "incoming", c.sid) /\ h \in Range(tasks[p])
      BY <1>5, <1>12, <2>2 DEF Resets
    <3>2. c \in Range(out[q]) \/ c \in Range(tasks'[p])
      BY <1>1, <1>10, <1>13, <1>15 DEF InTransit, Data
    <3>3. c \in Range(out[q]) \/ Behind(tasks[p], h, c)
      BY <1>12, <3>2
    <3>4. QED
      BY <1>1, <3>1, <3>3 DEF BehindReset
  <2>3. CASE ~ResetReceived(p, c.sid) /\ c.sid \notin h.sids
    <3>1. ~ResetReceived(p, c.sid)'
      BY <1>9, <1>14, <2>3
    <3>2. ASSUME NEW x \in Range(tasks'[p]), Resets(x, "incoming", c.sid),
                 c \in Range(out[q]) \/ Behind(tasks'[p], x, c)
          PROVE  BehindReset(q, c)
      BY <1>1, <1>12, <3>2 DEF BehindReset
    <3>3. ASSUME NEW x \in Range(out[q]), Resets(x, "reset", c.sid), Behind(out[q], x, c)
          PROVE  BehindReset(q, c)
      BY <3>3 DEF BehindReset
    <3>4. QED
      BY <1>1, <1>10, <1>15, <3>1, <3>2, <3>3 DEF BehindReset
  <2>4. QED
    BY <2>1, <2>2, <2>3
<1>16. \A i : HandedOut(q, i) <=> HandedOut(q, i)'
  BY <1>3 DEF HandedOut
<1>17. Flow(q)'
  BY <1>2, <1>3, <1>13, <1>15, <1>16, FlowTaken
<1>18. QED
  BY <1>1, <1>11, <1>17 DEF DataInv, Flow

\* A stream is used again when nothing of it is buffered and no reset of it is
\* underway.
LEMMA OpenStreamFlow ==
    ASSUME Typed, ResetsInv, DataInv, ~ReuseAfterRefusal,
           NEW p \in Peers, NEW s \in Sids, OpenStream(p, s)
    PROVE  DataInv'
<1>1. PICK q \in Peers : q = Peer(p) /\ p = Peer(q) /\ q # p /\ \A r \in Peers : r = p \/ r = q
  BY PeerFacts
<1>2. TypeOK /\ Flow(p) /\ Flow(q)
  BY <1>1 DEF DataInv, Flow, Typed
<1>3. /\ UNCHANGED <<log, handed, partial_outgoing_message_, tasks, out>>
      /\ failures = 0 /\ ~Known(p, s)
      /\ opens' = [opens EXCEPT ![p][s] = @ + 1]
  BY DEF OpenStream, association, Known
<1>4. /\ opens'[q] = opens[q] /\ \A x \in Sids : x # s => opens'[p][x] = opens[p][x]
  BY <1>1, <1>2, <1>3 DEF TypeOK
<1>5. /\ \A x \in Sids : ResetReceived(q, x)' <=> ResetReceived(q, x)
      /\ \A x \in Sids : x # s => (ResetReceived(p, x)' <=> ResetReceived(p, x))
      /\ ~ResetReceived(p, s)'
  <2>1. PICK status : status = [t \in DOMAIN stream_status_by_sid_[p] \cup {s} |->
                                   IF t = s THEN NewStatus ELSE stream_status_by_sid_[p][t]]
    OBVIOUS
  <2>2. stream_status_by_sid_' = [stream_status_by_sid_ EXCEPT ![p] = status]
    BY <2>1 DEF OpenStream
  <2>3. stream_status_by_sid_'[p] = status /\ stream_status_by_sid_'[q] = stream_status_by_sid_[q]
    BY <1>1, <1>2, <2>2 DEF TypeOK
  <2>4. \A x \in Sids : ResetReceived(q, x)' <=> ResetReceived(q, x)
    BY <2>3 DEF ResetReceived, Known, InDone
  <2>5. \A x \in Sids : x # s => (ResetReceived(p, x)' <=> ResetReceived(p, x))
    BY <2>1, <2>3 DEF ResetReceived, Known, InDone
  <2>6. ~ResetReceived(p, s)'
    BY <2>1, <2>3 DEF ResetReceived, Known, InDone, NewStatus
  <2>7. QED
    BY <2>4, <2>5, <2>6
<1>6. ~Buffered(p, s) /\ ResetReceived(p, s)
  BY <1>3 DEF ResetsInv, FlightsClosed, ResetSent, ResetReceived
<1>7. ~Underway(q, s)
  BY <1>1, <1>3, <1>6, HandledBefore
<1>8. ASSUME NEW r \in Peers
      PROVE  /\ InTransit(r)' = InTransit(r) /\ NothingLost(r)'
             /\ \A c : OfLog(r, c)' <=> OfLog(r, c)
             /\ \A c : OpeningOf(r, c)' = OpeningOf(r, c)
  <2>1. InTransit(r)' = InTransit(r)
    BY <1>3 DEF InTransit
  <2>2. \A i : HandedOut(r, i)' <=> HandedOut(r, i)
    BY <1>3 DEF HandedOut
  <2>3. NothingLost(r)
    BY DEF DataInv
  <2>4. QED
    BY <1>3, <2>1, <2>2, <2>3 DEF NothingLost, OfLog, OpeningOf
<1>9. \A r \in Peers : \A c \in InTransit(r) : c.sid \in Sids
  <2>1. \A c \in DataChunk : c.sid \in Sids
    BY DEF DataChunk
  <2>2. QED
    BY <1>2, <2>1, TransitTyped
<1>10. \A r \in Peers : \A m \in Range(partial_outgoing_message_[r]) : m.sid \in Sids
  BY BufferedMessage DEF Message
<1>11. ChunksLogged(q)'
  BY <1>1, <1>2, <1>3, <1>4, <1>8 DEF ChunksLogged, Flow
<1>12. ChunksLogged(p)'
  <2>1. \A m \in Range(partial_outgoing_message_[p]) : m.sid \in Sids /\ m.sid # s
    BY <1>6, <1>10 DEF Buffered, Range
  <2>2. QED
    BY <1>2, <1>3, <1>4, <1>8, <2>1 DEF ChunksLogged, Flow
<1>13. NothingOvertaken(p)'
  <2>1. SUFFICES ASSUME NEW c \in InTransit(p), BehindReset(p, c)'
                 PROVE  OpeningOf(p, c) > opens[q][c.sid]
    BY <1>1, <1>4, <1>8 DEF NothingOvertaken
  <2>2. BehindReset(p, c)
    BY <1>1, <1>3, <1>5, <1>9, <2>1 DEF BehindReset
  <2>3. QED
    BY <1>1, <1>2, <2>2 DEF Flow, NothingOvertaken
<1>14. NothingOvertaken(q)'
  <2>1. SUFFICES ASSUME NEW c \in InTransit(q), BehindReset(q, c)'
                 PROVE  OpeningOf(q, c) > opens'[p][c.sid]
    BY <1>1, <1>8 DEF NothingOvertaken
  <2>2. c.sid \in Sids
    BY <1>9
  <2>3. CASE c.sid = s
    <3>1. CASE ResetReceived(p, c.sid)'
      BY <1>5, <2>3, <3>1
    <3>2. ASSUME NEW e \in Range(tasks[p]), Resets(e, "incoming", c.sid) PROVE FALSE
      <4>1. Holds(tasks[p], "incoming", s)
        BY <2>3, <3>2 DEF Holds, Range
      <4>2. QED
        BY <1>1, <1>7, <4>1 DEF Underway
    <3>3. ASSUME NEW e \in Range(out[q]), Resets(e, "reset", c.sid) PROVE FALSE
      <4>1. Unconveyed(q, s)
        BY <2>3, <3>3 DEF ResetsInv, RequestsMatch, Range, Resets, Unconveyed
      <4>2. QED
        BY <1>7, <4>1 DEF Underway
    <3>4. QED
      BY <1>1, <1>3, <2>1, <3>1, <3>2, <3>3 DEF BehindReset
  <2>4. CASE c.sid # s
    <3>1. BehindReset(q, c)
      BY <1>1, <1>3, <1>5, <2>1, <2>2, <2>4 DEF BehindReset
    <3>2. OpeningOf(q, c) > opens[p][c.sid]
      BY <1>1, <1>2, <3>1 DEF Flow, NothingOvertaken
    <3>3. QED
      BY <1>4, <2>2, <2>4, <3>2
  <2>5. QED
    BY <2>3, <2>4
<1>15. QED
  BY <1>1, <1>8, <1>11, <1>12, <1>13, <1>14 DEF DataInv

LEMMA InitData ==
    ASSUME Init
    PROVE  DataInv
<1>1. \A p \in Peers : /\ out[p] = <<>> /\ tasks[p] = <<>> /\ log[p] = <<>>
                       /\ partial_outgoing_message_[p] = <<>>
  BY DEF Init
<1>2. Range(<<>>) = {}
  BY DEF Range
<1>3. \A p \in Peers : InTransit(p) = {}
  BY <1>1, <1>2, PeerFacts DEF InTransit, Data
<1>4. \A p \in Peers : DOMAIN log[p] = {}
  BY <1>1
<1>5. QED
  BY <1>1, <1>2, <1>3, <1>4 DEF DataInv, ChunksLogged, NothingLost, NothingOvertaken

LEMMA NextData ==
    ASSUME Typed, ResetsInv, DataInv, ~ReuseAfterRefusal, [Next]_vars
    PROVE  DataInv'
<1>1. CASE UNCHANGED vars
  <2>1. UNCHANGED <<opens, log, handed, partial_outgoing_message_, stream_status_by_sid_, out, tasks>>
    BY <1>1 DEF vars, association, history
  <2>2. QED
    BY <2>1, CalmStep, StreamsSame, CalmSame
<1>2. CASE CommUp
  <2>1. PICK p \in Peers : TRUE
    BY SctpConstants
  <2>2. QED
    BY <1>2, <2>1, UsrsctpCalm
<1>3. ASSUME NEW p \in Peers, Application(p) PROVE DataInv'
  <2>1. CASE (\E limit \in Limits[p] : Start(p, limit)) \/ OnWritableState(p) \/ SendDataBlocked(p)
    BY <2>1, QuietFlow
  <2>2. CASE \E s \in Sids : OpenStream(p, s)
    BY <2>2, OpenStreamFlow
  <2>3. CASE \E s \in Sids : ResetStream(p, s)
    BY <2>3, ResettingFlow
  <2>4. ASSUME NEW w \in Writers, SendData(p, w[2], w[3]) PROVE DataInv'
    <3>1. w[2] \in Sids /\ w[3] \in Nat
      BY SctpConstants
    <3>2. QED
      BY <2>4, <3>1, SendDataFlow
  <2>5. QED
    BY <1>3, <2>1, <2>2, <2>3, <2>4 DEF Application
<1>4. ASSUME NEW p \in Peers, Usrsctp(p) \/ FailReset(p) PROVE DataInv'
  BY <1>4, UsrsctpCalm, ConveyDataFlow, ConveyResetFlow DEF Usrsctp
<1>5. ASSUME NEW p \in Peers, NetworkThread(p) PROVE DataInv'
  <2>1. CASE OnNotificationAssocChange(p) \/ OnStreamResetFailed(p)
    BY <2>1, ResettingFlow
  <2>2. CASE OnSenderDry(p)
    BY <2>2, QuietFlow
  <2>3. CASE OnSendThresholdCallback(p)
    BY <2>3, ThresholdFlow
  <2>4. CASE OnDataFromSctp(p)
    BY <2>4, DataFromSctpFlow
  <2>5. ASSUME NEW kind \in {"incoming", "outgoing"}, OnStreamResetEvent(p, kind) PROVE DataInv'
    BY <2>5, IncomingFlow, ResettingFlow
  <2>6. QED
    BY <1>5, <2>1, <2>2, <2>3, <2>4, <2>5 DEF NetworkThread
<1>6. QED
  BY <1>1, <1>2, <1>3, <1>4, <1>5 DEF Next

\* Every message that usrsctp took is handed out, buffered or on its way, and
\* no chunk is behind a reset that ends its own use of the stream.
THEOREM DataAccounted == ~ReuseAfterRefusal => (Spec => []DataInv)
<1>1. SUFFICES ASSUME ~ReuseAfterRefusal PROVE Spec => []DataInv
  OBVIOUS
<1>2. Init => DataInv
  BY InitData
<1>3. Typed /\ ResetsInv /\ DataInv /\ [Next]_vars => DataInv'
  BY <1>1, NextData
<1>4. Spec => []Typed
  BY SctpTyped
<1>5. Spec => []ResetsInv
  BY <1>1, ResetsAccounted
<1>6. QED
  BY <1>2, <1>3, <1>4, <1>5, PTL DEF Spec

\* When an end has handled the reset of a stream, or has closed the stream, it
\* has handed out every message its peer sent in that use (line 1054: a reset
\* waits until the buffered message is sent).
THEOREM ClosingLosesNothing == ~ReuseAfterRefusal => (Spec => []ClosedStreamsLoseNothing)
<1>1. SUFFICES ASSUME ~ReuseAfterRefusal PROVE Spec => []ClosedStreamsLoseNothing
  OBVIOUS
<1>2. Typed /\ ResetsInv /\ DataInv => ClosedStreamsLoseNothing
  <2>1. SUFFICES ASSUME Typed, ResetsInv, DataInv, NEW p \in Peers, NEW s \in Sids,
                        ResetReceived(Peer(p), s), NEW i \in DOMAIN log[p], log[p][i].sid = s,
                        log[p][i].opening <= opens[Peer(p)][s]
                 PROVE  HandedOut(p, i)
    BY DEF ClosedStreamsLoseNothing, ResetReceived, Known, InDone, HandedOut
  <2>2. PICK q \in Peers : q = Peer(p)
    BY <2>1, PeerFacts
  <2>3. PICK a \in Nat, b \in Nat : a = log[p][i].opening /\ b = opens[q][s] /\ a <= b
    <3>1. log[p] \in Seq([sid : Sids, size : Nat, opening : Nat]) /\ opens[q][s] \in Nat
      BY <2>1 DEF Typed, TypeOK
    <3>2. log[p][i].opening \in Nat
      <4>1. log[p][i] \in [sid : Sids, size : Nat, opening : Nat]
        BY <2>1, <3>1, ElementOfSeq, LenProperties
      <4>2. QED
        BY <4>1
    <3>3. QED
      BY <2>1, <2>2, <3>1, <3>2
  <2>4. ASSUME NEW m \in Range(partial_outgoing_message_[p]), m.id = i PROVE FALSE
    <3>1. OfLog(p, m) /\ OpeningOf(p, m) = opens[p][m.sid]
      BY <2>1, <2>4 DEF DataInv, ChunksLogged
    <3>2. m.sid = s /\ a = opens[p][s]
      BY <2>1, <2>3, <2>4, <3>1 DEF OfLog, OpeningOf
    <3>3. Buffered(p, s)
      BY <2>4, <3>2 DEF Buffered, Range
    <3>4. opens[p][s] > opens[q][s]
      BY <2>1, <2>2, <3>3, UsedAhead
    <3>5. QED
      BY <2>3, <3>2, <3>4
  <2>5. ASSUME NEW c \in InTransit(p), c.id = i PROVE FALSE
    <3>1. OfLog(p, c)
      BY <2>1, <2>5 DEF DataInv, ChunksLogged
    <3>2. c.sid = s /\ OpeningOf(p, c) = a
      BY <2>1, <2>3, <2>5, <3>1 DEF OfLog, OpeningOf
    <3>3. BehindReset(p, c)
      BY <2>1, <3>2 DEF BehindReset
    <3>4. OpeningOf(p, c) > opens[q][s]
      BY <2>1, <2>2, <2>5, <3>2, <3>3 DEF DataInv, NothingOvertaken
    <3>5. QED
      BY <2>3, <3>2, <3>4
  <2>6. QED
    BY <2>1, <2>4, <2>5 DEF DataInv, NothingLost
<1>3. Spec => []Typed
  BY SctpTyped
<1>4. Spec => []ResetsInv
  BY <1>1, ResetsAccounted
<1>5. Spec => []DataInv
  BY <1>1, DataAccounted
<1>6. QED
  BY <1>2, <1>3, <1>4, <1>5, PTL
=============================================================================
