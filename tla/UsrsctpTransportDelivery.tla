---------------------- MODULE UsrsctpTransportDelivery ----------------------
(* What UsrsctpTransport delivers, proved in two parts.                      *)
(*                                                                           *)
(* What usrsctp takes in parts arrives whole: PipeInv, the account of every  *)
(* unit of a message between the call of SendData and SignalDataReceived,    *)
(* and from it MessagesArriveWhole.  It needs nothing of the resets, so that *)
(* streams may be closed, refused and used again.                            *)
(*                                                                           *)
(* Nobody waits for ever, as far as states can say it: a writer that was     *)
(* told to wait has data under way or a callback coming (WakeInv), and a     *)
(* stream whose closing has begun has its resets sent, underway or a         *)
(* callback coming that sends them (StreamsInv).                             *)
EXTENDS UsrsctpTransportProofs

-----------------------------------------------------------------------------
(* Parts of a message in a queue.                                            *)

\* What an element of a queue holds of the i-th message.
Share(c, i) == IF c.kind = "data" /\ c.id = i /\ ~c.empty THEN c.units ELSE 0

LEMMA PartsIsSum ==
    ASSUME NEW o, NEW i
    PROVE  /\ Parts(o, i) = Sum(PartsIn(o, i), DOMAIN o)
           /\ \A k \in DOMAIN o : PartsIn(o, i)[k] = Share(o[k], i)
<1>1. DOMAIN PartsIn(o, i) = DOMAIN o
  BY DEF PartsIn
<1>2. Parts(o, i) = Sum(PartsIn(o, i), DOMAIN o)
  BY <1>1, Zenon DEF Parts, Sum, SumFunction, SumFunctionOnSet, FoldFunctionOnSet, MapThenSumSet
<1>3. \A k \in DOMAIN o : PartsIn(o, i)[k] = Share(o[k], i)
  BY DEF PartsIn, Share
<1>4. QED
  BY <1>2, <1>3

LEMMA SharesAreNaturals ==
    ASSUME NEW S, NEW o \in Seq(S), Measured(o), NEW i
    PROVE  /\ Len(o) \in Nat /\ DOMAIN o = 1 .. Len(o) /\ IsFiniteSet(1 .. Len(o))
           /\ \A k \in 1 .. Len(o) : PartsIn(o, i)[k] \in Nat
<1>1. Len(o) \in Nat /\ DOMAIN o = 1 .. Len(o) /\ IsFiniteSet(1 .. Len(o))
  BY UnitsAreNaturals
<1>2. \A k \in 1 .. Len(o) : Share(o[k], i) \in Nat
  BY DEF Share, Measured
<1>3. QED
  BY <1>1, <1>2, PartsIsSum

LEMMA PartsTyped ==
    ASSUME NEW S, NEW o \in Seq(S), Measured(o), NEW i
    PROVE  Parts(o, i) \in Nat
BY PartsIsSum, SharesAreNaturals, SumOfNaturals

LEMMA PartsAppend ==
    ASSUME NEW S, NEW o \in Seq(S), Measured(o), NEW c \in S, NEW i, Share(c, i) \in Nat
    PROVE  Parts(Append(o, c), i) = Parts(o, i) + Share(c, i)
<1>1. PICK l \in Nat : l = Len(o)
  OBVIOUS
<1>2. PICK q \in Seq(S) : q = Append(o, c)
  <2>1. Append(o, c) \in Seq(S)
    OBVIOUS
  <2>2. QED
    BY <2>1, Zenon
<1>3. /\ Len(q) = l + 1 /\ q[l + 1] = c /\ \A k \in 1 .. l : q[k] = o[k]
      /\ DOMAIN q = 1 .. (l + 1) /\ DOMAIN o = 1 .. l
  BY <1>1, <1>2
<1>4. PICK v : v = PartsIn(q, i)
  OBVIOUS
<1>5. PICK w : w = PartsIn(o, i)
  OBVIOUS
<1>6. \A k \in 1 .. l : k \in 1 .. (l + 1)
  OBVIOUS
<1>7. v[l + 1] = Share(c, i) /\ \A k \in 1 .. l : v[k] = w[k] /\ w[k] \in Nat
  <2>1. \A k \in 1 .. (l + 1) : v[k] = Share(q[k], i)
    BY <1>3, <1>4, PartsIsSum
  <2>2. \A k \in 1 .. l : w[k] = Share(o[k], i)
    BY <1>3, <1>5, PartsIsSum
  <2>3. \A k \in 1 .. l : w[k] \in Nat
    BY <1>1, <1>5, SharesAreNaturals
  <2>4. v[l + 1] = Share(c, i)
    BY <1>3, <2>1
  <2>5. QED
    BY <1>3, <1>6, <2>1, <2>2, <2>3, <2>4
<1>8. Parts(q, i) = Sum(v, 1 .. (l + 1)) /\ Parts(o, i) = Sum(w, 1 .. l)
  BY <1>3, <1>4, <1>5, PartsIsSum
<1>9. Sum(v, 1 .. (l + 1)) = Sum(w, 1 .. l) + v[l + 1]
  BY <1>7, SumAppended
<1>10. QED
  BY <1>2, <1>7, <1>8, <1>9

LEMMA PartsTail ==
    ASSUME NEW S, NEW o \in Seq(S), Measured(o), o # <<>>, NEW i
    PROVE  /\ Parts(o, i) = Share(Head(o), i) + Parts(Tail(o), i)
           /\ Share(Head(o), i) \in Nat /\ Parts(Tail(o), i) \in Nat
<1>1. PICK l \in Nat : l + 1 = Len(o)
  <2>1. Len(o) \in Nat /\ Len(o) # 0
    OBVIOUS
  <2>2. QED
    BY <2>1
<1>2. PICK q \in Seq(S) : q = Tail(o)
  <2>1. Tail(o) \in Seq(S)
    OBVIOUS
  <2>2. QED
    BY <2>1, Zenon
<1>3. /\ Len(q) = l /\ DOMAIN q = 1 .. l /\ DOMAIN o = 1 .. (l + 1) /\ Head(o) = o[1]
      /\ \A k \in 1 .. l : q[k] = o[k + 1]
  BY <1>1, <1>2
<1>4. PICK v : v = PartsIn(o, i)
  OBVIOUS
<1>5. PICK w : w = PartsIn(q, i)
  OBVIOUS
<1>6. 1 \in 1 .. (l + 1) /\ \A k \in 1 .. l : k + 1 \in 1 .. (l + 1)
  OBVIOUS
<1>7. \A k \in 1 .. (l + 1) : v[k] = Share(o[k], i) /\ v[k] \in Nat
  BY <1>1, <1>3, <1>4, PartsIsSum, SharesAreNaturals
<1>8. \A k \in 1 .. l : w[k] = Share(q[k], i)
  BY <1>3, <1>5, PartsIsSum
<1>9. v[1] \in Nat /\ v[1] = Share(Head(o), i) /\ \A k \in 1 .. l : v[k + 1] = w[k] /\ w[k] \in Nat
  BY <1>3, <1>6, <1>7, <1>8
<1>10. Sum(v, 1 .. (l + 1)) = v[1] + Sum(w, 1 .. l) /\ Sum(w, 1 .. l) \in Nat
  BY <1>9, SumShifted
<1>11. Parts(o, i) = Sum(v, 1 .. (l + 1)) /\ Parts(q, i) = Sum(w, 1 .. l)
  BY <1>3, <1>4, <1>5, PartsIsSum
<1>12. QED
  BY <1>2, <1>9, <1>10, <1>11

\* A queue without data of a message has no part of it ...
LEMMA PartsAbsent ==
    ASSUME NEW S, NEW o \in Seq(S), NEW i, \A c \in Data(o) : c.id = i => c.empty
    PROVE  Parts(o, i) = 0
<1>1. Len(o) \in Nat /\ DOMAIN o = 1 .. Len(o)
  OBVIOUS
<1>2. IsFiniteSet(DOMAIN o)
  BY <1>1, FS_Interval
<1>3. \A k \in DOMAIN o : Share(o[k], i) = 0
  <2>1. \A k \in DOMAIN o : o[k].kind = "data" => o[k] \in Data(o)
    BY DEF Data, Range
  <2>2. QED
    BY <2>1 DEF Share
<1>4. \A k \in DOMAIN o : PartsIn(o, i)[k] = 0
  BY <1>3, PartsIsSum
<1>5. Sum(PartsIn(o, i), DOMAIN o) = 0
  BY <1>2, <1>4, SumOfZeros
<1>6. QED
  BY <1>5, PartsIsSum

\* ... and one with such data has at least that.
LEMMA PartsPresent ==
    ASSUME NEW S, NEW o \in Seq(S), Measured(o), NEW c \in Data(o), ~c.empty, c.units \in Nat
    PROVE  Parts(o, c.id) >= c.units
<1>1. PICK i : i = c.id
  OBVIOUS
<1>2. PICK D : D = DOMAIN o
  OBVIOUS
<1>3. PICK w : w = PartsIn(o, i)
  OBVIOUS
<1>4. PICK k \in D : o[k] = c
  BY <1>2 DEF Data, Range
<1>5. IsFiniteSet(D) /\ \A j \in D : w[j] \in Nat
  BY <1>2, <1>3, SharesAreNaturals
<1>6. w[k] = c.units
  <2>1. Share(c, i) = c.units
    BY <1>1 DEF Share, Data
  <2>2. QED
    BY <1>2, <1>3, <1>4, <2>1, PartsIsSum
<1>7. IntegersOn(w, D)
  BY <1>5 DEF IntegersOn
<1>8. Sum(w, D) = w[k] + Sum(w, D \ {k})
  BY <1>5, <1>7, SumRemove
<1>9. Sum(w, D \ {k}) \in Nat
  <2>1. IsFiniteSet(D \ {k})
    BY <1>5, FS_Subset
  <2>2. QED
    BY <1>5, <2>1, SumOfNaturals
<1>10. PICK a \in Nat, b \in Nat : a = c.units /\ b = Sum(w, D \ {k})
  BY <1>9
<1>11. Sum(w, D) = a + b /\ a + b >= a
  BY <1>6, <1>8, <1>10
<1>12. QED
  BY <1>1, <1>2, <1>3, <1>10, <1>11, PartsIsSum
LEMMA QueuesMeasured ==
    ASSUME TypeOK, NEW p \in Peers
    PROVE  /\ out[p] \in Seq(Chunk) /\ Measured(out[p])
           /\ tasks[p] \in Seq(Task) /\ Measured(tasks[p])
           /\ partial_incoming_message_[p] \in Seq(DataChunk)
           /\ Measured(partial_incoming_message_[p])
<1>1. /\ \A e \in Task : e.kind = "data" => e.units \in Nat
      /\ \A e \in Chunk : e.kind = "data" => e.units \in Nat
      /\ \A e \in DataChunk : e.units \in Nat
  BY DEF Task, Chunk, DataChunk
<1>2. /\ out[p] \in Seq(Chunk) /\ tasks[p] \in Seq(Task)
      /\ partial_incoming_message_[p] \in Seq(DataChunk)
  BY DEF TypeOK
<1>3. /\ \A i \in 1 .. Len(out[p]) : out[p][i] \in Chunk
      /\ \A i \in 1 .. Len(tasks[p]) : tasks[p][i] \in Task
      /\ \A i \in 1 .. Len(partial_incoming_message_[p]) : partial_incoming_message_[p][i] \in DataChunk
  BY <1>2
<1>4. QED
  BY <1>1, <1>2, <1>3 DEF Measured

-----------------------------------------------------------------------------
(* Steps that leave the data in a queue alone.                               *)

SameData(u, t) ==
    /\ Data(u) = Data(t)
    /\ \A c, d \in Data(t) : Behind(u, c, d) => Behind(t, c, d)
    /\ \A i : Parts(u, i) = Parts(t, i)

LEMMA SameDataRefl ==
    ASSUME NEW t
    PROVE  SameData(t, t)
BY DEF SameData

LEMMA SameDataThen ==
    ASSUME NEW t, NEW u, NEW v, SameData(v, u), SameData(u, t)
    PROVE  SameData(v, t)
BY DEF SameData

LEMMA SameDataAppended ==
    ASSUME NEW S, NEW t \in Seq(S), Measured(t), NEW e \in S, e.kind # "data"
    PROVE  SameData(Append(t, e), t) /\ Measured(Append(t, e))
<1>1. /\ Range(Append(t, e)) = Range(t) \cup {e}
      /\ \A x, y : Behind(Append(t, e), x, y) <=> Behind(t, x, y) \/ (x \in Range(t) /\ y = e)
  BY RangeAppended
<1>2. Data(Append(t, e)) = Data(t)
  BY <1>1 DEF Data
<1>3. \A c, d \in Data(t) : Behind(Append(t, e), c, d) => Behind(t, c, d)
  <2>1. \A d \in Data(t) : d # e
    BY DEF Data
  <2>2. QED
    BY <1>1, <2>1
<1>4. ASSUME NEW i PROVE Parts(Append(t, e), i) = Parts(t, i)
  <2>1. Share(e, i) = 0
    BY DEF Share
  <2>2. PICK n \in Nat : n = Parts(t, i)
    BY PartsTyped
  <2>3. Parts(Append(t, e), i) = n + 0
    BY <2>1, <2>2, PartsAppend
  <2>4. QED
    BY <2>2, <2>3
<1>5. Measured(Append(t, e))
  <2>1. PICK n \in Nat : n = 0
    OBVIOUS
  <2>2. QED
    BY <2>1, HeldAppend
<1>6. QED
  BY <1>2, <1>3, <1>4, <1>5 DEF SameData

LEMMA SameDataTail ==
    ASSUME NEW S, NEW t \in Seq(S), Measured(t), t # <<>>, Head(t).kind # "data"
    PROVE  SameData(Tail(t), t)
<1>1. /\ Range(t) = Range(Tail(t)) \cup {Head(t)}
      /\ \A x, y : Behind(t, x, y)
                   <=> Behind(Tail(t), x, y) \/ (x = Head(t) /\ y \in Range(Tail(t)))
  BY RangeTail
<1>2. Data(Tail(t)) = Data(t)
  BY <1>1 DEF Data
<1>3. ASSUME NEW i PROVE Parts(Tail(t), i) = Parts(t, i)
  <2>1. Share(Head(t), i) = 0
    BY DEF Share
  <2>2. PICK n \in Nat : n = Parts(Tail(t), i)
    BY PartsTail
  <2>3. Parts(t, i) = 0 + n
    BY <2>1, <2>2, PartsTail
  <2>4. QED
    BY <2>2, <2>3
<1>4. QED
  BY <1>1, <1>2, <1>3 DEF SameData

\* usrsctp tells of room in its buffer.
LEMMA AcknowledgedData ==
    ASSUME NEW t \in Seq(Task), Measured(t), NEW rest
    PROVE  SameData(t \o Acknowledged(rest), t)
<1>1. PICK a \in Task, b \in Task :
          a = [kind |-> "threshold"] /\ b = [kind |-> "dry"] /\ a.kind # "data" /\ b.kind # "data"
  <2>1. PICK a, b : a = [kind |-> "threshold"] /\ b = [kind |-> "dry"]
    OBVIOUS
  <2>2. a \in Task /\ b \in Task /\ a.kind # "data" /\ b.kind # "data"
    BY <2>1 DEF Task
  <2>3. QED
    BY <2>1, <2>2
<1>2. PICK u \in Seq(Task) : u = Append(t, a)
  <2>1. Append(t, a) \in Seq(Task)
    OBVIOUS
  <2>2. QED
    BY <2>1, Zenon
<1>3. t \o <<a>> = u /\ t \o <<a, b>> = Append(u, b)
  BY <1>2
<1>4. SameData(u, t) /\ Measured(u)
  BY <1>1, <1>2, SameDataAppended
<1>5. SameData(Append(u, b), t)
  BY <1>1, <1>4, SameDataAppended, SameDataThen
<1>6. Acknowledged(rest) = <<a>> \/ Acknowledged(rest) = <<a, b>>
  BY <1>1 DEF Acknowledged
<1>7. QED
  BY <1>3, <1>4, <1>5, <1>6

LEMMA CallbackData ==
    ASSUME TypeOK, NEW p \in Peers, NEW kind, Callback(p, kind), kind # "data"
    PROVE  \A r \in Peers : SameData(tasks'[r], tasks[r])
<1>1. /\ tasks[p] # <<>> /\ Head(tasks[p]).kind = kind /\ tasks'[p] = Tail(tasks[p])
      /\ \A x \in Peers : x # p => tasks'[x] = tasks[x]
  BY CallbackEffect
<1>2. SameData(tasks'[p], tasks[p])
  BY <1>1, QueuesMeasured, SameDataTail
<1>3. QED
  BY <1>1, <1>2, SameDataRefl

LEMMA PostedData ==
    ASSUME TypeOK, NEW p \in Peers, NEW e \in Task, e.kind # "data", tasks' = Posted(p, <<e>>)
    PROVE  \A r \in Peers : SameData(tasks'[r], tasks[r])
<1>1. tasks'[p] = Append(tasks[p], e) /\ \A x \in Peers : x # p => tasks'[x] = tasks[x]
  BY ResetStepsEffect
<1>2. SameData(tasks'[p], tasks[p])
  BY <1>1, QueuesMeasured, SameDataAppended
<1>3. QED
  BY <1>1, <1>2, SameDataRefl

\* SendQueuedStreamResets puts a request behind the data.
LEMMA ResetsData ==
    ASSUME TypeOK, NEW p \in Peers, NEW status \in StatusMap, NEW partial, NEW o \in Seq(Chunk),
           Measured(o), SendQueuedStreamResets(p, status, partial, o)
    PROVE  SameData(out'[p], o) /\ \A r \in Peers : r # p => out'[r] = out[r]
<1>1. PICK R \in SUBSET Sids : AsksFor(p, status, partial, o, R)
  BY QueuedResets
<1>2. OnlyAt(p)
  BY QueuedResets
<1>3. SameData(out'[p], o)
  <2>1. CASE R = {}
    BY <1>1, <2>1, SameDataRefl DEF AsksFor
  <2>2. CASE R # {}
    <3>1. PICK c \in Chunk : c = [kind |-> "reset", sids |-> R]
      BY DEF Chunk
    <3>2. out'[p] = Append(o, c) /\ c.kind # "data"
      BY <1>1, <2>2, <3>1 DEF AsksFor
    <3>3. QED
      BY <3>2, SameDataAppended
  <2>3. QED
    BY <2>1, <2>2
<1>4. QED
  BY <1>2, <1>3 DEF OnlyAt

-----------------------------------------------------------------------------
(* One direction of the association.                                         *)

Pipe(p) ==
    /\ ArrivedWhole(p) /\ RestToCome(p) /\ InOrder(p) /\ BufferedLast(p)
    /\ LastToCome(p) /\ SumsToSize(p) /\ SizesLimited(p)

\* A step that leaves the chunks of p where they are.
LEMMA PipeCalm ==
    ASSUME NEW p \in Peers, NEW q, q = Peer(p), Pipe(p),
           log'[p] = log[p], handed'[q] = handed[q],
           partial_incoming_message_'[q] = partial_incoming_message_[q],
           partial_outgoing_message_'[p] = partial_outgoing_message_[p],
           SameData(out'[p], out[p]), SameData(tasks'[q], tasks[q])
    PROVE  Pipe(p)'
<1>1. /\ Arrived(p)' = Arrived(p) /\ \A i : Whole(p, i)' = Whole(p, i)
      /\ \A i : Kept(p, i)' = Kept(p, i) /\ Unsent(p, i)' = Unsent(p, i)
      /\ \A c : OfLog(p, c)' <=> OfLog(p, c)
  BY DEF Arrived, Whole, Kept, Unsent, OfLog
<1>2. InTransit(p)' = InTransit(p)
  BY DEF InTransit, SameData
<1>3. ArrivedWhole(p)' /\ SizesLimited(p)'
  BY <1>1 DEF Pipe, ArrivedWhole, SizesLimited
<1>4. RestToCome(p)'
  BY <1>1, <1>2 DEF Pipe, RestToCome
<1>5. InOrder(p)'
  BY DEF Pipe, InOrder, SameData, Precedes
<1>6. BufferedLast(p)'
  BY <1>1, <1>2 DEF Pipe, BufferedLast
<1>7. LastToCome(p)'
  BY <1>1, <1>2 DEF Pipe, LastToCome
<1>8. SumsToSize(p)'
  <2>1. \A i : Parts(out[p], i)' = Parts(out[p], i) /\ Parts(tasks[q], i)' = Parts(tasks[q], i)
    BY DEF SameData
  <2>2. QED
    BY <1>1, <2>1 DEF Pipe, SumsToSize
<1>9. QED
  BY <1>3, <1>4, <1>5, <1>6, <1>7, <1>8 DEF Pipe

\* The log of p has grown or is the same, and c is of its last message.
LogReaches(p, c) ==
    /\ Len(log'[p]) = c.id /\ DOMAIN log'[p] = 1 .. c.id
    /\ \A i \in DOMAIN log[p] : i \in DOMAIN log'[p] /\ log'[p][i] = log[p][i]
    /\ \A i \in DOMAIN log'[p] : i \in DOMAIN log[p] \/ i = c.id
    /\ log'[p][c.id].sid = c.sid
    /\ log'[p][c.id].size \in Nat /\ log'[p][c.id].size <= kSctpSendBufferSize
    /\ c.empty <=> log'[p][c.id].size = 0

\* What is left of the message of c is buffered.
RestBuffered(p, c, left) ==
    \/ partial_outgoing_message_'[p] = <<>> /\ c.eor /\ left = 0
    \/ \E x : /\ partial_outgoing_message_'[p] = <<x>> /\ ~c.eor
              /\ x.id = c.id /\ x.sid = c.sid /\ x.left = left

\* Another chunk of p is sent.
LEMMA PipeSent ==
    ASSUME TypeOK, NEW p \in Peers, NEW q \in Peers, q = Peer(p), Pipe(p),
           handed'[q] = handed[q], tasks'[q] = tasks[q],
           partial_incoming_message_'[q] = partial_incoming_message_[q],
           NEW c \in DataChunk, c.units > 0, SameData(out'[p], Append(out[p], c)),
           LogReaches(p, c), Arrived(p) < c.id, c.empty => c.eor,
           \A d \in InTransit(p) : d.id = c.id => ~d.eor,
           \A m \in Range(partial_outgoing_message_[p]) : m.id = c.id,
           NEW left \in Nat, RestBuffered(p, c, left),
           Kept(p, c.id) + Parts(tasks[q], c.id) + Parts(out[p], c.id) + Share(c, c.id) + left
               = log'[p][c.id].size
    PROVE  Pipe(p)'
<1>1. /\ out[p] \in Seq(Chunk) /\ Measured(out[p]) /\ c \in Chunk /\ c.kind = "data"
      /\ c.id \in Nat /\ c.units \in Nat
  BY QueuesMeasured DEF Chunk, DataChunk
<1>2. /\ Range(Append(out[p], c)) = Range(out[p]) \cup {c}
      /\ \A x, y : Behind(Append(out[p], c), x, y) <=> Behind(out[p], x, y) \/ (x \in Range(out[p]) /\ y = c)
  BY <1>1, RangeAppended
<1>3. Data(out'[p]) = Data(out[p]) \cup {c} /\ Data(Append(out[p], c)) = Data(out[p]) \cup {c}
  BY <1>1, <1>2 DEF SameData, Data
<1>4. InTransit(p)' = InTransit(p) \cup {c}
  BY <1>3 DEF InTransit
<1>5. /\ Arrived(p)' = Arrived(p) /\ \A i : Kept(p, i)' = Kept(p, i)
      /\ Arrived(p) \in Nat
  <2>1. handed[q] \in Seq([sid : Sids, size : Nat, ids : SUBSET Nat])
    BY DEF TypeOK
  <2>2. Len(handed[q]) \in Nat
    BY <2>1
  <2>3. QED
    BY <2>2 DEF Arrived, Kept
<1>6. /\ \A i \in DOMAIN log[p] : i \in DOMAIN log'[p] /\ Whole(p, i)' = Whole(p, i)
      /\ \A d : OfLog(p, d) => OfLog(p, d)'
  BY DEF Whole, OfLog, LogReaches
<1>7. PICK l \in Nat : l = Len(log[p]) /\ DOMAIN log[p] = 1 .. l
  <2>1. log[p] \in Seq([sid : Sids, size : Nat, opening : Nat])
    BY DEF TypeOK
  <2>2. Len(log[p]) \in Nat /\ DOMAIN log[p] = 1 .. Len(log[p])
    BY <2>1
  <2>3. QED
    BY <2>2
<1>8. ArrivedWhole(p)'
  <2>1. Arrived(p) <= l /\ \A i \in 1 .. Arrived(p) : handed[q][i] = Whole(p, i)
    BY <1>7 DEF Pipe, ArrivedWhole
  <2>2. \A i \in 1 .. Arrived(p) : i \in DOMAIN log[p]
    BY <1>5, <1>7, <2>1
  <2>3. \A i \in 1 .. Arrived(p) : handed[q][i] = Whole(p, i)'
    BY <1>6, <2>1, <2>2
  <2>4. Arrived(p) <= Len(log'[p])
    BY <1>1, <1>5 DEF LogReaches
  <2>5. QED
    BY <1>5, <2>3, <2>4 DEF ArrivedWhole
<1>9. /\ \A d \in InTransit(p) : OfLog(p, d) /\ OfLog(p, d)' /\ d.id \in DOMAIN log[p]
      /\ OfLog(p, c)'
  <2>1. \A d \in InTransit(p) : OfLog(p, d)
    BY DEF Pipe, RestToCome
  <2>2. c.id \in 1 .. c.id
    BY <1>1, <1>5
  <2>3. OfLog(p, c)'
    BY <2>2 DEF OfLog, LogReaches
  <2>4. QED
    BY <1>6, <2>1, <2>3 DEF OfLog
<1>10. RestToCome(p)'
  <2>1. ASSUME NEW d \in InTransit(p)
        PROVE  /\ OfLog(p, d)' /\ d.id > Arrived(p) /\ d.units > 0
               /\ d.empty <=> log'[p][d.id].size = 0
               /\ d.empty => d.eor
    <3>1. log'[p][d.id] = log[p][d.id]
      BY <1>9 DEF LogReaches
    <3>2. QED
      BY <1>9, <3>1 DEF Pipe, RestToCome
  <2>2. c.id > Arrived(p) /\ c.units > 0 /\ (c.empty <=> log'[p][c.id].size = 0)
    BY <1>1, <1>5 DEF LogReaches
  <2>3. \A d \in Range(partial_incoming_message_[q]) : OfLog(p, d)' /\ d.id = Arrived(p) + 1
    BY <1>6 DEF Pipe, RestToCome
  <2>4. QED
    BY <1>4, <1>5, <1>9, <2>1, <2>2, <2>3 DEF RestToCome
<1>11. \A d \in InTransit(p) : Precedes(d, c)
  <2>1. ASSUME NEW d \in InTransit(p) PROVE d.id \in 1 .. c.id
    BY <1>9 DEF LogReaches
  <2>2. \A d \in InTransit(p) : d.id = c.id \/ d.id < c.id
    BY <1>1, <2>1
  <2>3. QED
    BY <2>2 DEF Precedes
<1>12. InOrder(p)'
  <2>1. \A x, y \in Data(tasks[q]) : Behind(tasks[q], x, y) => Precedes(x, y)
    BY DEF Pipe, InOrder
  <2>2. ASSUME NEW x \in Data(out'[p]), NEW y \in Data(out'[p]), Behind(out'[p], x, y)
        PROVE  Precedes(x, y)
    <3>1. Behind(Append(out[p], c), x, y)
      BY <1>3, <2>2 DEF SameData
    <3>2. CASE Behind(out[p], x, y)
      <4>1. x \in Data(out[p]) /\ y \in Data(out[p])
        <5>1. x \in Range(out[p]) /\ y \in Range(out[p])
          BY <3>2 DEF Behind, Range
        <5>2. QED
          BY <2>2, <5>1 DEF Data
      <4>2. QED
        BY <3>2, <4>1 DEF Pipe, InOrder
    <3>3. CASE x \in Range(out[p]) /\ y = c
      <4>1. x \in InTransit(p)
        BY <2>2, <3>3 DEF InTransit, Data
      <4>2. QED
        BY <1>11, <3>3, <4>1
    <3>4. QED
      BY <1>2, <3>1, <3>2, <3>3
  <2>3. ASSUME NEW x \in Data(tasks[q]), NEW y \in Data(out'[p]) PROVE Precedes(x, y)
    <3>1. CASE y \in Data(out[p])
      BY <3>1 DEF Pipe, InOrder
    <3>2. CASE y = c
      BY <1>11, <3>2 DEF InTransit
    <3>3. QED
      BY <1>3, <3>1, <3>2
  <2>4. QED
    BY <2>1, <2>2, <2>3 DEF InOrder, Precedes
<1>13. BufferedLast(p)'
  <2>1. ASSUME NEW x \in Range(partial_outgoing_message_'[p])
        PROVE  x.id = c.id /\ x.sid = c.sid /\ ~c.eor
    BY DEF RestBuffered, Range
  <2>2. ASSUME NEW x \in Range(partial_outgoing_message_'[p])
        PROVE  /\ OfLog(p, x)' /\ x.id = Len(log'[p]) /\ x.id > Arrived(p)
               /\ \A d \in InTransit(p)' : d.id = x.id => ~d.eor
    <3>1. OfLog(p, x)'
      BY <1>9, <2>1 DEF OfLog
    <3>2. x.id = Len(log'[p]) /\ x.id > Arrived(p)
      BY <1>1, <1>5, <2>1 DEF LogReaches
    <3>3. \A d \in InTransit(p)' : d.id = x.id => ~d.eor
      BY <1>4, <2>1
    <3>4. QED
      BY <3>1, <3>2, <3>3
  <2>3. QED
    BY <1>5, <2>2 DEF BufferedLast
<1>14. \A i \in (Arrived(p) + 1) .. c.id : i # c.id => i \in (Arrived(p) + 1) .. l /\ i \in DOMAIN log[p]
  <2>1. ASSUME NEW i \in (Arrived(p) + 1) .. c.id, i # c.id PROVE i \in (Arrived(p) + 1) .. l /\ i \in DOMAIN log[p]
    <3>1. i \in 1 .. c.id
      BY <1>5, <2>1
    <3>2. i \in DOMAIN log[p]
      BY <2>1, <3>1 DEF LogReaches
    <3>3. QED
      BY <1>5, <1>7, <2>1, <3>2
  <2>2. QED
    BY <2>1
<1>15. LastToCome(p)'
  <2>1. SUFFICES ASSUME NEW i \in (Arrived(p) + 1) .. c.id
        PROVE  \/ \E m \in Range(partial_outgoing_message_'[p]) : m.id = i
               \/ \E d \in InTransit(p)' : d.id = i /\ d.eor
    BY <1>5 DEF LastToCome, LogReaches
  <2>2. CASE i = c.id
    <3>1. CASE c.eor
      BY <1>4, <2>2, <3>1
    <3>2. CASE ~c.eor
      <4>1. PICK x : partial_outgoing_message_'[p] = <<x>> /\ x.id = c.id
        BY <3>2 DEF RestBuffered
      <4>2. x \in Range(partial_outgoing_message_'[p])
        BY <4>1 DEF Range
      <4>3. QED
        BY <2>2, <4>1, <4>2
    <3>3. QED
      BY <3>1, <3>2
  <2>3. CASE i # c.id
    <3>1. i \in (Arrived(p) + 1) .. Len(log[p])
      BY <1>7, <1>14, <2>1, <2>3
    <3>2. \E d \in InTransit(p) : d.id = i /\ d.eor
      BY <2>3, <3>1 DEF Pipe, LastToCome
    <3>3. QED
      BY <1>4, <3>2
  <2>4. QED
    BY <2>2, <2>3
<1>16. \A i : Parts(out'[p], i) = Parts(out[p], i) + Share(c, i) /\ Parts(out[p], i) \in Nat
  <2>1. SUFFICES ASSUME NEW i PROVE Parts(out'[p], i) = Parts(out[p], i) + Share(c, i) /\ Parts(out[p], i) \in Nat
    OBVIOUS
  <2>2. Share(c, i) \in Nat
    BY <1>1 DEF Share
  <2>3. Parts(out'[p], i) = Parts(Append(out[p], c), i)
    BY DEF SameData
  <2>4. QED
    BY <1>1, <2>2, <2>3, PartsAppend, PartsTyped
<1>17. /\ Unsent(p, c.id)' = left
       /\ \A i : i # c.id => Unsent(p, i)' = 0 /\ Unsent(p, i) = 0
  <2>1. CASE partial_outgoing_message_'[p] = <<>> /\ left = 0
    BY <2>1 DEF Unsent, Range
  <2>2. ASSUME NEW x, partial_outgoing_message_'[p] = <<x>>, x.id = c.id, x.left = left
        PROVE  Unsent(p, c.id)' = left /\ \A i : i # c.id => Unsent(p, i)' = 0
    <3>1. Range(partial_outgoing_message_'[p]) = {x} /\ partial_outgoing_message_'[p][1] = x
      BY <2>2 DEF Range
    <3>2. QED
      BY <2>2, <3>1 DEF Unsent
  <2>3. \A i : i # c.id => Unsent(p, i) = 0
    BY DEF Unsent
  <2>4. QED
    BY <2>1, <2>2, <2>3 DEF RestBuffered
<1>18. SumsToSize(p)'
  <2>1. SUFFICES ASSUME NEW i \in (Arrived(p) + 1) .. c.id
        PROVE  Kept(p, i) + Parts(tasks[q], i) + Parts(out'[p], i) + Unsent(p, i)' = log'[p][i].size
    BY <1>5 DEF SumsToSize, LogReaches
  <2>2. PICK k \in Nat, t \in Nat, o \in Nat :
            k = Kept(p, i) /\ t = Parts(tasks[q], i) /\ o = Parts(out[p], i)
    <3>1. Held(partial_incoming_message_[q]) \in Nat
      BY QueuesMeasured, HeldTyped
    <3>2. Kept(p, i) \in Nat
      BY <3>1 DEF Kept
    <3>3. Parts(tasks[q], i) \in Nat
      BY QueuesMeasured, PartsTyped
    <3>4. QED
      BY <1>16, <3>2, <3>3
  <2>3. CASE i = c.id
    <3>1. PICK n \in Nat : n = Share(c, i)
      BY <1>1 DEF Share
    <3>2. k + t + o + n + left = log'[p][i].size
      BY <2>2, <2>3, <3>1
    <3>3. Parts(out'[p], i) = o + n /\ Unsent(p, i)' = left
      BY <1>16, <1>17, <2>2, <2>3, <3>1
    <3>4. k + t + (o + n) + left = k + t + o + n + left
      OBVIOUS
    <3>5. QED
      BY <2>2, <3>2, <3>3, <3>4
  <2>4. CASE i # c.id
    <3>1. i \in (Arrived(p) + 1) .. Len(log[p]) /\ i \in DOMAIN log[p]
      BY <1>7, <1>14, <2>1, <2>4
    <3>2. k + t + o + 0 = log[p][i].size
      BY <1>17, <2>2, <2>4, <3>1 DEF Pipe, SumsToSize
    <3>3. log'[p][i] = log[p][i]
      BY <3>1 DEF LogReaches
    <3>4. Parts(out'[p], i) = o + 0
      BY <1>16, <2>2, <2>4 DEF Share
    <3>5. o + 0 = o
      OBVIOUS
    <3>6. QED
      BY <1>17, <2>2, <2>4, <3>2, <3>3, <3>4, <3>5
  <2>5. QED
    BY <2>3, <2>4
<1>19. SizesLimited(p)'
  BY DEF SizesLimited, LogReaches, Pipe
<1>20. QED
  BY <1>8, <1>10, <1>12, <1>13, <1>15, <1>18, <1>19 DEF Pipe

\* A chunk of a message, and what is left: together they are the message.
LEMMA ChunkAndRest ==
    ASSUME Typed, NEW p \in Peers, NEW m, m.left \in Nat, m.sid \in Sids, m.id \in Nat,
           Taken(p, m) # 0
    PROVE  \E c \in DataChunk :
               /\ SentOn(p, m) = Append(out[p], c) /\ c.sid = m.sid /\ c.id = m.id
               /\ c.units > 0 /\ (c.empty <=> m.left = 0) /\ (c.eor <=> Left(p, m) = 0)
               /\ Share(c, c.id) \in Nat /\ Left(p, m) \in Nat
               /\ Share(c, c.id) + Left(p, m) = m.left
<1>1. PICK c \in DataChunk :
          /\ SentOn(p, m) = Append(out[p], c) /\ c.sid = m.sid /\ c.id = m.id /\ c.kind = "data"
          /\ c.units = Taken(p, m) /\ (c.empty <=> m.left = 0)
          /\ c.eor <=> Taken(p, m) = DataLength(m)
  BY SentOnIs
<1>2. PICK t \in Nat, d \in Nat : t = Taken(p, m) /\ d = DataLength(m) /\ t <= d /\ t > 0
  <2>1. Taken(p, m) \in 0 .. DataLength(m) /\ DataLength(m) \in Nat
    BY TakenFits DEF Typed
  <2>2. QED
    BY <2>1
<1>3. PICK n \in Nat : n = m.left
  OBVIOUS
<1>4. CASE n = 0
  <2>1. d = 1 /\ Left(p, m) = 0
    BY <1>2, <1>3, <1>4 DEF DataLength, Left
  <2>2. t = d
    BY <1>2, <2>1
  <2>3. Share(c, c.id) = 0
    BY <1>1, <1>3, <1>4 DEF Share
  <2>4. QED
    BY <1>1, <1>2, <1>3, <1>4, <2>1, <2>2, <2>3
<1>5. CASE n # 0
  <2>1. d = n /\ Left(p, m) = n - t
    BY <1>2, <1>3, <1>5 DEF DataLength, Left
  <2>2. Share(c, c.id) = t
    BY <1>1, <1>2, <1>3, <1>5 DEF Share
  <2>3. n - t \in Nat /\ t + (n - t) = n /\ (t = d <=> n - t = 0)
    BY <1>2, <2>1
  <2>4. QED
    BY <1>1, <1>2, <1>3, <2>1, <2>2, <2>3
<1>6. QED
  BY <1>4, <1>5

LEMMA SendDataPipe ==
    ASSUME Typed, PipeInv, NEW p \in Peers, NEW s \in Sids, NEW size \in Nat,
           SendData(p, s, size)
    PROVE  \A r \in Peers : Pipe(r)'
<1>1. PICK q \in Peers : q = Peer(p) /\ p = Peer(q) /\ q # p /\ \A r \in Peers : r = p \/ r = q
  BY PeerFacts
<1>2. TypeOK /\ Pipe(p) /\ Pipe(q)
  BY DEF PipeInv, Pipe, Typed
<1>3. PICK L \in Seq([sid : Sids, size : Nat, opening : Nat]) : L = log[p]
  BY <1>2 DEF TypeOK
<1>4. PICK n \in Nat : n = Len(L) /\ DOMAIN L = 1 .. n
  BY <1>3
<1>5. PICK m : m = [sid |-> s, id |-> n + 1, left |-> size]
  OBVIOUS
<1>6. m.sid = s /\ m.id = n + 1 /\ m.id \in Nat /\ m.left = size
  BY <1>5
<1>7. /\ out' = [out EXCEPT ![p] = SentOn(p, m)] /\ partial_outgoing_message_[p] = <<>>
      /\ partial_outgoing_message_' = [partial_outgoing_message_ EXCEPT ![p] =
             IF Left(p, m) \in 1..(size - 1) THEN <<[m EXCEPT !.left = Left(p, m)]>> ELSE <<>>]
      /\ log' = IF Taken(p, m) = 0 THEN log
                ELSE [log EXCEPT ![p] =
                          Append(@, [sid |-> s, size |-> size, opening |-> opens[p][s]])]
      /\ UNCHANGED <<partial_incoming_message_, tasks, handed>>
  BY <1>3, <1>4, <1>5 DEF SendData
<1>8. /\ out'[p] = SentOn(p, m) /\ out'[q] = out[q] /\ log'[q] = log[q]
      /\ partial_outgoing_message_'[q] = partial_outgoing_message_[q]
      /\ partial_outgoing_message_'[p] =
             IF Left(p, m) \in 1..(size - 1) THEN <<[m EXCEPT !.left = Left(p, m)]>> ELSE <<>>
  BY <1>1, <1>2, <1>7 DEF TypeOK
<1>9. Pipe(q)'
  BY <1>1, <1>2, <1>7, <1>8, SameDataRefl, PipeCalm
<1>10. CASE Taken(p, m) = 0
  <2>1. out'[p] = out[p] /\ log'[p] = log[p]
    BY <1>7, <1>8, <1>10 DEF SentOn
  <2>2. partial_outgoing_message_'[p] = <<>>
    <3>1. Left(p, m) \notin 1 .. (size - 1)
      BY <1>6, <1>10 DEF Left
    <3>2. QED
      BY <1>8, <3>1
  <2>3. Pipe(p)'
    BY <1>1, <1>2, <1>7, <2>1, <2>2, SameDataRefl, PipeCalm
  <2>4. QED
    BY <1>1, <1>9, <2>3
<1>11. CASE Taken(p, m) # 0
  <2>1. PICK c \in DataChunk :
            /\ SentOn(p, m) = Append(out[p], c) /\ c.sid = m.sid /\ c.id = m.id
            /\ c.units > 0 /\ (c.empty <=> m.left = 0) /\ (c.eor <=> Left(p, m) = 0)
            /\ Share(c, c.id) \in Nat /\ Left(p, m) \in Nat
            /\ Share(c, c.id) + Left(p, m) = m.left
    BY <1>6, <1>11, ChunkAndRest
  <2>2. PICK left \in Nat, share \in Nat :
            left = Left(p, m) /\ share = Share(c, c.id) /\ share + left = size
    BY <1>6, <2>1
  <2>3. SameData(out'[p], Append(out[p], c))
    BY <1>8, <2>1, SameDataRefl
  <2>4. size <= kSctpSendBufferSize
    <3>1. Sendable(p, m)
      BY <1>11 DEF Taken
    <3>2. PICK x \in Nat : x = max_message_size_[p] /\ x <= kSctpSendBufferSize
      BY SctpConstants DEF PipeInv
    <3>3. size <= x
      BY <1>6, <3>1, <3>2 DEF Sendable
    <3>4. PICK k \in Nat : k = kSctpSendBufferSize
      BY SctpConstants
    <3>5. QED
      BY <3>2, <3>3, <3>4
  <2>5. PICK e : e = [sid |-> s, size |-> size, opening |-> opens[p][s]]
    OBVIOUS
  <2>6. log'[p] = Append(L, e) /\ e \in [sid : Sids, size : Nat, opening : Nat]
    BY <1>2, <1>3, <1>7, <1>11, <2>5 DEF TypeOK
  <2>7. LogReaches(p, c)
    <3>1. /\ Len(log'[p]) = n + 1 /\ DOMAIN log'[p] = 1 .. (n + 1) /\ log'[p][n + 1] = e
          /\ \A i \in 1 .. n : log'[p][i] = log[p][i]
      BY <1>3, <1>4, <2>6
    <3>2. DOMAIN log[p] = 1 .. n /\ c.id = n + 1
      BY <1>3, <1>4, <1>6, <2>1
    <3>3. \A i \in 1 .. (n + 1) : i \in 1 .. n \/ i = n + 1
      OBVIOUS
    <3>4. 1 .. n \subseteq 1 .. (n + 1)
      OBVIOUS
    <3>5. e.sid = c.sid /\ e.size = size
      BY <1>6, <2>1, <2>5
    <3>6. c.empty <=> size = 0
      BY <1>6, <2>1
    <3>7. QED
      BY <2>4, <3>1, <3>2, <3>3, <3>4, <3>5, <3>6 DEF LogReaches
  <2>8. Arrived(p) \in Nat /\ Arrived(p) <= n
    <3>1. handed[q] \in Seq([sid : Sids, size : Nat, ids : SUBSET Nat])
      BY <1>2 DEF TypeOK
    <3>2. Len(handed[q]) \in Nat
      BY <3>1
    <3>3. QED
      BY <1>1, <1>2, <1>3, <1>4, <3>2 DEF Pipe, ArrivedWhole, Arrived
  <2>9. Arrived(p) < c.id
    BY <1>6, <2>1, <2>8
  <2>10. \A d \in InTransit(p) : d.id # c.id
    <3>1. \A d \in InTransit(p) : d.id \in 1 .. n
      BY <1>2, <1>3, <1>4 DEF Pipe, RestToCome, OfLog
    <3>2. QED
      BY <1>6, <2>1, <3>1
  <2>11. Parts(out[p], c.id) = 0 /\ Parts(tasks[q], c.id) = 0
    <3>1. /\ \A d \in Data(out[p]) : d.id # c.id
          /\ \A d \in Data(tasks[q]) : d.id # c.id
      BY <1>1, <2>10 DEF InTransit
    <3>2. out[p] \in Seq(Chunk) /\ tasks[q] \in Seq(Task)
      BY <1>2, QueuesMeasured
    <3>3. QED
      BY <3>1, <3>2, PartsAbsent
  <2>12. Kept(p, c.id) = 0
    <3>1. CASE c.id # Arrived(p) + 1
      BY <3>1 DEF Kept
    <3>2. CASE c.id = Arrived(p) + 1
      <4>1. PICK i \in Seq(DataChunk) : i = partial_incoming_message_[q]
        BY <1>2, QueuesMeasured
      <4>2. \A d \in Range(i) : FALSE
        <5>1. \A d \in Range(i) : d.id \in 1 .. n /\ d.id = Arrived(p) + 1
          BY <1>1, <1>2, <1>3, <1>4, <4>1 DEF Pipe, RestToCome, OfLog
        <5>2. c.id \notin 1 .. n
          BY <1>6, <2>1
        <5>3. QED
          BY <3>2, <5>1, <5>2
      <4>3. i = <<>>
        <5>1. DOMAIN i = {}
          BY <4>2 DEF Range
        <5>2. QED
          BY <5>1
      <4>4. QED
        BY <1>1, <3>2, <4>1, <4>3, EmptyHeld DEF Kept
    <3>3. QED
      BY <3>1, <3>2
  <2>13. Kept(p, c.id) + Parts(tasks[q], c.id) + Parts(out[p], c.id) + Share(c, c.id) + left
             = log'[p][c.id].size
    <3>1. log'[p][c.id].size = size
      <4>1. log'[p][n + 1] = e
        BY <1>3, <1>4, <2>6
      <4>2. QED
        BY <1>6, <2>1, <2>5, <4>1
    <3>2. 0 + 0 + 0 + share + left = size
      BY <2>2
    <3>3. QED
      BY <2>2, <2>11, <2>12, <3>1, <3>2
  <2>14. RestBuffered(p, c, left)
    <3>1. CASE left = 0
      <4>1. Left(p, m) \notin 1 .. (size - 1)
        BY <2>2, <3>1
      <4>2. QED
        BY <1>8, <2>1, <2>2, <3>1, <4>1 DEF RestBuffered
    <3>2. CASE left # 0
      <4>1. size > 0
        BY <2>2, <3>2
      <4>2. Left(p, m) < size
        <5>1. m.left > 0 /\ Taken(p, m) > 0
          <6>1. Taken(p, m) \in 0 .. DataLength(m) /\ DataLength(m) \in Nat
            BY <1>6, TakenFits DEF Typed
          <6>2. QED
            BY <1>6, <1>11, <4>1, <6>1
        <5>2. QED
          BY <1>6, <5>1, TakenFits DEF Typed
      <4>3. Left(p, m) \in 1 .. (size - 1)
        BY <2>2, <3>2, <4>2
      <4>4. PICK x : x = [m EXCEPT !.left = left]
        OBVIOUS
      <4>5. x.id = c.id /\ x.sid = c.sid /\ x.left = left
        BY <1>5, <1>6, <2>1, <4>4
      <4>6. partial_outgoing_message_'[p] = <<x>>
        BY <1>8, <2>2, <4>3, <4>4
      <4>7. QED
        BY <2>1, <2>2, <3>2, <4>5, <4>6 DEF RestBuffered
    <3>3. QED
      BY <3>1, <3>2
  <2>15. c.empty => c.eor
    <3>1. size = 0 => left = 0
      BY <2>2
    <3>2. QED
      BY <1>6, <2>1, <2>2, <3>1
  <2>16. \A x \in Range(partial_outgoing_message_[p]) : x.id = c.id
    BY <1>7 DEF Range
  <2>17. Pipe(p)'
    BY <1>1, <1>2, <1>7, <2>1, <2>3, <2>7, <2>9, <2>10, <2>13, <2>14, <2>15, <2>16, PipeSent
  <2>18. QED
    BY <1>1, <1>9, <2>17
<1>12. QED
  BY <1>10, <1>11

\* The rest of the buffered message, or part of it, is sent.
LEMMA ThresholdPipe ==
    ASSUME Typed, PipeInv, NEW p \in Peers, OnSendThresholdCallback(p)
    PROVE  \A r \in Peers : Pipe(r)'
<1>1. PICK q \in Peers : q = Peer(p) /\ p = Peer(q) /\ q # p /\ \A r \in Peers : r = p \/ r = q
  BY PeerFacts
<1>2. TypeOK /\ Pipe(p) /\ Pipe(q)
  BY DEF PipeInv, Pipe, Typed
<1>3. UNCHANGED <<log, handed, partial_incoming_message_>> /\ Callback(p, "threshold")
  BY ThresholdCases DEF history
<1>4. SameData(tasks'[p], tasks[p]) /\ tasks'[q] = tasks[q]
  BY <1>1, <1>2, <1>3, CallbackData, CallbackEffect
<1>5. CASE UNCHANGED <<partial_outgoing_message_, stream_status_by_sid_, out, resetting>>
  <2>1. Pipe(p)'
    BY <1>1, <1>2, <1>3, <1>4, <1>5, SameDataRefl, PipeCalm
  <2>2. Pipe(q)'
    BY <1>1, <1>2, <1>3, <1>4, <1>5, SameDataRefl, PipeCalm
  <2>3. QED
    BY <1>1, <2>1, <2>2
<1>6. ASSUME NEW m \in Range(partial_outgoing_message_[p]),
             PartSent(p, m) \/ RestSent(p, m) \/ RestSentThenResets(p, m)
      PROVE  \A r \in Peers : Pipe(r)'
  <2>1. /\ m.left \in Nat /\ m.left > 0 /\ m.sid \in Sids /\ m.id \in Nat /\ m \in Message
        /\ DOMAIN partial_outgoing_message_[p] = {1} /\ m = partial_outgoing_message_[p][1]
    BY <1>6, BufferedMessage DEF Message
  <2>2. Range(partial_outgoing_message_[p]) = {m} /\ partial_outgoing_message_[p] = <<m>>
    <3>1. PICK b \in Seq(Message) : b = partial_outgoing_message_[p]
      BY <1>2 DEF TypeOK
    <3>2. Len(b) = 1 /\ b[1] = m
      <4>1. PICK n \in Nat : n = Len(b) /\ DOMAIN b = 1 .. n
        BY <3>1
      <4>2. 1 .. n = {1} /\ b[1] = m
        BY <2>1, <3>1, <4>1
      <4>3. 1 \in 1 .. n /\ 2 \notin 1 .. n
        BY <4>2
      <4>4. n = 1
        BY <4>3
      <4>5. QED
        BY <4>1, <4>2, <4>4
    <3>3. b = <<m>>
      BY <3>2
    <3>4. QED
      BY <2>1, <3>1, <3>3 DEF Range
  <2>3. /\ OfLog(p, m) /\ m.id = Len(log[p]) /\ m.id > Arrived(p)
        /\ \A c \in InTransit(p) : c.id = m.id => ~c.eor
    BY <1>2, <1>6 DEF Pipe, BufferedLast
  <2>4. PICK o \in Seq(Chunk) : o = SentOn(p, m)
    BY <2>1, TakenFits DEF Typed
  <2>5. PICK left \in Nat : left = Left(p, m)
    BY <2>1, TakenFits DEF Typed
  <2>6. PICK x : x = [m EXCEPT !.left = left]
    OBVIOUS
  <2>7. x.id = m.id /\ x.sid = m.sid /\ x.left = left /\ (left = m.left => x = m)
    BY <2>1, <2>6 DEF Message
  <2>8. /\ partial_outgoing_message_'[q] = partial_outgoing_message_[q]
        /\ left # 0 => partial_outgoing_message_'[p] = <<x>>
        /\ left = 0 => partial_outgoing_message_'[p] = <<>>
    <3>1. PICK b : /\ partial_outgoing_message_' = [partial_outgoing_message_ EXCEPT ![p] = b]
                   /\ left # 0 => b = <<x>>
                   /\ left = 0 => b = <<>>
      <4>1. CASE PartSent(p, m)
        <5>1. left # 0
          BY <2>5, <4>1 DEF PartSent
        <5>2. QED
          BY <2>5, <2>6, <4>1, <5>1, Zenon DEF PartSent
      <4>2. CASE RestSent(p, m) \/ RestSentThenResets(p, m)
        BY <2>5, <4>2, Zenon DEF RestSent, RestSentThenResets
      <4>3. QED
        BY <1>6, <4>1, <4>2
    <3>2. QED
      BY <1>1, <1>2, <3>1 DEF TypeOK
  <2>9. Measured(o)
    <3>1. \A e \in Chunk : e.kind = "data" => e.units \in Nat
      BY DEF Chunk, DataChunk
    <3>2. \A i \in 1 .. Len(o) : o[i] \in Chunk
      BY <2>4
    <3>3. QED
      BY <3>1, <3>2 DEF Measured
  <2>10. out'[q] = out[q] /\ SameData(out'[p], o)
    <3>1. CASE PartSent(p, m) \/ RestSent(p, m)
      <4>1. out' = [out EXCEPT ![p] = o]
        BY <2>4, <3>1 DEF PartSent, RestSent
      <4>2. out'[p] = o /\ out'[q] = out[q]
        BY <1>1, <1>2, <4>1 DEF TypeOK
      <4>3. QED
        BY <4>2, SameDataRefl
    <3>2. CASE RestSentThenResets(p, m)
      <4>1. PICK status \in StatusMap : status = stream_status_by_sid_[p]
        BY <1>2, MapsTyped
      <4>2. SendQueuedStreamResets(p, status, <<>>, o)
        BY <2>4, <3>2, <4>1 DEF RestSentThenResets
      <4>3. QED
        BY <1>1, <1>2, <2>9, <4>2, ResetsData
    <3>3. QED
      BY <1>6, <3>1, <3>2
  <2>11. Pipe(q)'
    BY <1>1, <1>2, <1>3, <1>4, <2>8, <2>10, SameDataRefl, PipeCalm
  <2>12. CASE Taken(p, m) = 0
    <3>1. o = out[p] /\ left = m.left
      BY <2>1, <2>4, <2>5, <2>12 DEF SentOn, Left
    <3>2. partial_outgoing_message_'[p] = partial_outgoing_message_[p]
      BY <2>1, <2>2, <2>7, <2>8, <3>1
    <3>3. Pipe(p)'
      BY <1>1, <1>2, <1>3, <1>4, <2>10, <3>1, <3>2, SameDataRefl, PipeCalm
    <3>4. QED
      BY <1>1, <2>11, <3>3
  <2>13. CASE Taken(p, m) # 0
    <3>1. PICK c \in DataChunk :
              /\ SentOn(p, m) = Append(out[p], c) /\ c.sid = m.sid /\ c.id = m.id
              /\ c.units > 0 /\ (c.empty <=> m.left = 0) /\ (c.eor <=> left = 0)
              /\ Share(c, c.id) \in Nat /\ Share(c, c.id) + left = m.left
      BY <2>1, <2>5, <2>13, ChunkAndRest
    <3>2. PICK L \in Seq([sid : Sids, size : Nat, opening : Nat]) : L = log[p]
      BY <1>2 DEF TypeOK
    <3>3. PICK n \in Nat : n = Len(L) /\ DOMAIN L = 1 .. n /\ c.id = n
      BY <2>3, <3>1, <3>2
    <3>4. n \in 1 .. n /\ L[n].size \in Nat /\ L[n].sid = c.sid /\ L[n].size <= kSctpSendBufferSize
      <4>1. n \in DOMAIN L /\ L[n].sid = c.sid
        BY <2>3, <3>1, <3>2, <3>3 DEF OfLog
      <4>2. L[n] \in [sid : Sids, size : Nat, opening : Nat]
        <5>1. PICK H : L \in Seq(H) /\ H = [sid : Sids, size : Nat, opening : Nat]
          BY <3>2, Zenon
        <5>2. L \in Seq(H) /\ n \in 1 .. Len(L)
          BY <3>3, <4>1, <5>1, Zenon
        <5>3. L[n] \in H
          BY <5>2
        <5>4. QED
          BY <5>1, <5>3
      <4>3. L[n].size <= kSctpSendBufferSize
        BY <1>2, <3>2, <4>1 DEF Pipe, SizesLimited
      <4>4. QED
        BY <3>3, <4>1, <4>2, <4>3
    <3>5. Arrived(p) \in Nat /\ Arrived(p) < c.id /\ c.id \in (Arrived(p) + 1) .. Len(log[p])
      <4>1. handed[q] \in Seq([sid : Sids, size : Nat, ids : SUBSET Nat])
        BY <1>2 DEF TypeOK
      <4>2. Arrived(p) \in Nat
        BY <1>1, <4>1 DEF Arrived
      <4>3. n > Arrived(p)
        BY <2>3, <3>1, <3>3
      <4>4. Len(log[p]) = n /\ c.id = n
        BY <3>2, <3>3
      <4>5. QED
        BY <4>2, <4>3, <4>4
    <3>6. PICK k \in Nat, t \in Nat, w \in Nat, u \in Nat, v \in Nat, share \in Nat :
              /\ k = Kept(p, c.id) /\ t = Parts(tasks[q], c.id) /\ w = Parts(out[p], c.id)
              /\ u = m.left /\ v = L[n].size /\ share = Share(c, c.id) /\ share + left = u /\ u > 0
      <4>1. Held(partial_incoming_message_[q]) \in Nat
        BY <1>2, QueuesMeasured, HeldTyped
      <4>2. Kept(p, c.id) \in Nat
        BY <1>1, <4>1 DEF Kept
      <4>3. Parts(tasks[q], c.id) \in Nat /\ Parts(out[p], c.id) \in Nat
        BY <1>2, QueuesMeasured, PartsTyped
      <4>4. QED
        BY <2>1, <3>1, <3>4, <4>2, <4>3
    <3>7. k + t + w + u = v /\ k + t + w + share + left = v /\ v # 0
      <4>1. Unsent(p, c.id) = m.left
        BY <2>1, <2>2, <3>1 DEF Unsent
      <4>2. Kept(p, c.id) + Parts(tasks[q], c.id) + Parts(out[p], c.id) + Unsent(p, c.id) = log[p][c.id].size
        BY <1>1, <1>2, <3>5 DEF Pipe, SumsToSize
      <4>3. k + t + w + u = v
        BY <3>2, <3>3, <3>6, <4>1, <4>2
      <4>4. share + left = u /\ u > 0
        BY <3>6
      <4>5. k + t + w + (share + left) = k + t + w + share + left
        OBVIOUS
      <4>6. QED
        BY <4>3, <4>4, <4>5
    <3>8. LogReaches(p, c)
      <4>1. v # 0
        BY <3>7
      <4>2. ~c.empty
        BY <2>1, <3>1
      <4>3. log'[p] = L
        BY <1>3, <3>2
      <4>4. c.empty <=> L[n].size = 0
        BY <3>6, <4>1, <4>2
      <4>5. QED
        BY <3>2, <3>3, <3>4, <4>3, <4>4 DEF LogReaches
    <3>9. Kept(p, c.id) + Parts(tasks[q], c.id) + Parts(out[p], c.id) + Share(c, c.id) + left
              = log'[p][c.id].size
      <4>1. k + t + w + share + left = v
        BY <3>7
      <4>2. log'[p][c.id] = L[n]
        BY <1>3, <3>2, <3>3
      <4>3. QED
        BY <3>6, <4>1, <4>2
    <3>10. RestBuffered(p, c, left)
      <4>1. CASE left = 0
        BY <2>8, <3>1, <4>1 DEF RestBuffered
      <4>2. CASE left # 0
        BY <2>7, <2>8, <3>1, <4>2 DEF RestBuffered
      <4>3. QED
        BY <4>1, <4>2
    <3>11. /\ c.empty => c.eor
           /\ \A d \in InTransit(p) : d.id = c.id => ~d.eor
           /\ \A y \in Range(partial_outgoing_message_[p]) : y.id = c.id
           /\ SameData(out'[p], Append(out[p], c))
      BY <2>1, <2>2, <2>3, <2>4, <2>10, <3>1
    <3>12. handed'[q] = handed[q] /\ partial_incoming_message_'[q] = partial_incoming_message_[q]
      BY <1>3
    <3>13. Pipe(p)'
      BY <1>1, <1>2, <1>4, <3>1, <3>5, <3>8, <3>9, <3>10, <3>11, <3>12, PipeSent
    <3>14. QED
      BY <1>1, <2>11, <3>13
  <2>14. QED
    BY <2>12, <2>13
<1>7. QED
  BY <1>5, <1>6, ThresholdCases

\* A chunk goes from the queue of p to its peer.
LEMMA ConveyDataPipe ==
    ASSUME Typed, PipeInv, NEW p \in Peers, ConveyData(p)
    PROVE  \A r \in Peers : Pipe(r)'
<1>1. PICK q \in Peers : q = Peer(p) /\ p = Peer(q) /\ q # p /\ \A r \in Peers : r = p \/ r = q
  BY PeerFacts
<1>2. /\ TypeOK /\ Pipe(p) /\ Pipe(q)
      /\ out[p] \in Seq(Chunk) /\ Measured(out[p])
      /\ tasks[q] \in Seq(Task) /\ Measured(tasks[q])
      /\ tasks[p] \in Seq(Task) /\ Measured(tasks[p])
  BY QueuesMeasured DEF PipeInv, Pipe, Typed
<1>3. /\ UNCHANGED <<log, handed, partial_outgoing_message_, partial_incoming_message_>>
      /\ out' = [out EXCEPT ![p] = Tail(@)]
  BY DEF ConveyData, history
<1>4. Pipe(q)'
  <2>1. out'[q] = out[q]
    BY <1>1, <1>2, <1>3 DEF TypeOK
  <2>2. PICK e : e = Acknowledged(Tail(out[p]))
    OBVIOUS
  <2>3. PICK a : tasks' = [tasks EXCEPT ![q] = a, ![p] = @ \o e]
    BY <1>1, <2>2 DEF ConveyData
  <2>4. tasks'[p] = tasks[p] \o e
    BY <1>1, <1>2, <2>3 DEF TypeOK
  <2>5. SameData(tasks'[p], tasks[p])
    BY <1>2, <2>2, <2>4, AcknowledgedData
  <2>6. QED
    BY <1>1, <1>2, <1>3, <2>1, <2>5, SameDataRefl, PipeCalm
<1>5. PICK h \in DataChunk : h = Head(out[p])
  BY <1>2, ConveyDataEffect
<1>6. /\ out[p] # <<>> /\ out'[p] = Tail(out[p]) /\ tasks'[q] = Append(tasks[q], h)
      /\ h \in Task /\ h.kind = "data" /\ h.units \in Nat
  BY <1>1, <1>2, <1>5, ConveyDataEffect DEF Task, DataChunk
<1>7. /\ Range(out[p]) = Range(out'[p]) \cup {h}
      /\ \A x, y : Behind(out[p], x, y) <=> Behind(out'[p], x, y) \/ (x = h /\ y \in Range(out'[p]))
  BY <1>2, <1>5, <1>6, RangeTail
<1>8. /\ Range(tasks'[q]) = Range(tasks[q]) \cup {h}
      /\ \A x, y : Behind(tasks'[q], x, y) <=> Behind(tasks[q], x, y) \/ (x \in Range(tasks[q]) /\ y = h)
  BY <1>2, <1>6, RangeAppended
<1>9. /\ Data(out[p]) = Data(out'[p]) \cup {h} /\ Data(tasks'[q]) = Data(tasks[q]) \cup {h}
      /\ Data(out'[p]) \subseteq Range(out'[p]) /\ Data(tasks[q]) \subseteq Range(tasks[q])
  BY <1>6, <1>7, <1>8 DEF Data
<1>10. InTransit(p)' = InTransit(p)
  BY <1>1, <1>9 DEF InTransit
<1>11. /\ Arrived(p)' = Arrived(p) /\ \A i : Whole(p, i)' = Whole(p, i)
       /\ \A i : Kept(p, i)' = Kept(p, i) /\ Unsent(p, i)' = Unsent(p, i)
       /\ \A c : OfLog(p, c)' <=> OfLog(p, c)
  BY <1>3 DEF Arrived, Whole, Kept, Unsent, OfLog
<1>12. ArrivedWhole(p)' /\ SizesLimited(p)'
  BY <1>2, <1>3, <1>11 DEF Pipe, ArrivedWhole, SizesLimited
<1>13. RestToCome(p)'
  BY <1>2, <1>3, <1>10, <1>11 DEF Pipe, RestToCome
<1>14. BufferedLast(p)' /\ LastToCome(p)'
  BY <1>2, <1>3, <1>10, <1>11 DEF Pipe, BufferedLast, LastToCome
<1>15. InOrder(p)'
  <2>0. /\ \A x, y \in Data(tasks[q]) : Behind(tasks[q], x, y) => Precedes(x, y)
        /\ \A x, y \in Data(out[p]) : Behind(out[p], x, y) => Precedes(x, y)
        /\ \A x \in Data(tasks[q]), y \in Data(out[p]) : Precedes(x, y)
    BY <1>1, <1>2 DEF Pipe, InOrder
  <2>1. ASSUME NEW x \in Data(tasks'[q]), NEW y \in Data(tasks'[q]), Behind(tasks'[q], x, y)
        PROVE  Precedes(x, y)
    <3>1. CASE Behind(tasks[q], x, y)
      <4>1. x \in Range(tasks[q]) /\ y \in Range(tasks[q])
        BY <3>1 DEF Behind, Range
      <4>2. x \in Data(tasks[q]) /\ y \in Data(tasks[q])
        BY <2>1, <4>1 DEF Data
      <4>3. QED
        BY <2>0, <3>1, <4>2
    <3>2. CASE x \in Range(tasks[q]) /\ y = h
      <4>1. x \in Data(tasks[q])
        BY <2>1, <3>2 DEF Data
      <4>2. QED
        BY <1>9, <2>0, <3>2, <4>1
    <3>3. QED
      BY <1>8, <2>1, <3>1, <3>2
  <2>2. \A x, y \in Data(out'[p]) : Behind(out'[p], x, y) => Precedes(x, y)
    BY <1>7, <1>9, <2>0
  <2>3. ASSUME NEW x \in Data(tasks'[q]), NEW y \in Data(out'[p]) PROVE Precedes(x, y)
    <3>1. CASE x \in Data(tasks[q])
      BY <1>9, <2>0, <2>3, <3>1
    <3>2. CASE x = h
      BY <1>7, <1>9, <2>0, <2>3, <3>2
    <3>3. QED
      BY <1>9, <2>3, <3>1, <3>2
  <2>4. QED
    BY <1>1, <2>1, <2>2, <2>3 DEF InOrder, Precedes
<1>16. SumsToSize(p)'
  <2>1. ASSUME NEW i
        PROVE  \E t \in Nat, o \in Nat, n \in Nat :
                   /\ Parts(tasks[q], i) = t /\ Parts(tasks'[q], i) = t + n
                   /\ Parts(out[p], i) = n + o /\ Parts(out'[p], i) = o
    <3>1. PICK t \in Nat, o \in Nat, n \in Nat :
              /\ t = Parts(tasks[q], i) /\ o = Parts(out'[p], i) /\ n = Share(h, i)
      BY <1>2, <1>5, <1>6, PartsTyped, PartsTail
    <3>2. Parts(tasks'[q], i) = t + n
      BY <1>2, <1>6, <3>1, PartsAppend
    <3>3. Parts(out[p], i) = n + o
      BY <1>2, <1>5, <1>6, <3>1, PartsTail
    <3>4. QED
      BY <3>1, <3>2, <3>3
  <2>2. SUFFICES ASSUME NEW i \in (Arrived(p) + 1) .. Len(log[p])
        PROVE  Kept(p, i) + Parts(tasks'[q], i) + Parts(out'[p], i) + Unsent(p, i) = log[p][i].size
    BY <1>1, <1>3, <1>11 DEF SumsToSize
  <2>3. PICK t \in Nat, o \in Nat, n \in Nat :
            /\ Parts(tasks[q], i) = t /\ Parts(tasks'[q], i) = t + n
            /\ Parts(out[p], i) = n + o /\ Parts(out'[p], i) = o
    BY <2>1
  <2>4. PICK k \in Nat : k = Kept(p, i)
    <3>1. Held(partial_incoming_message_[q]) \in Nat
      BY <1>2, QueuesMeasured, HeldTyped
    <3>2. QED
      BY <1>1, <3>1 DEF Kept
  <2>5. PICK u : u = Unsent(p, i)
    OBVIOUS
  <2>6. k + t + (n + o) + u = log[p][i].size
    BY <1>1, <1>2, <2>2, <2>3, <2>4, <2>5 DEF Pipe, SumsToSize
  <2>7. k + t + (n + o) = k + (t + n) + o
    OBVIOUS
  <2>8. k + (t + n) + o + u = log[p][i].size
    BY <2>6, <2>7, Zenon
  <2>9. QED
    BY <2>3, <2>4, <2>5, <2>8
<1>17. Pipe(p)'
  BY <1>12, <1>13, <1>14, <1>15, <1>16 DEF Pipe
<1>18. QED
  BY <1>1, <1>4, <1>17

-----------------------------------------------------------------------------
(* Receiving.                                                                *)

\* What is under way once the first callback of q is taken.
StillToCome(p, q) == Data(Tail(tasks[q])) \cup Data(out[p])

\* The first chunk in the queue of q belongs to the message that is next.
LEMMA ArrivingChunk ==
    ASSUME TypeOK, NEW p \in Peers, NEW q \in Peers, q = Peer(p), Pipe(p),
           tasks[q] # <<>>, NEW c \in DataChunk, c = Head(tasks[q])
    PROVE  /\ Arrived(p) \in Nat /\ Len(log[p]) \in Nat
           /\ c.id = Arrived(p) + 1 /\ c.id \in DOMAIN log[p] /\ c.id <= Len(log[p])
           /\ c \in InTransit(p)
           /\ \A d \in StillToCome(p, q) : d \in InTransit(p) /\ Precedes(c, d)
           /\ \A d \in InTransit(p) : d = c \/ d \in StillToCome(p, q)
<1>1. /\ tasks[q] \in Seq(Task) /\ c.kind = "data"
  BY QueuesMeasured DEF DataChunk
<1>2. /\ Range(tasks[q]) = Range(Tail(tasks[q])) \cup {c}
      /\ \A x, y : Behind(tasks[q], x, y)
                   <=> Behind(Tail(tasks[q]), x, y) \/ (x = c /\ y \in Range(Tail(tasks[q])))
  BY <1>1, RangeTail
<1>3. Data(tasks[q]) = Data(Tail(tasks[q])) \cup {c}
  BY <1>1, <1>2 DEF Data
<1>4. /\ InTransit(p) = StillToCome(p, q) \cup {c}
  BY <1>3 DEF InTransit, StillToCome
<1>5. ASSUME NEW d \in StillToCome(p, q) PROVE Precedes(c, d)
  <2>1. CASE d \in Data(Tail(tasks[q]))
    <3>1. Behind(tasks[q], c, d) /\ d \in Data(tasks[q]) /\ c \in Data(tasks[q])
      BY <1>2, <1>3, <2>1 DEF Data
    <3>2. QED
      BY <3>1 DEF Pipe, InOrder
  <2>2. CASE d \in Data(out[p])
    BY <1>3, <2>2 DEF Pipe, InOrder
  <2>3. QED
    BY <1>5, <2>1, <2>2 DEF StillToCome
<1>6. PICK a \in Nat : a = Arrived(p)
  <2>1. handed[q] \in Seq([sid : Sids, size : Nat, ids : SUBSET Nat])
    BY DEF TypeOK
  <2>2. Len(handed[q]) \in Nat
    BY <2>1
  <2>3. QED
    BY <2>2 DEF Arrived
<1>7. PICK n \in Nat : n = Len(log[p]) /\ DOMAIN log[p] = 1 .. n
  <2>1. log[p] \in Seq([sid : Sids, size : Nat, opening : Nat])
    BY DEF TypeOK
  <2>2. QED
    BY <2>1
<1>8. c.id \in 1 .. n /\ c.id > a
  BY <1>4, <1>6, <1>7 DEF Pipe, RestToCome, OfLog
<1>9. c.id = a + 1
  <2>1. SUFFICES ASSUME c.id > a + 1 PROVE FALSE
    BY <1>8
  <2>2. a + 1 \in (a + 1) .. n
    BY <1>8, <2>1
  <2>3. CASE \E m \in Range(partial_outgoing_message_[p]) : m.id = a + 1
    <3>1. n = a + 1
      BY <1>7, <2>3 DEF Pipe, BufferedLast
    <3>2. QED
      BY <1>8, <2>1, <3>1
  <2>4. CASE \E d \in InTransit(p) : d.id = a + 1
    <3>1. PICK d \in InTransit(p) : d.id = a + 1
      BY <2>4
    <3>2. d # c
      BY <2>1, <3>1
    <3>3. Precedes(c, d)
      BY <1>4, <1>5, <3>1, <3>2
    <3>4. c.id < a + 1 \/ c.id = a + 1
      BY <3>1, <3>3 DEF Precedes
    <3>5. QED
      BY <1>8, <2>1, <3>4
  <2>5. QED
    BY <1>6, <1>7, <2>2, <2>3, <2>4 DEF Pipe, LastToCome
<1>10. QED
  BY <1>4, <1>5, <1>6, <1>7, <1>8, <1>9

\* What is kept of the message, with the chunk.
Gathered(kept, c) == IF c.empty THEN kept ELSE Append(kept, c)

LEMMA GatheredIs ==
    ASSUME NEW kept \in Seq(DataChunk), NEW c \in DataChunk
    PROVE  /\ Gathered(kept, c) \in Seq(DataChunk)
           /\ Held(kept) \in Nat /\ Share(c, c.id) \in Nat
           /\ Held(Gathered(kept, c)) = Held(kept) + Share(c, c.id)
           /\ \A d \in Range(Gathered(kept, c)) : d = c \/ d \in Range(kept)
<1>1. c.kind = "data" /\ c.units \in Nat
  BY DEF DataChunk
<1>2. Measured(kept)
  <2>1. \A d \in DataChunk : d.units \in Nat
    BY DEF DataChunk
  <2>2. \A i \in 1 .. Len(kept) : kept[i] \in DataChunk
    OBVIOUS
  <2>3. QED
    BY <2>1, <2>2 DEF Measured
<1>3. PICK h \in Nat : h = Held(kept)
  BY <1>2, HeldTyped
<1>4. CASE c.empty
  <2>1. Share(c, c.id) = 0 /\ Gathered(kept, c) = kept
    BY <1>4 DEF Share, Gathered
  <2>2. QED
    BY <1>3, <2>1
<1>5. CASE ~c.empty
  <2>1. Share(c, c.id) = c.units /\ Gathered(kept, c) = Append(kept, c)
    BY <1>1, <1>5 DEF Share, Gathered
  <2>2. Held(Append(kept, c)) = Held(kept) + c.units
    BY <1>1, <1>2, HeldAppend
  <2>3. Range(Append(kept, c)) = Range(kept) \cup {c}
    BY RangeAppended
  <2>4. Append(kept, c) \in Seq(DataChunk)
    OBVIOUS
  <2>5. QED
    BY <1>1, <1>3, <2>1, <2>2, <2>3, <2>4
<1>6. QED
  BY <1>4, <1>5

\* The units of the next message: gathered, still to come and still to send.
LEMMA NextMessage ==
    ASSUME TypeOK, NEW p \in Peers, NEW q \in Peers, q = Peer(p), Pipe(p),
           tasks[q] # <<>>, NEW c \in DataChunk, c = Head(tasks[q])
    PROVE  \E g \in Nat, t \in Nat, o \in Nat, u \in Nat :
               /\ g = Held(Gathered(partial_incoming_message_[q], c))
               /\ t = Parts(Tail(tasks[q]), c.id) /\ o = Parts(out[p], c.id)
               /\ u = Unsent(p, c.id)
               /\ g + t + o + u = log[p][c.id].size
               /\ log[p][c.id].size \in Nat /\ log[p][c.id].size <= kSctpSendBufferSize
<1>1. /\ out[p] \in Seq(Chunk) /\ Measured(out[p]) /\ tasks[q] \in Seq(Task) /\ Measured(tasks[q])
      /\ partial_incoming_message_[q] \in Seq(DataChunk)
  BY QueuesMeasured
<1>2. /\ Arrived(p) \in Nat /\ Len(log[p]) \in Nat
      /\ c.id = Arrived(p) + 1 /\ c.id \in DOMAIN log[p] /\ c.id <= Len(log[p])
  BY ArrivingChunk
<1>3. PICK h \in Nat, s \in Nat :
          /\ h = Held(partial_incoming_message_[q]) /\ s = Share(c, c.id)
          /\ h + s = Held(Gathered(partial_incoming_message_[q], c))
  BY <1>1, GatheredIs
<1>4. PICK t \in Nat, o \in Nat :
          /\ t = Parts(Tail(tasks[q]), c.id) /\ o = Parts(out[p], c.id)
          /\ Parts(tasks[q], c.id) = s + t
  BY <1>1, <1>3, PartsTyped, PartsTail
<1>5. PICK u \in Nat : u = Unsent(p, c.id)
  <2>1. partial_outgoing_message_[p] \in Seq(Message)
    BY DEF TypeOK
  <2>2. CASE \E m \in Range(partial_outgoing_message_[p]) : m.id = c.id
    <3>1. PICK b \in Seq(Message) : b = partial_outgoing_message_[p]
      BY <2>1
    <3>2. Len(b) \in Nat /\ DOMAIN b = 1 .. Len(b) /\ DOMAIN b # {}
      BY <2>2, <3>1 DEF Range
    <3>3. 1 \in 1 .. Len(b)
      BY <3>2
    <3>4. b[1] \in Message
      BY <3>1, <3>3
    <3>5. b[1].left \in Nat
      BY <3>4 DEF Message
    <3>6. QED
      BY <2>2, <3>1, <3>5 DEF Unsent
  <2>3. CASE ~\E m \in Range(partial_outgoing_message_[p]) : m.id = c.id
    BY <2>3 DEF Unsent
  <2>4. QED
    BY <2>2, <2>3
<1>6. h + (s + t) + o + u = log[p][c.id].size
  <2>1. c.id \in (Arrived(p) + 1) .. Len(log[p])
    BY <1>2
  <2>2. Kept(p, c.id) = h
    BY <1>2, <1>3 DEF Kept
  <2>3. Kept(p, c.id) + Parts(tasks[q], c.id) + Parts(out[p], c.id) + Unsent(p, c.id) = log[p][c.id].size
    BY <2>1 DEF Pipe, SumsToSize
  <2>4. QED
    BY <1>4, <1>5, <2>2, <2>3
<1>7. h + (s + t) + o + u = (h + s) + t + o + u /\ h + s \in Nat
  OBVIOUS
<1>8. log[p][c.id].size \in Nat /\ log[p][c.id].size <= kSctpSendBufferSize
  <2>1. log[p] \in Seq([sid : Sids, size : Nat, opening : Nat])
    BY DEF TypeOK
  <2>2. PICK H : log[p] \in Seq(H) /\ H = [sid : Sids, size : Nat, opening : Nat]
    BY <2>1, Zenon
  <2>3. log[p] \in Seq(H) /\ c.id \in DOMAIN log[p]
    BY <1>2, <2>2, Zenon
  <2>4. log[p][c.id] \in H
    BY <2>3
  <2>5. log[p][c.id].size \in Nat
    BY <2>2, <2>4
  <2>6. QED
    BY <1>2, <2>5 DEF Pipe, SizesLimited
<1>9. PICK g \in Nat : g = h + s
  BY <1>7
<1>10. g = Held(Gathered(partial_incoming_message_[q], c))
  BY <1>3, <1>9, Zenon
<1>11. g + t + o + u = log[p][c.id].size
  <2>1. (h + s) + t + o + u = log[p][c.id].size
    BY <1>6, <1>7, Zenon
  <2>2. QED
    BY <1>9, <2>1, Zenon
<1>12. t = Parts(Tail(tasks[q]), c.id) /\ o = Parts(out[p], c.id) /\ u = Unsent(p, c.id)
  BY <1>4, <1>5, Zenon
<1>13. WITNESS g \in Nat, t \in Nat, o \in Nat, u \in Nat
<1>14. QED
  BY <1>8, <1>10, <1>11, <1>12, Zenon

\* The rest of the queue is in order as before.
LEMMA StillInOrder ==
    ASSUME TypeOK, NEW p \in Peers, NEW q \in Peers, q = Peer(p), InOrder(p),
           tasks[q] # <<>>, tasks'[q] = Tail(tasks[q]), out'[p] = out[p]
    PROVE  InOrder(p)' /\ InTransit(p)' = StillToCome(p, q)
<1>1. tasks[q] \in Seq(Task)
  BY QueuesMeasured
<1>2. /\ Range(tasks[q]) = Range(tasks'[q]) \cup {Head(tasks[q])}
      /\ \A x, y : Behind(tasks'[q], x, y) => Behind(tasks[q], x, y)
  BY <1>1, RangeTail
<1>3. Data(tasks'[q]) \subseteq Data(tasks[q])
  BY <1>2 DEF Data
<1>4. InOrder(p)'
  <2>1. \A x, y \in Data(tasks'[q]) : Behind(tasks'[q], x, y) => Precedes(x, y)
    BY <1>2, <1>3 DEF InOrder
  <2>2. \A x, y \in Data(out'[p]) : Behind(out'[p], x, y) => Precedes(x, y)
    BY DEF InOrder
  <2>3. \A x \in Data(tasks'[q]), y \in Data(out'[p]) : Precedes(x, y)
    BY <1>3 DEF InOrder
  <2>4. QED
    BY <2>1, <2>2, <2>3 DEF InOrder, Precedes
<1>5. QED
  BY <1>4 DEF InTransit, StillToCome

\* While the last chunk of its message is to come, what was gathered is less
\* than the message, and has room.
LEMMA RoomToGather ==
    ASSUME Typed, NEW p \in Peers, NEW q \in Peers, q = Peer(p), Pipe(p),
           tasks[q] # <<>>, NEW c \in DataChunk, c = Head(tasks[q]), ~c.eor
    PROVE  Held(Gathered(partial_incoming_message_[q], c)) < kSctpSendBufferSize
<1>1. /\ TypeOK /\ out[p] \in Seq(Chunk) /\ Measured(out[p])
      /\ tasks[q] \in Seq(Task) /\ Measured(tasks[q])
  BY QueuesMeasured DEF Typed
<1>2. PICK g \in Nat, t \in Nat, o \in Nat, u \in Nat :
          /\ g = Held(Gathered(partial_incoming_message_[q], c))
          /\ t = Parts(Tail(tasks[q]), c.id) /\ o = Parts(out[p], c.id)
          /\ u = Unsent(p, c.id)
          /\ g + t + o + u = log[p][c.id].size
          /\ log[p][c.id].size \in Nat /\ log[p][c.id].size <= kSctpSendBufferSize
  BY <1>1, NextMessage
<1>3. /\ Arrived(p) \in Nat /\ Len(log[p]) \in Nat
      /\ c.id = Arrived(p) + 1 /\ c.id <= Len(log[p]) /\ c \in InTransit(p)
      /\ \A d \in InTransit(p) : d = c \/ d \in StillToCome(p, q)
  BY <1>1, ArrivingChunk
<1>4. t > 0 \/ o > 0 \/ u > 0
  <2>1. c.id \in (Arrived(p) + 1) .. Len(log[p])
    BY <1>3
  <2>2. CASE \E m \in Range(partial_outgoing_message_[p]) : m.id = c.id
    <3>1. PICK m \in Range(partial_outgoing_message_[p]) : m.id = c.id
      BY <2>2
    <3>2. m \in Message /\ m = partial_outgoing_message_[p][1]
      BY <3>1, BufferedMessage
    <3>3. m.left \in Nat \ {0}
      BY <3>2 DEF Message
    <3>4. u = m.left
      BY <1>2, <2>2, <3>2 DEF Unsent
    <3>5. QED
      BY <3>3, <3>4
  <2>3. CASE \E d \in InTransit(p) : d.id = c.id /\ d.eor
    <3>1. PICK d \in InTransit(p) : d.id = c.id /\ d.eor
      BY <2>3
    <3>2. d \in StillToCome(p, q)
      BY <1>3, <3>1
    <3>3. d.units > 0 /\ ~d.empty
      <4>1. c.empty => c.eor
        BY <1>3 DEF Pipe, RestToCome
      <4>2. c.empty <=> log[p][c.id].size = 0
        BY <1>3 DEF Pipe, RestToCome
      <4>3. d.units > 0 /\ (d.empty <=> log[p][d.id].size = 0)
        BY <3>1 DEF Pipe, RestToCome
      <4>4. QED
        BY <3>1, <4>1, <4>2, <4>3
    <3>4. d.units \in Nat
      <4>1. d \in DataChunk
        BY <1>1, <3>1, TransitTyped
      <4>2. QED
        BY <4>1 DEF DataChunk
    <3>5. CASE d \in Data(out[p])
      <4>1. Parts(out[p], d.id) >= d.units
        BY <1>1, <3>3, <3>4, <3>5, PartsPresent
      <4>2. o >= d.units
        BY <1>2, <3>1, <4>1
      <4>3. QED
        BY <3>3, <3>4, <4>2
    <3>6. CASE d \in Data(Tail(tasks[q]))
      <4>1. Tail(tasks[q]) \in Seq(Task) /\ Measured(Tail(tasks[q]))
        BY <1>1, HeldTail
      <4>2. Parts(Tail(tasks[q]), d.id) >= d.units
        BY <3>3, <3>4, <3>6, <4>1, PartsPresent
      <4>3. t >= d.units
        BY <1>2, <3>1, <4>2
      <4>4. QED
        BY <3>3, <3>4, <4>3
    <3>7. QED
      BY <3>2, <3>5, <3>6 DEF StillToCome
  <2>4. QED
    BY <2>1, <2>2, <2>3 DEF Pipe, LastToCome
<1>5. PICK z \in Nat, k \in Nat : z = log[p][c.id].size /\ k = kSctpSendBufferSize
  BY <1>2, SctpConstants
<1>6. g + t + o + u = z /\ z <= k
  BY <1>2, <1>5, Zenon
<1>7. g < k
  BY <1>4, <1>6
<1>8. g = Held(Gathered(partial_incoming_message_[q], c))
  BY <1>2, Zenon
<1>9. QED
  BY <1>5, <1>7, <1>8, Zenon

\* A chunk is kept for the rest of its message.
LEMMA PipeKept ==
    ASSUME TypeOK, NEW p \in Peers, NEW q \in Peers, q = Peer(p), Pipe(p),
           tasks[q] # <<>>, NEW c \in DataChunk, c = Head(tasks[q]), ~c.eor,
           tasks'[q] = Tail(tasks[q]), handed'[q] = handed[q],
           partial_incoming_message_'[q] = Gathered(partial_incoming_message_[q], c),
           out'[p] = out[p], log'[p] = log[p],
           partial_outgoing_message_'[p] = partial_outgoing_message_[p]
    PROVE  Pipe(p)'
<1>1. InOrder(p)' /\ InTransit(p)' = StillToCome(p, q)
  BY StillInOrder DEF Pipe
<1>2. /\ Arrived(p) \in Nat /\ Len(log[p]) \in Nat
      /\ c.id = Arrived(p) + 1 /\ c \in InTransit(p)
      /\ \A d \in StillToCome(p, q) : d \in InTransit(p)
      /\ \A d \in InTransit(p) : d = c \/ d \in StillToCome(p, q)
  BY ArrivingChunk
<1>3. /\ Arrived(p)' = Arrived(p) /\ \A i : Whole(p, i)' = Whole(p, i)
      /\ \A i : Unsent(p, i)' = Unsent(p, i)
      /\ \A d : OfLog(p, d)' <=> OfLog(p, d)
  BY DEF Arrived, Whole, Unsent, OfLog
<1>4. ArrivedWhole(p)' /\ SizesLimited(p)'
  BY <1>3 DEF Pipe, ArrivedWhole, SizesLimited
<1>5. RestToCome(p)'
  <2>1. partial_incoming_message_[q] \in Seq(DataChunk)
    BY QueuesMeasured
  <2>2. \A d \in Range(partial_incoming_message_'[q]) : d = c \/ d \in Range(partial_incoming_message_[q])
    BY <2>1, GatheredIs
  <2>3. OfLog(p, c)
    BY <1>2 DEF Pipe, RestToCome
  <2>4. \A d \in Range(partial_incoming_message_'[q]) : OfLog(p, d) /\ d.id = Arrived(p) + 1
    BY <1>2, <2>2, <2>3 DEF Pipe, RestToCome
  <2>5. QED
    BY <1>1, <1>2, <1>3, <2>4 DEF Pipe, RestToCome
<1>6. BufferedLast(p)'
  BY <1>1, <1>2, <1>3 DEF Pipe, BufferedLast
<1>7. LastToCome(p)'
  BY <1>1, <1>2, <1>3 DEF Pipe, LastToCome
<1>8. SumsToSize(p)'
  <2>1. SUFFICES ASSUME NEW i \in (Arrived(p) + 1) .. Len(log[p])
        PROVE  Kept(p, i)' + Parts(tasks'[q], i) + Parts(out[p], i) + Unsent(p, i) = log[p][i].size
    BY <1>3 DEF SumsToSize
  <2>2. CASE i = c.id
    <3>1. PICK g \in Nat, t \in Nat, o \in Nat, u \in Nat :
              /\ g = Held(Gathered(partial_incoming_message_[q], c))
              /\ t = Parts(Tail(tasks[q]), c.id) /\ o = Parts(out[p], c.id)
              /\ u = Unsent(p, c.id)
              /\ g + t + o + u = log[p][c.id].size
              /\ log[p][c.id].size \in Nat /\ log[p][c.id].size <= kSctpSendBufferSize
      BY NextMessage
    <3>2. Kept(p, i)' = g
      BY <1>2, <1>3, <2>2, <3>1 DEF Kept
    <3>3. QED
      BY <2>2, <3>1, <3>2, Zenon
  <2>3. CASE i # c.id
    <3>1. Kept(p, i)' = 0 /\ Kept(p, i) = 0
      BY <1>2, <1>3, <2>3 DEF Kept
    <3>2. Parts(tasks'[q], i) = Parts(tasks[q], i)
      <4>1. Share(c, i) = 0
        BY <2>3 DEF Share
      <4>2. PICK n \in Nat : n = Parts(Tail(tasks[q]), i) /\ Parts(tasks[q], i) = 0 + n
        BY <4>1, QueuesMeasured, PartsTail
      <4>3. QED
        BY <4>2
    <3>3. Kept(p, i) + Parts(tasks[q], i) + Parts(out[p], i) + Unsent(p, i) = log[p][i].size
      BY <2>1 DEF Pipe, SumsToSize
    <3>4. QED
      BY <3>1, <3>2, <3>3, Zenon
  <2>4. QED
    BY <2>2, <2>3
<1>9. QED
  BY <1>1, <1>4, <1>5, <1>6, <1>7, <1>8 DEF Pipe

\* The last chunk of a message: what was gathered is the message.
LEMMA GatheredWhole ==
    ASSUME TypeOK, NEW p \in Peers, NEW q \in Peers, q = Peer(p), Pipe(p),
           tasks[q] # <<>>, NEW c \in DataChunk, c = Head(tasks[q]), c.eor
    PROVE  /\ Held(Gathered(partial_incoming_message_[q], c)) = log[p][c.id].size
           /\ \A d \in Range(Gathered(partial_incoming_message_[q], c)) : d.id = c.id
           /\ c.sid = log[p][c.id].sid
           /\ \A d \in StillToCome(p, q) : d.id # c.id
           /\ \A m \in Range(partial_outgoing_message_[p]) : m.id # c.id
<1>1. PICK g \in Nat, t \in Nat, o \in Nat, u \in Nat :
          /\ g = Held(Gathered(partial_incoming_message_[q], c))
          /\ t = Parts(Tail(tasks[q]), c.id) /\ o = Parts(out[p], c.id)
          /\ u = Unsent(p, c.id)
          /\ g + t + o + u = log[p][c.id].size
          /\ log[p][c.id].size \in Nat /\ log[p][c.id].size <= kSctpSendBufferSize
  BY NextMessage
<1>2. /\ c.id = Arrived(p) + 1 /\ c \in InTransit(p) /\ Arrived(p) \in Nat
      /\ \A d \in StillToCome(p, q) : d \in InTransit(p) /\ Precedes(c, d)
  BY ArrivingChunk
<1>3. \A d \in StillToCome(p, q) : d.id # c.id
  <2>1. \A d \in StillToCome(p, q) : c.id < d.id
    BY <1>2 DEF Precedes
  <2>2. ASSUME NEW d \in StillToCome(p, q), d.id = c.id PROVE FALSE
    <3>1. PICK n \in Nat : n = c.id
      BY <1>2
    <3>2. n < n
      BY <2>1, <2>2, <3>1
    <3>3. QED
      BY <3>2
  <2>3. QED
    BY <2>2
<1>4. \A m \in Range(partial_outgoing_message_[p]) : m.id # c.id
  BY <1>2 DEF Pipe, BufferedLast
<1>5. t = 0 /\ o = 0 /\ u = 0
  <2>1. u = 0
    BY <1>1, <1>4 DEF Unsent
  <2>2. out[p] \in Seq(Chunk) /\ Tail(tasks[q]) \in Seq(Task)
    <3>1. tasks[q] \in Seq(Task)
      BY QueuesMeasured
    <3>2. QED
      BY <3>1, QueuesMeasured
  <2>3. Parts(out[p], c.id) = 0 /\ Parts(Tail(tasks[q]), c.id) = 0
    BY <1>3, <2>2, PartsAbsent DEF StillToCome
  <2>4. QED
    BY <1>1, <2>1, <2>3
<1>6. g = log[p][c.id].size
  <2>1. g + 0 + 0 + 0 = log[p][c.id].size
    BY <1>1, <1>5
  <2>2. g + 0 + 0 + 0 = g
    OBVIOUS
  <2>3. QED
    BY <2>1, <2>2, Zenon
<1>7. \A d \in Range(Gathered(partial_incoming_message_[q], c)) : d.id = c.id
  <2>1. partial_incoming_message_[q] \in Seq(DataChunk)
    BY QueuesMeasured
  <2>2. \A d \in Range(Gathered(partial_incoming_message_[q], c)) :
            d = c \/ d \in Range(partial_incoming_message_[q])
    BY <2>1, GatheredIs
  <2>3. QED
    BY <1>2, <2>2 DEF Pipe, RestToCome
<1>8. c.sid = log[p][c.id].sid
  BY <1>2 DEF Pipe, RestToCome, OfLog
<1>9. QED
  BY <1>1, <1>3, <1>4, <1>6, <1>7, <1>8

\* The message that a chunk ends is handed out.
LEMMA PipeHanded ==
    ASSUME TypeOK, NEW p \in Peers, NEW q \in Peers, q = Peer(p), Pipe(p),
           tasks[q] # <<>>, NEW c \in DataChunk, c = Head(tasks[q]), c.eor,
           tasks'[q] = Tail(tasks[q]), handed'[q] = Append(handed[q], Whole(p, c.id)),
           partial_incoming_message_'[q] = <<>>,
           out'[p] = out[p], log'[p] = log[p],
           partial_outgoing_message_'[p] = partial_outgoing_message_[p]
    PROVE  Pipe(p)'
<1>1. InOrder(p)' /\ InTransit(p)' = StillToCome(p, q)
  BY StillInOrder DEF Pipe
<1>2. PICK a \in Nat, n \in Nat :
          /\ a = Arrived(p) /\ n = Len(log[p]) /\ c.id = a + 1 /\ a + 1 <= n
  BY ArrivingChunk
<1>3. /\ c \in InTransit(p)
      /\ \A d \in StillToCome(p, q) : d \in InTransit(p)
      /\ \A d \in InTransit(p) : d = c \/ d \in StillToCome(p, q)
  BY ArrivingChunk
<1>4. /\ \A d \in StillToCome(p, q) : d.id # c.id
      /\ \A m \in Range(partial_outgoing_message_[p]) : m.id # c.id
  BY GatheredWhole
<1>5. Arrived(p)' = a + 1 /\ handed'[q][a + 1] = Whole(p, a + 1) /\ \A i \in 1 .. a : handed'[q][i] = handed[q][i]
  <2>1. PICK H : handed[q] \in Seq(H)
    BY DEF TypeOK
  <2>2. PICK w : w = Whole(p, c.id)
    OBVIOUS
  <2>3. PICK g \in Seq(H) : g = handed[q]
    BY <2>1
  <2>4. Len(g) = a
    BY <1>2, <2>3 DEF Arrived
  <2>5. Len(Append(g, w)) = a + 1 /\ Append(g, w)[a + 1] = w /\ \A i \in 1 .. a : Append(g, w)[i] = g[i]
    BY <2>3, <2>4
  <2>6. QED
    BY <1>2, <2>2, <2>3, <2>5 DEF Arrived
<1>6. /\ \A i : Whole(p, i)' = Whole(p, i) /\ Unsent(p, i)' = Unsent(p, i)
      /\ \A d : OfLog(p, d)' <=> OfLog(p, d)
  BY DEF Whole, Unsent, OfLog
<1>7. ArrivedWhole(p)'
  <2>1. \A i \in 1 .. a : handed[q][i] = Whole(p, i)
    BY <1>2 DEF Pipe, ArrivedWhole
  <2>2. \A i \in 1 .. (a + 1) : i \in 1 .. a \/ i = a + 1
    OBVIOUS
  <2>3. \A i \in 1 .. (a + 1) : handed'[q][i] = Whole(p, i)'
    BY <1>5, <1>6, <2>1, <2>2
  <2>4. a + 1 <= Len(log'[p])
    BY <1>2
  <2>5. QED
    BY <1>5, <2>3, <2>4 DEF ArrivedWhole
<1>8. SizesLimited(p)'
  BY DEF Pipe, SizesLimited
<1>9. ASSUME NEW d, d.id > a, d.id # c.id, d.id \in Nat PROVE d.id > a + 1
  BY <1>2, <1>9
<1>10. RestToCome(p)'
  <2>1. ASSUME NEW d \in StillToCome(p, q)
        PROVE  /\ OfLog(p, d) /\ d.id > a + 1 /\ d.units > 0
               /\ d.empty <=> log[p][d.id].size = 0
               /\ d.empty => d.eor
    <3>1. d \in InTransit(p) /\ d.id # c.id
      BY <1>3, <1>4, <2>1
    <3>2. d.id \in Nat
      <4>1. d \in DataChunk
        BY <3>1, TransitTyped
      <4>2. QED
        BY <4>1 DEF DataChunk
    <3>3. /\ OfLog(p, d) /\ d.id > a /\ d.units > 0
          /\ d.empty <=> log[p][d.id].size = 0
          /\ d.empty => d.eor
      BY <1>2, <3>1 DEF Pipe, RestToCome
    <3>4. d.id > a + 1
      BY <1>9, <3>1, <3>2, <3>3
    <3>5. QED
      BY <3>3, <3>4
  <2>2. Range(partial_incoming_message_'[q]) = {}
    BY DEF Range
  <2>3. QED
    BY <1>1, <1>5, <1>6, <2>1, <2>2 DEF RestToCome
<1>11. BufferedLast(p)'
  <2>1. ASSUME NEW m \in Range(partial_outgoing_message_[p])
        PROVE  /\ OfLog(p, m) /\ m.id = Len(log[p]) /\ m.id > a + 1
               /\ \A d \in StillToCome(p, q) : d.id = m.id => ~d.eor
    <3>1. /\ OfLog(p, m) /\ m.id = Len(log[p]) /\ m.id > a
          /\ \A d \in InTransit(p) : d.id = m.id => ~d.eor
      BY <1>2, <2>1 DEF Pipe, BufferedLast
    <3>2. m.id \in Nat
      BY <1>2, <3>1
    <3>3. m.id > a + 1
      BY <1>4, <1>9, <2>1, <3>1, <3>2
    <3>4. QED
      BY <1>3, <3>1, <3>3
  <2>2. QED
    BY <1>1, <1>5, <1>6, <2>1 DEF BufferedLast
<1>12. \A i \in ((a + 1) + 1) .. n : i \in (a + 1) .. n /\ i # c.id
  BY <1>2
<1>13. LastToCome(p)'
  <2>1. SUFFICES ASSUME NEW i \in ((a + 1) + 1) .. n
        PROVE  \/ \E m \in Range(partial_outgoing_message_[p]) : m.id = i
               \/ \E d \in StillToCome(p, q) : d.id = i /\ d.eor
    BY <1>1, <1>2, <1>5 DEF LastToCome
  <2>2. i \in (Arrived(p) + 1) .. Len(log[p]) /\ i # c.id
    BY <1>2, <1>12, <2>1
  <2>3. \/ \E m \in Range(partial_outgoing_message_[p]) : m.id = i
        \/ \E d \in InTransit(p) : d.id = i /\ d.eor
    BY <2>2 DEF Pipe, LastToCome
  <2>4. QED
    BY <1>3, <2>2, <2>3
<1>14. SumsToSize(p)'
  <2>1. SUFFICES ASSUME NEW i \in ((a + 1) + 1) .. n
        PROVE  Kept(p, i)' + Parts(tasks'[q], i) + Parts(out[p], i) + Unsent(p, i) = log[p][i].size
    BY <1>2, <1>5, <1>6 DEF SumsToSize
  <2>2. i \in (Arrived(p) + 1) .. Len(log[p]) /\ i # c.id
    BY <1>2, <1>12, <2>1
  <2>3. Kept(p, i)' = 0 /\ Kept(p, i) = 0
    <3>1. Held(partial_incoming_message_'[q]) = 0
      BY EmptyHeld
    <3>2. Kept(p, i)' = 0
      BY <3>1 DEF Kept
    <3>3. Kept(p, i) = 0
      BY <1>2, <2>2 DEF Kept
    <3>4. QED
      BY <3>2, <3>3
  <2>4. Parts(tasks'[q], i) = Parts(tasks[q], i)
    <3>1. Share(c, i) = 0
      BY <2>2 DEF Share
    <3>2. PICK k \in Nat : k = Parts(Tail(tasks[q]), i) /\ Parts(tasks[q], i) = 0 + k
      BY <3>1, QueuesMeasured, PartsTail
    <3>3. QED
      BY <3>2
  <2>5. Kept(p, i) + Parts(tasks[q], i) + Parts(out[p], i) + Unsent(p, i) = log[p][i].size
    BY <2>2 DEF Pipe, SumsToSize
  <2>6. QED
    BY <2>3, <2>4, <2>5, Zenon
<1>15. QED
  BY <1>1, <1>7, <1>8, <1>10, <1>11, <1>13, <1>14 DEF Pipe

\* OnDataFromSctp puts a message together again, and nothing but that.
LEMMA DataFromSctpPipe ==
    ASSUME Typed, PipeInv, NEW q \in Peers, OnDataFromSctp(q)
    PROVE  \A r \in Peers : Pipe(r)'
<1>1. PICK p \in Peers : p = Peer(q) /\ q = Peer(p) /\ q # p /\ \A r \in Peers : r = p \/ r = q
  BY PeerFacts
<1>2. TypeOK /\ Pipe(p) /\ Pipe(q)
  BY DEF PipeInv, Pipe, Typed
<1>3. UNCHANGED <<log, partial_outgoing_message_, out>>
  BY DEF OnDataFromSctp, association
<1>4. /\ tasks[q] # <<>> /\ tasks'[q] = Tail(tasks[q]) /\ tasks'[p] = tasks[p]
      /\ Head(tasks[q]) \in Task /\ Head(tasks[q]).kind = "data"
  BY <1>1, <1>2, CallbackEffect DEF OnDataFromSctp
<1>5. PICK c \in DataChunk : c = Head(tasks[q])
  BY <1>4, KindsOfTask
<1>6. PICK kept \in Seq(DataChunk) : kept = partial_incoming_message_[q]
  BY <1>2, QueuesMeasured
<1>7. kept # <<>> => Head(kept).sid = c.sid
  <2>1. SUFFICES ASSUME kept # <<>> PROVE Head(kept).sid = c.sid
    OBVIOUS
  <2>2. Head(kept) \in Range(kept)
    BY <2>1, RangeTail
  <2>3. OfLog(p, Head(kept)) /\ Head(kept).id = Arrived(p) + 1
    BY <1>1, <1>2, <1>6, <2>2 DEF Pipe, RestToCome
  <2>4. c.id = Arrived(p) + 1 /\ c \in InTransit(p)
    BY <1>1, <1>2, <1>4, <1>5, ArrivingChunk
  <2>5. OfLog(p, c)
    BY <1>2, <2>4 DEF Pipe, RestToCome
  <2>6. QED
    BY <2>3, <2>4, <2>5 DEF OfLog
<1>8. PICK message : message = Gathered(kept, c)
  OBVIOUS
<1>9. PICK size : size = Held(message)
  OBVIOUS
<1>10. PICK h : h = [sid |-> c.sid, size |-> size, ids |-> {d.id : d \in Range(message)} \cup {c.id}]
  OBVIOUS
<1>11. IF ~c.eor /\ size < kSctpSendBufferSize
       THEN /\ partial_incoming_message_' = [partial_incoming_message_ EXCEPT ![q] = message]
            /\ UNCHANGED handed
       ELSE /\ partial_incoming_message_' = [partial_incoming_message_ EXCEPT ![q] = <<>>]
            /\ handed' = [handed EXCEPT ![q] = Append(@, h)]
  <2>1. kept = IF kept # <<>> /\ Head(kept).sid # c.sid THEN <<>> ELSE kept
    BY <1>7, Zenon
  <2>2. message = IF c.empty THEN kept ELSE Append(kept, c)
    BY <1>8 DEF Gathered
  <2>3. QED
    BY <1>5, <1>6, <1>9, <1>10, <2>1, <2>2 DEF OnDataFromSctp
<1>12. CASE ~c.eor
  <2>1. size < kSctpSendBufferSize
    BY <1>1, <1>2, <1>4, <1>5, <1>6, <1>8, <1>9, <1>12, RoomToGather
  <2>2. /\ partial_incoming_message_' = [partial_incoming_message_ EXCEPT ![q] = message]
        /\ UNCHANGED handed
    BY <1>11, <1>12, <2>1
  <2>3. /\ partial_incoming_message_'[q] = message
        /\ partial_incoming_message_'[p] = partial_incoming_message_[p]
    BY <1>1, <1>2, <2>2 DEF TypeOK
  <2>4. Pipe(q)'
    BY <1>1, <1>2, <1>3, <1>4, <2>2, <2>3, SameDataRefl, PipeCalm
  <2>5. Pipe(p)'
    BY <1>1, <1>2, <1>3, <1>4, <1>5, <1>6, <1>8, <1>12, <2>2, <2>3, PipeKept
  <2>6. QED
    BY <1>1, <2>4, <2>5
<1>13. CASE c.eor
  <2>1. /\ partial_incoming_message_' = [partial_incoming_message_ EXCEPT ![q] = <<>>]
        /\ handed' = [handed EXCEPT ![q] = Append(@, h)]
    BY <1>11, <1>13
  <2>2. /\ partial_incoming_message_'[q] = <<>> /\ handed'[q] = Append(handed[q], h)
        /\ partial_incoming_message_'[p] = partial_incoming_message_[p] /\ handed'[p] = handed[p]
    BY <1>1, <1>2, <2>1 DEF TypeOK
  <2>3. /\ Held(message) = log[p][c.id].size /\ c.sid = log[p][c.id].sid
        /\ {d.id : d \in Range(message)} \cup {c.id} = {c.id}
    <3>1. /\ Held(Gathered(partial_incoming_message_[q], c)) = log[p][c.id].size
          /\ \A d \in Range(Gathered(partial_incoming_message_[q], c)) : d.id = c.id
          /\ c.sid = log[p][c.id].sid
      BY <1>1, <1>2, <1>4, <1>5, <1>13, GatheredWhole
    <3>2. message = Gathered(partial_incoming_message_[q], c)
      BY <1>6, <1>8
    <3>3. \A d \in Range(message) : d.id = c.id
      BY <3>1, <3>2, Zenon
    <3>4. {d.id : d \in Range(message)} \cup {c.id} = {c.id}
      BY <3>3
    <3>5. QED
      BY <3>1, <3>2, <3>4, Zenon
  <2>4. h = Whole(p, c.id)
    BY <1>9, <1>10, <2>3, Zenon DEF Whole
  <2>5. Pipe(q)'
    BY <1>1, <1>2, <1>3, <1>4, <2>2, SameDataRefl, PipeCalm
  <2>6. Pipe(p)'
    BY <1>1, <1>2, <1>3, <1>4, <1>5, <1>13, <2>2, <2>4, PipeHanded
  <2>7. QED
    BY <1>1, <2>5, <2>6
<1>14. QED
  BY <1>12, <1>13

-----------------------------------------------------------------------------
(* The steps that move no data.                                              *)

LEMMA CalmPipes ==
    ASSUME PipeInv,
           UNCHANGED <<log, handed, partial_outgoing_message_, partial_incoming_message_>>,
           \A r \in Peers : SameData(out'[r], out[r]) /\ SameData(tasks'[r], tasks[r])
    PROVE  \A r \in Peers : Pipe(r)'
<1>1. SUFFICES ASSUME NEW p \in Peers PROVE Pipe(p)'
  OBVIOUS
<1>2. PICK q \in Peers : q = Peer(p)
  BY PeerFacts
<1>3. Pipe(p)
  BY DEF PipeInv, Pipe
<1>4. QED
  BY <1>2, <1>3, PipeCalm

LEMMA QuietPipe ==
    ASSUME Typed, PipeInv, NEW p \in Peers,
           \/ \E limit \in Limits[p] : Start(p, limit)
           \/ \E s \in Sids : OpenStream(p, s)
           \/ OnWritableState(p) \/ SendDataBlocked(p) \/ OnSenderDry(p)
    PROVE  \A r \in Peers : Pipe(r)'
<1>1. UNCHANGED <<log, handed, partial_outgoing_message_, partial_incoming_message_, out>>
  BY DEF Start, OpenStream, OnWritableState, SendDataBlocked, OnSenderDry, history, association
<1>2. \A r \in Peers : SameData(tasks'[r], tasks[r])
  <2>1. CASE OnSenderDry(p)
    BY <2>1, CallbackData DEF OnSenderDry, Typed
  <2>2. CASE ~OnSenderDry(p)
    <3>1. UNCHANGED tasks
      BY <2>2 DEF Start, OpenStream, OnWritableState, SendDataBlocked
    <3>2. QED
      BY <3>1, SameDataRefl
  <2>3. QED
    BY <2>1, <2>2
<1>3. \A r \in Peers : SameData(out'[r], out[r])
  BY <1>1, SameDataRefl
<1>4. QED
  BY <1>1, <1>2, <1>3, CalmPipes

\* A request to reset streams leaves the queue of p.
LEMMA RequestTaken ==
    ASSUME TypeOK, NEW p \in Peers, out[p] # <<>>, Head(out[p]).kind = "reset",
           out' = [out EXCEPT ![p] = Tail(@)]
    PROVE  \A r \in Peers : SameData(out'[r], out[r])
<1>1. /\ out[p] \in Seq(Chunk) /\ out'[p] = Tail(out[p])
      /\ \A r \in Peers : r # p => out'[r] = out[r]
  BY DEF TypeOK
<1>2. SameData(out'[p], out[p])
  BY <1>1, QueuesMeasured, SameDataTail
<1>3. QED
  BY <1>1, <1>2, SameDataRefl

LEMMA UsrsctpPipe ==
    ASSUME Typed, PipeInv, NEW p \in Peers,
           CommUp \/ AnswerReset(p) \/ FailReset(p) \/ ConveyReset(p)
    PROVE  \A r \in Peers : Pipe(r)'
<1>1. /\ TypeOK
      /\ UNCHANGED <<log, handed, partial_outgoing_message_, partial_incoming_message_>>
  BY DEF CommUp, AnswerReset, FailReset, ConveyReset, history, Typed
<1>2. CASE CommUp
  <2>1. PICK n \in Notices : \A r \in Peers : tasks'[r] = Append(tasks[r], n)
    BY <1>1, <1>2, CommUpEffect
  <2>2. n \in Task /\ n.kind # "data"
    BY DEF Notices, Task
  <2>3. \A r \in Peers : tasks[r] \in Seq(Task) /\ Measured(tasks[r])
    BY <1>1, QueuesMeasured DEF TypeOK
  <2>4. \A r \in Peers : SameData(tasks'[r], tasks[r])
    BY <2>1, <2>2, <2>3, SameDataAppended
  <2>5. \A r \in Peers : SameData(out'[r], out[r])
    BY <1>2, SameDataRefl DEF CommUp
  <2>6. QED
    BY <1>1, <2>4, <2>5, CalmPipes
<1>3. CASE AnswerReset(p)
  <2>1. PICK e \in Task : e = [kind |-> "outgoing", sids |-> resetting[p].sids]
    <3>1. resetting[p].sids \in SUBSET Sids
      BY <1>1 DEF TypeOK
    <3>2. QED
      BY <3>1 DEF Task
  <2>2. e.kind # "data" /\ tasks' = Posted(p, <<e>>)
    BY <1>3, <2>1 DEF AnswerReset
  <2>3. \A r \in Peers : SameData(tasks'[r], tasks[r])
    BY <1>1, <2>2, PostedData
  <2>4. \A r \in Peers : SameData(out'[r], out[r])
    BY <1>3, SameDataRefl DEF AnswerReset
  <2>5. QED
    BY <1>1, <2>3, <2>4, CalmPipes
<1>4. CASE FailReset(p)
  <2>1. PICK e \in Task : e = [kind |-> "failed"]
    BY DEF Task
  <2>2. e.kind # "data" /\ tasks' = Posted(p, <<e>>)
    BY <1>4, <2>1 DEF FailReset
  <2>3. \A r \in Peers : SameData(tasks'[r], tasks[r])
    BY <1>1, <2>2, PostedData
  <2>4. out[p] # <<>> /\ Head(out[p]).kind = "reset" /\ out' = [out EXCEPT ![p] = Tail(@)]
    BY <1>4 DEF FailReset
  <2>5. \A r \in Peers : SameData(out'[r], out[r])
    BY <1>1, <2>4, RequestTaken
  <2>6. QED
    BY <1>1, <2>3, <2>5, CalmPipes
<1>5. CASE ConveyReset(p)
  <2>1. PICK q \in Peers : q = Peer(p)
    BY PeerFacts
  <2>2. /\ out[p] # <<>> /\ Head(out[p]).kind = "reset" /\ out' = [out EXCEPT ![p] = Tail(@)]
        /\ tasks' = Posted(q, <<[kind |-> "incoming", sids |-> Head(out[p]).sids]>>)
    BY <1>5, <2>1 DEF ConveyReset
  <2>3. PICK e \in Task : e = [kind |-> "incoming", sids |-> Head(out[p]).sids]
    <3>1. PICK sids \in SUBSET Sids : sids = Head(out[p]).sids
      BY <1>1, <2>2, RequestAtHead
    <3>2. QED
      BY <3>1 DEF Task
  <2>4. e.kind # "data" /\ tasks' = Posted(q, <<e>>)
    BY <2>2, <2>3
  <2>5. \A r \in Peers : SameData(tasks'[r], tasks[r])
    BY <1>1, <2>4, PostedData
  <2>6. \A r \in Peers : SameData(out'[r], out[r])
    BY <1>1, <2>2, RequestTaken
  <2>7. QED
    BY <1>1, <2>5, <2>6, CalmPipes
<1>6. QED
  BY <1>2, <1>3, <1>4, <1>5

\* The calls and callbacks that may ask usrsctp for a reset.
LEMMA ResettingPipe ==
    ASSUME Typed, PipeInv, NEW p \in Peers,
           \/ \E s \in Sids : ResetStream(p, s)
           \/ OnNotificationAssocChange(p) \/ OnStreamResetFailed(p)
           \/ \E kind \in {"incoming", "outgoing"} : OnStreamResetEvent(p, kind)
    PROVE  \A r \in Peers : Pipe(r)'
<1>1. TypeOK /\ out[p] \in Seq(Chunk) /\ Measured(out[p])
  BY QueuesMeasured DEF Typed, TypeOK
<1>2. UNCHANGED <<log, handed, partial_outgoing_message_, partial_incoming_message_>>
  BY DEF ResetStream, OnNotificationAssocChange, OnStreamResetFailed, OnStreamResetEvent, history
<1>3. \A r \in Peers : SameData(tasks'[r], tasks[r])
  <2>1. CASE \E s \in Sids : ResetStream(p, s)
    BY <2>1, SameDataRefl DEF ResetStream
  <2>2. ASSUME NEW kind \in {"up", "failed", "incoming", "outgoing"}, Callback(p, kind)
        PROVE  \A r \in Peers : SameData(tasks'[r], tasks[r])
    <3>1. kind # "data"
      OBVIOUS
    <3>2. QED
      BY <1>1, <2>2, <3>1, CallbackData
  <2>3. QED
    BY <2>1, <2>2 DEF OnNotificationAssocChange, OnStreamResetFailed, OnStreamResetEvent
<1>4. PICK status \in StatusMap :
          SendQueuedStreamResets(p, status, partial_outgoing_message_[p], out[p])
  <2>1. ASSUME NEW s \in Sids, ResetStream(p, s)
        PROVE  \E status \in StatusMap :
                   SendQueuedStreamResets(p, status, partial_outgoing_message_[p], out[p])
    <3>1. PICK status : status = [stream_status_by_sid_[p] EXCEPT ![s].closure_initiated = TRUE]
      OBVIOUS
    <3>2. SendQueuedStreamResets(p, status, partial_outgoing_message_[p], out[p]) /\ Open(p, s)
      BY <2>1, <3>1 DEF ResetStream
    <3>3. status \in StatusMap
      BY <1>1, <3>1, <3>2, MapsTyped DEF Open
    <3>4. QED
      BY <3>2, <3>3
  <2>2. CASE OnNotificationAssocChange(p)
    BY <1>1, <2>2, MapsTyped DEF OnNotificationAssocChange
  <2>3. CASE OnStreamResetFailed(p)
    <3>1. PICK status \in StatusMap :
              status = [s \in DOMAIN stream_status_by_sid_[p] |->
                           [stream_status_by_sid_[p][s] EXCEPT !.outgoing_reset_initiated = FALSE]]
      BY <1>1, MapsTyped, Zenon
    <3>2. QED
      BY <2>3, <3>1 DEF OnStreamResetFailed
  <2>4. ASSUME NEW kind \in {"incoming", "outgoing"}, OnStreamResetEvent(p, kind)
        PROVE  \E status \in StatusMap :
                   SendQueuedStreamResets(p, status, partial_outgoing_message_[p], out[p])
    <3>1. PICK incoming : incoming = (kind = "incoming")
      OBVIOUS
    <3>2. PICK status \in StatusMap :
              status = WithoutClosed(Marked(stream_status_by_sid_[p], Head(tasks[p]).sids, incoming))
      BY <1>1, MapsTyped, Zenon
    <3>3. SendQueuedStreamResets(p, status, partial_outgoing_message_[p], out[p])
      BY <2>4, <3>1, <3>2, Zenon DEF OnStreamResetEvent
    <3>4. QED
      BY <3>3
  <2>5. QED
    BY <2>1, <2>2, <2>3, <2>4
<1>5. SameData(out'[p], out[p]) /\ \A r \in Peers : r # p => out'[r] = out[r]
  BY <1>1, <1>4, ResetsData
<1>6. \A r \in Peers : SameData(out'[r], out[r])
  BY <1>5, SameDataRefl
<1>7. QED
  BY <1>2, <1>3, <1>6, CalmPipes

-----------------------------------------------------------------------------
(* The theorems.                                                             *)

LEMMA InitPipe ==
    ASSUME Init
    PROVE  PipeInv
<1>1. max_message_size_ \in [Peers -> 0 .. kSctpSendBufferSize]
  BY SctpConstants DEF Init
<1>2. ASSUME NEW p \in Peers PROVE Pipe(p)
  <2>1. PICK q \in Peers : q = Peer(p)
    BY PeerFacts
  <2>2. /\ out[p] = <<>> /\ tasks[q] = <<>> /\ log[p] = <<>> /\ handed[q] = <<>>
        /\ partial_outgoing_message_[p] = <<>> /\ partial_incoming_message_[q] = <<>>
    BY DEF Init
  <2>3. Range(<<>>) = {} /\ DOMAIN <<>> = {} /\ Len(<<>>) = 0
    BY DEF Range
  <2>4. Data(out[p]) = {} /\ Data(tasks[q]) = {} /\ InTransit(p) = {} /\ Arrived(p) = 0
    BY <2>1, <2>2, <2>3 DEF InTransit, Data, Arrived
  <2>5. ArrivedWhole(p) /\ SizesLimited(p)
    BY <2>2, <2>3, <2>4 DEF ArrivedWhole, SizesLimited
  <2>6. RestToCome(p) /\ BufferedLast(p) /\ InOrder(p)
    BY <2>1, <2>2, <2>3, <2>4 DEF RestToCome, BufferedLast, InOrder
  <2>7. LastToCome(p) /\ SumsToSize(p)
    <3>1. (Arrived(p) + 1) .. Len(log[p]) = {}
      BY <2>2, <2>3, <2>4
    <3>2. QED
      BY <3>1 DEF LastToCome, SumsToSize
  <2>8. QED
    BY <2>5, <2>6, <2>7 DEF Pipe
<1>3. QED
  BY <1>1, <1>2 DEF PipeInv, Pipe

\* Only Start changes the maximal message size, and not beyond the buffer.
LEMMA LimitsKept ==
    ASSUME PipeInv, [Next]_vars
    PROVE  max_message_size_' \in [Peers -> 0 .. kSctpSendBufferSize]
<1>1. ASSUME NEW p \in Peers, NEW limit \in Limits[p], Start(p, limit)
      PROVE  max_message_size_' \in [Peers -> 0 .. kSctpSendBufferSize]
  <2>1. limit \in 0 .. kSctpSendBufferSize
    BY SctpConstants
  <2>2. max_message_size_' = [max_message_size_ EXCEPT ![p] = limit]
    BY <1>1 DEF Start
  <2>3. QED
    BY <2>1, <2>2 DEF PipeInv
<1>2. CASE UNCHANGED max_message_size_
  BY <1>2 DEF PipeInv
<1>3. ASSUME NEW p \in Peers, Application(p), ~\E limit \in Limits[p] : Start(p, limit)
      PROVE  UNCHANGED max_message_size_
  BY <1>3 DEF Application, OnWritableState, OpenStream, ResetStream, SendData, SendDataBlocked,
              connection
<1>4. ASSUME NEW p \in Peers, Usrsctp(p) \/ FailReset(p) \/ CommUp
      PROVE  UNCHANGED max_message_size_
  BY <1>4 DEF Usrsctp, ConveyData, ConveyReset, AnswerReset, FailReset, CommUp, connection
<1>5. ASSUME NEW p \in Peers, NetworkThread(p) PROVE UNCHANGED max_message_size_
  BY <1>5 DEF NetworkThread, OnNotificationAssocChange, OnSenderDry, OnSendThresholdCallback,
              OnDataFromSctp, OnStreamResetFailed, OnStreamResetEvent, connection
<1>6. PICK p \in Peers : TRUE
  BY SctpConstants
<1>7. CASE UNCHANGED vars
  BY <1>2, <1>7 DEF vars, connection
<1>8. QED
  BY <1>1, <1>2, <1>3, <1>4, <1>5, <1>6, <1>7 DEF Next

LEMMA NextPipe ==
    ASSUME Typed, PipeInv, [Next]_vars
    PROVE  PipeInv'
<1>1. CASE UNCHANGED vars
  <2>1. /\ UNCHANGED <<log, handed, partial_outgoing_message_, partial_incoming_message_>>
        /\ UNCHANGED <<out, tasks>>
    BY <1>1 DEF vars, association, history
  <2>2. \A r \in Peers : SameData(out'[r], out[r]) /\ SameData(tasks'[r], tasks[r])
    BY <2>1, SameDataRefl
  <2>3. \A r \in Peers : Pipe(r)'
    BY <2>1, <2>2, CalmPipes
  <2>4. QED
    BY <2>3, LimitsKept DEF PipeInv, Pipe
<1>2. CASE CommUp
  <2>1. PICK p \in Peers : TRUE
    BY SctpConstants
  <2>2. \A r \in Peers : Pipe(r)'
    BY <1>2, <2>1, UsrsctpPipe
  <2>3. QED
    BY <2>2, LimitsKept DEF PipeInv, Pipe
<1>3. ASSUME NEW p \in Peers, Application(p) PROVE \A r \in Peers : Pipe(r)'
  <2>1. CASE \/ \E limit \in Limits[p] : Start(p, limit)
             \/ \E s \in Sids : OpenStream(p, s)
             \/ OnWritableState(p) \/ SendDataBlocked(p)
    BY <2>1, QuietPipe
  <2>2. CASE \E s \in Sids : ResetStream(p, s)
    BY <2>2, ResettingPipe
  <2>3. ASSUME NEW w \in Writers, SendData(p, w[2], w[3]) PROVE \A r \in Peers : Pipe(r)'
    <3>1. w[2] \in Sids /\ w[3] \in Nat
      BY SctpConstants
    <3>2. QED
      BY <2>3, <3>1, SendDataPipe
  <2>4. QED
    BY <1>3, <2>1, <2>2, <2>3 DEF Application
<1>4. ASSUME NEW p \in Peers, Usrsctp(p) \/ FailReset(p) PROVE \A r \in Peers : Pipe(r)'
  BY <1>4, UsrsctpPipe, ConveyDataPipe DEF Usrsctp
<1>5. ASSUME NEW p \in Peers, NetworkThread(p) PROVE \A r \in Peers : Pipe(r)'
  BY <1>5, ResettingPipe, QuietPipe, ThresholdPipe, DataFromSctpPipe DEF NetworkThread
<1>6. CASE \E p \in Peers : Application(p) \/ Usrsctp(p) \/ FailReset(p) \/ NetworkThread(p)
  <2>1. \A r \in Peers : Pipe(r)'
    BY <1>3, <1>4, <1>5, <1>6
  <2>2. QED
    BY <2>1, LimitsKept DEF PipeInv, Pipe
<1>7. QED
  BY <1>1, <1>2, <1>6 DEF Next

\* The account of every message on its way (lines 748 and 1257): the messages
\* handed out are the first of those that usrsctp took, and of each later one
\* the parts kept, posted, given to usrsctp and still buffered add up to its
\* size, in their order and with one last part.
THEOREM MessagesAccounted == Spec => []PipeInv
<1>1. Init => PipeInv
  BY InitPipe
<1>2. Typed /\ PipeInv /\ [Next]_vars => PipeInv'
  BY NextPipe
<1>3. Spec => []Typed
  BY SctpTyped
<1>4. QED
  BY <1>1, <1>2, <1>3, PTL DEF Spec

\* Messages that usrsctp took in parts are handed out whole, each once and in
\* the order of its stream (lines 748 and 1257), for every size of the buffer,
\* every pattern of writers and whatever the resets do.
THEOREM MessagesHandedOutWhole == Spec => []MessagesArriveWhole
<1>1. Typed /\ PipeInv => MessagesArriveWhole
  <2>1. SUFFICES ASSUME Typed, PipeInv, NEW p \in Peers, NEW k \in DOMAIN handed[Peer(p)]
                 PROVE  \E i \in DOMAIN log[p] :
                            /\ handed[Peer(p)][k] = Whole(p, i)
                            /\ \A l \in 1 .. (k - 1) : i \notin handed[Peer(p)][l].ids
                            /\ \A j \in 1 .. (i - 1) :
                                   log[p][j].sid = log[p][i].sid
                                   => \E l \in 1 .. (k - 1) : handed[Peer(p)][l].ids = {j}
    BY DEF MessagesArriveWhole
  <2>2. PICK q \in Peers : q = Peer(p)
    BY PeerFacts
  <2>3. PICK a \in Nat, n \in Nat :
            /\ a = Len(handed[q]) /\ n = Len(log[p])
            /\ DOMAIN handed[q] = 1 .. a /\ DOMAIN log[p] = 1 .. n
    <3>1. PICK H, L : handed[q] \in Seq(H) /\ log[p] \in Seq(L)
      BY <2>1, Zenon DEF Typed, TypeOK
    <3>2. /\ Len(handed[q]) \in Nat /\ DOMAIN handed[q] = 1 .. Len(handed[q])
          /\ Len(log[p]) \in Nat /\ DOMAIN log[p] = 1 .. Len(log[p])
      BY <3>1
    <3>3. QED
      BY <3>2
  <2>4. a <= n /\ \A i \in 1 .. a : handed[q][i] = Whole(p, i)
    BY <2>1, <2>2, <2>3 DEF PipeInv, ArrivedWhole, Arrived
  <2>5. k \in 1 .. a /\ k \in DOMAIN log[p]
    BY <2>1, <2>2, <2>3, <2>4
  <2>6. \A l \in 1 .. (k - 1) : l \in 1 .. a /\ l # k
    BY <2>3, <2>5
  <2>7. \A l \in 1 .. (k - 1) : handed[q][l].ids = {l}
    <3>1. \A l : Whole(p, l).ids = {l}
      BY DEF Whole
    <3>2. QED
      BY <2>4, <2>6, <3>1
  <2>8. \A l \in 1 .. (k - 1) : k \notin handed[q][l].ids
    BY <2>6, <2>7
  <2>9. \A j \in 1 .. (k - 1) : \E l \in 1 .. (k - 1) : handed[q][l].ids = {j}
    BY <2>7
  <2>10. QED
    BY <2>2, <2>4, <2>5, <2>8, <2>9
<1>2. Spec => []Typed
  BY SctpTyped
<1>3. Spec => []PipeInv
  BY MessagesAccounted
<1>4. QED
  BY <1>1, <1>2, <1>3, PTL

Threshold == {"threshold"}

-----------------------------------------------------------------------------
(* Callbacks in a queue, and what a queue holds.                             *)

LEMMA PendingAppended ==
    ASSUME NEW S, NEW t \in Seq(S), NEW e \in S, NEW kinds
    PROVE  Pending(Append(t, e), kinds) <=> Pending(t, kinds) \/ e.kind \in kinds
<1>1. Range(Append(t, e)) = Range(t) \cup {e}
  BY RangeAppended
<1>2. QED
  BY <1>1 DEF Pending

LEMMA PendingTail ==
    ASSUME NEW S, NEW t \in Seq(S), t # <<>>, NEW kinds, Head(t).kind \notin kinds
    PROVE  Pending(Tail(t), kinds) <=> Pending(t, kinds)
<1>1. Range(t) = Range(Tail(t)) \cup {Head(t)}
  BY RangeTail
<1>2. QED
  BY <1>1 DEF Pending

LEMMA PendingPosted ==
    ASSUME NEW t, NEW e, Range(t) \subseteq Range(e), NEW kinds, Pending(t, kinds)
    PROVE  Pending(e, kinds)
BY DEF Pending

LEMMA OutHeld ==
    ASSUME TypeOK, NEW p \in Peers
    PROVE  out[p] \in Seq(Chunk) /\ Measured(out[p]) /\ Held(out[p]) \in Nat
<1>1. PICK o \in Seq(Chunk) : o = out[p]
  BY DEF TypeOK
<1>2. Measured(o)
  BY DEF Measured, Chunk, DataChunk
<1>3. QED
  BY <1>1, <1>2, HeldTyped

\* usrsctp takes nothing of a message that it could take only if it is full.
LEMMA NothingTaken ==
    ASSUME Typed, NEW p \in Peers, NEW m, m.left \in Nat, Sendable(p, m), Taken(p, m) = 0
    PROVE  Held(out[p]) > 0
<1>1. PICK h \in Nat : h = Held(out[p])
  BY OutHeld DEF Typed
<1>2. PICK k \in Nat : k = kSctpSendBufferSize /\ k > 0
  BY SctpConstants
<1>3. PICK d \in Nat : d = DataLength(m) /\ d > 0
  BY DEF DataLength
<1>4. PICK b \in Int : b = k - h
  OBVIOUS
<1>5. Taken(p, m) = Min({d, b})
  BY <1>1, <1>2, <1>3, <1>4, Zenon DEF Taken
<1>6. Min({d, b}) \in {d, b}
  <2>1. d \in Int
    OBVIOUS
  <2>2. QED
    BY <2>1, LeastOfTwo, Zenon
<1>7. b = 0
  BY <1>3, <1>5, <1>6
<1>8. QED
  BY <1>1, <1>2, <1>4, <1>7

\* A queue with a chunk more holds something.
LEMMA SentHeld ==
    ASSUME Typed, NEW p \in Peers, NEW m, m.left \in Nat, m.sid \in Sids, m.id \in Nat
    PROVE  /\ Taken(p, m) > 0 => Held(SentOn(p, m)) > 0
           /\ Held(out[p]) > 0 => Held(SentOn(p, m)) > 0
<1>1. PICK h \in Nat : h = Held(out[p])
  BY OutHeld DEF Typed
<1>2. CASE Taken(p, m) = 0 /\ SentOn(p, m) = out[p]
  BY <1>2
<1>3. ASSUME NEW c \in DataChunk, SentOn(p, m) = Append(out[p], c), c.kind = "data",
             c.units \in Nat, c.units > 0
      PROVE  Held(SentOn(p, m)) > 0
  <2>1. PICK n \in Nat : n = c.units /\ n > 0
    BY <1>3
  <2>2. c \in Chunk /\ out[p] \in Seq(Chunk) /\ Measured(out[p])
    BY OutHeld DEF Typed, Chunk
  <2>3. Held(Append(out[p], c)) = Held(out[p]) + n
    BY <1>3, <2>1, <2>2, HeldAppend
  <2>4. QED
    BY <1>1, <1>3, <2>1, <2>3
<1>4. QED
  BY <1>2, <1>3, SentOnIs

-----------------------------------------------------------------------------
(* Writers                                                                   *)

Awake(p) == StartedFirst(p) /\ WriterWoken(p)

\* A step that takes no callback and no data away from a waiting writer.
LEMMA AwakeKept ==
    ASSUME NEW p \in Peers, Awake(p),
           starts'[p] = starts[p], sock_'[p] = sock_[p],
           max_message_size_'[p] = max_message_size_[p],
           partial_outgoing_message_'[p] = partial_outgoing_message_[p],
           up'[p] => sock_[p],
           ready_to_send_data_[p] /\ partial_outgoing_message_[p] = <<>> => ready_to_send_data_'[p],
           Held(out[p]) > 0 => Held(out'[p]) > 0 \/ Pending(tasks'[p], Threshold),
           Pending(tasks[p], Threshold) => Pending(tasks'[p], Threshold)
    PROVE  Awake(p)'
BY DEF Awake, StartedFirst, WriterWoken, Oversize, Threshold

\* The calls that start and connect an end.
LEMMA StartAwake ==
    ASSUME TypeOK, ConnectionOK, NEW p \in Peers, Awake(p), MaxStarts[p] \in 0 .. 2,
           (\E limit \in Limits[p] : Start(p, limit)) \/ OnWritableState(p)
    PROVE  ConnectionOK' /\ Awake(p)'
<1>1. Limits[p] \subseteq Nat
  BY SctpConstants
<1>2. /\ UNCHANGED <<partial_outgoing_message_, tasks, up, out>>
  BY DEF Start, OnWritableState, association
<1>3. ConnectionOK'
  <2>1. /\ sock_' \in [Peers -> BOOLEAN] /\ ready_to_send_data_' \in [Peers -> BOOLEAN]
    <3>1. CASE Connect(p)
      BY <3>1 DEF Connect, ConnectionOK
    <3>2. CASE UNCHANGED <<sock_, ready_to_send_data_>>
      BY <3>2 DEF ConnectionOK
    <3>3. QED
      BY <3>1, <3>2 DEF Start, OnWritableState
  <2>2. starts' \in [Peers -> Nat] /\ max_message_size_' \in [Peers -> Nat]
    <3>1. ASSUME NEW limit \in Limits[p], Start(p, limit)
          PROVE  starts' \in [Peers -> Nat] /\ max_message_size_' \in [Peers -> Nat]
      <4>1. limit \in Nat
        BY <1>1
      <4>2. /\ starts' = [starts EXCEPT ![p] = @ + 1]
            /\ max_message_size_' = [max_message_size_ EXCEPT ![p] = limit]
        BY <3>1 DEF Start
      <4>3. QED
        BY <4>1, <4>2 DEF ConnectionOK
    <3>2. CASE OnWritableState(p)
      BY <3>2 DEF OnWritableState, ConnectionOK
    <3>3. QED
      BY <3>1, <3>2
  <2>3. QED
    BY <1>2, <2>1, <2>2 DEF ConnectionOK
<1>4. starts[p] \in Nat /\ starts'[p] \in Nat
  BY <1>3 DEF ConnectionOK
<1>5. CASE partial_outgoing_message_[p] = <<>>
  <2>1. ~Oversize(p) /\ ~Oversize(p)'
    BY <1>2, <1>5 DEF Oversize, Range
  <2>2. /\ sock_[p] => sock_'[p] /\ starts'[p] >= 1 /\ (ready_to_send_data_[p] => ready_to_send_data_'[p])
        /\ sock_'[p] => sock_[p] \/ (ready_to_send_data_'[p] /\ starts'[p] >= 1)
    BY <1>4 DEF Start, OnWritableState, Connect, ConnectionOK, Awake, StartedFirst
  <2>3. StartedFirst(p)'
    BY <1>2, <1>5, <2>1, <2>2 DEF Awake, StartedFirst
  <2>4. WriterWoken(p)'
    BY <1>2, <1>5, <2>1, <2>2 DEF Awake, WriterWoken
  <2>5. QED
    BY <1>3, <2>3, <2>4 DEF Awake
<1>6. CASE partial_outgoing_message_[p] # <<>>
  <2>1. sock_[p] /\ starts[p] >= 1
    BY <1>6 DEF Awake, StartedFirst
  <2>2. starts'[p] >= starts[p] /\ sock_'[p]
    BY <1>4, <2>1 DEF Start, OnWritableState, Connect, ConnectionOK
  <2>3. ASSUME NEW limit \in Limits[p], Start(p, limit) PROVE ~Oversize(p) /\ starts'[p] >= 2
    BY <1>4, <2>1, <2>3 DEF Start, Awake, StartedFirst, ConnectionOK
  <2>4. CASE OnWritableState(p)
    <3>1. Oversize(p)' <=> Oversize(p)
      BY <1>2, <2>4 DEF OnWritableState, Oversize
    <3>2. QED
      BY <1>2, <1>3, <1>4, <1>6, <2>1, <2>2, <3>1 DEF Awake, StartedFirst, WriterWoken
  <2>5. ASSUME NEW limit \in Limits[p], Start(p, limit) PROVE Awake(p)'
    <3>1. StartedFirst(p)'
      BY <1>2, <1>4, <2>1, <2>2, <2>3, <2>5 DEF Awake, StartedFirst
    <3>2. WriterWoken(p)'
      BY <1>2, <1>6, <2>1, <2>3, <2>5 DEF Awake, WriterWoken
    <3>3. QED
      BY <3>1, <3>2 DEF Awake
  <2>6. QED
    BY <1>3, <2>4, <2>5
<1>7. QED
  BY <1>5, <1>6

\* usrsctp was given a message, or part of it.
LEMMA SendDataAwake ==
    ASSUME Typed, ConnectionOK, NEW p \in Peers, Awake(p), NEW s \in Sids, NEW size \in Nat,
           SendData(p, s, size)
    PROVE  Awake(p)'
<1>1. PICK m : m = [sid |-> s, id |-> Len(log[p]) + 1, left |-> size]
  OBVIOUS
<1>2. m.sid = s /\ m.sid \in Sids /\ m.id \in Nat /\ m.left = size /\ m.left \in Nat
  BY <1>1 DEF Typed, TypeOK
<1>3. /\ out' = [out EXCEPT ![p] = SentOn(p, m)] /\ partial_outgoing_message_[p] = <<>>
      /\ partial_outgoing_message_' = [partial_outgoing_message_ EXCEPT ![p] =
             IF Left(p, m) \in 1..(size - 1) THEN <<[m EXCEPT !.left = Left(p, m)]>> ELSE <<>>]
      /\ ready_to_send_data_' = [ready_to_send_data_ EXCEPT ![p] = @ /\ ~Blocked(p, m)]
      /\ UNCHANGED <<starts, sock_, max_message_size_, tasks, up>>
  BY <1>1 DEF SendData, connection
<1>4. /\ out'[p] = SentOn(p, m)
      /\ ready_to_send_data_'[p] = (ready_to_send_data_[p] /\ ~Blocked(p, m))
  BY <1>3 DEF Typed, TypeOK, ConnectionOK
<1>5. /\ Taken(p, m) \in Nat /\ DataLength(m) \in Nat /\ Left(p, m) \in Nat
      /\ Taken(p, m) > 0 => Held(out'[p]) > 0
      /\ Held(out[p]) > 0 => Held(out'[p]) > 0
  BY <1>2, <1>4, TakenFits, SentHeld DEF Typed
<1>6. Blocked(p, m) => Held(out'[p]) > 0
  BY <1>2, <1>5, NothingTaken DEF Blocked
<1>7. CASE Left(p, m) \in 1 .. (size - 1)
  <2>1. PICK x : x = [m EXCEPT !.left = Left(p, m)]
    OBVIOUS
  <2>2. x.left = Left(p, m) /\ partial_outgoing_message_'[p] = <<x>>
    BY <1>1, <1>3, <1>7, <2>1 DEF Typed, TypeOK
  <2>3. Range(partial_outgoing_message_'[p]) = {x}
    BY <2>2 DEF Range
  <2>4. Taken(p, m) > 0 /\ Sendable(p, m)
    <3>1. Taken(p, m) # 0
      BY <1>2, <1>5, <1>7 DEF Left
    <3>2. QED
      BY <1>5, <3>1 DEF Taken
  <2>5. sock_[p] /\ ~(x.left > max_message_size_'[p])
    <3>1. size <= max_message_size_[p] /\ sock_[p] /\ max_message_size_[p] \in Nat
      BY <1>2, <2>4 DEF Sendable, ConnectionOK
    <3>2. QED
      BY <1>3, <1>7, <2>2, <3>1
  <2>6. ~Oversize(p)'
    BY <2>3, <2>5 DEF Oversize
  <2>7. Held(out'[p]) > 0
    BY <1>5, <2>4
  <2>8. QED
    BY <1>3, <2>5, <2>6, <2>7 DEF Awake, StartedFirst, WriterWoken
<1>8. CASE Left(p, m) \notin 1 .. (size - 1)
  <2>1. partial_outgoing_message_'[p] = <<>>
    BY <1>3, <1>8 DEF Typed, TypeOK
  <2>2. ~Oversize(p)' /\ ~Oversize(p)
    BY <1>3, <2>1 DEF Oversize, Range
  <2>3. StartedFirst(p)'
    BY <1>3, <2>1, <2>2 DEF Awake, StartedFirst
  <2>4. WriterWoken(p)'
    BY <1>3, <1>4, <1>5, <1>6, <2>1, <2>2 DEF Awake, WriterWoken
  <2>5. QED
    BY <2>3, <2>4 DEF Awake
<1>9. QED
  BY <1>7, <1>8

\* There is room: what was buffered is sent on.
LEMMA ThresholdAwake ==
    ASSUME Typed, ConnectionOK, BufferedStreamKnown, NEW p \in Peers, Awake(p),
           OnSendThresholdCallback(p)
    PROVE  Awake(p)'
<1>1. UNCHANGED <<starts, sock_, max_message_size_, up>>
  BY DEF OnSendThresholdCallback, connection
<1>2. CASE partial_outgoing_message_[p] = <<>>
  <2>1. Range(partial_outgoing_message_[p]) = {}
    BY <1>2 DEF Range
  <2>2. /\ ready_to_send_data_' = [ready_to_send_data_ EXCEPT ![p] = TRUE]
        /\ partial_outgoing_message_' = partial_outgoing_message_
    BY <2>1 DEF OnSendThresholdCallback
  <2>3. ready_to_send_data_'[p]
    BY <2>2 DEF ConnectionOK
  <2>4. ~Oversize(p)' /\ ~Oversize(p)
    BY <2>1, <2>2 DEF Oversize
  <2>5. QED
    BY <1>1, <1>2, <2>2, <2>3, <2>4 DEF Awake, StartedFirst, WriterWoken
<1>3. CASE partial_outgoing_message_[p] # <<>>
  <2>1. PICK m \in Range(partial_outgoing_message_[p]) :
            \/ /\ Left(p, m) > 0
               /\ partial_outgoing_message_' = [partial_outgoing_message_ EXCEPT ![p] =
                      <<[m EXCEPT !.left = Left(p, m)]>>]
               /\ out' = [out EXCEPT ![p] = SentOn(p, m)]
            \/ /\ partial_outgoing_message_' = [partial_outgoing_message_ EXCEPT ![p] = <<>>]
               /\ ready_to_send_data_' = [ready_to_send_data_ EXCEPT ![p] = TRUE]
    BY <1>3, Zenon DEF OnSendThresholdCallback
  <2>2. /\ m \in Message /\ m.left \in Nat /\ m.sid \in Sids /\ m.id \in Nat /\ m.left > 0
        /\ DOMAIN partial_outgoing_message_[p] = {1} /\ m = partial_outgoing_message_[p][1]
    BY BufferedMessage DEF Message
  <2>3. sock_[p] /\ m.sid \in DOMAIN stream_status_by_sid_[p]
    BY <1>3, <2>2 DEF Awake, StartedFirst, BufferedStreamKnown
  <2>4. CASE partial_outgoing_message_' = [partial_outgoing_message_ EXCEPT ![p] = <<>>]
             /\ ready_to_send_data_' = [ready_to_send_data_ EXCEPT ![p] = TRUE]
    <3>1. partial_outgoing_message_'[p] = <<>> /\ ready_to_send_data_'[p]
      BY <2>4 DEF Typed, TypeOK, ConnectionOK
    <3>2. ~Oversize(p)'
      BY <3>1 DEF Oversize, Range
    <3>3. QED
      BY <1>1, <2>3, <3>1, <3>2 DEF Awake, StartedFirst, WriterWoken
  <2>5. CASE /\ Left(p, m) > 0
             /\ partial_outgoing_message_' = [partial_outgoing_message_ EXCEPT ![p] =
                    <<[m EXCEPT !.left = Left(p, m)]>>]
             /\ out' = [out EXCEPT ![p] = SentOn(p, m)]
    <3>1. PICK x : x = [m EXCEPT !.left = Left(p, m)]
      OBVIOUS
    <3>2. /\ x.left = Left(p, m) /\ partial_outgoing_message_'[p] = <<x>>
          /\ out'[p] = SentOn(p, m)
      BY <2>2, <2>5, <3>1 DEF Typed, TypeOK, Message
    <3>3. Range(partial_outgoing_message_'[p]) = {x} /\ Range(partial_outgoing_message_[p]) = {m}
      BY <2>2, <3>2 DEF Range
    <3>4. PICK l \in Nat, n \in Nat, t \in Nat, max \in Nat :
               /\ l = Left(p, m) /\ n = m.left /\ l <= n /\ t = Taken(p, m)
               /\ max = max_message_size_[p]
      BY <2>2, TakenFits DEF Typed, ConnectionOK
    <3>5. Oversize(p)' <=> l > max
      BY <1>1, <3>2, <3>3, <3>4 DEF Oversize
    <3>6. Oversize(p) <=> n > max
      BY <3>3, <3>4 DEF Oversize
    <3>7. StartedFirst(p)'
      BY <1>1, <2>3, <3>4, <3>5, <3>6 DEF Awake, StartedFirst
    <3>8. CASE t > 0
      <4>1. Held(out'[p]) > 0
        BY <2>2, <3>2, <3>4, <3>8, SentHeld
      <4>2. QED
        BY <3>7, <4>1 DEF Awake, WriterWoken
    <3>9. CASE t = 0
      <4>1. l = n
        BY <2>2, <3>4, <3>9 DEF Left
      <4>2. CASE n > max
        BY <3>5, <3>7, <4>1, <4>2 DEF Awake, WriterWoken
      <4>3. CASE n <= max
        <5>1. Sendable(p, m)
          BY <2>3, <3>4, <4>3 DEF Sendable
        <5>2. Held(out'[p]) > 0
          BY <2>2, <3>2, <3>4, <3>9, <5>1, NothingTaken, SentHeld
        <5>3. QED
          BY <3>7, <5>2 DEF Awake, WriterWoken
      <4>4. QED
        BY <3>4, <4>2, <4>3
    <3>10. QED
      BY <3>4, <3>8, <3>9
  <2>6. QED
    BY <2>1, <2>4, <2>5
<1>4. QED
  BY <1>2, <1>3

\* An end that has nothing to do with a step, but for what it is told.
LEMMA OtherAwake ==
    ASSUME NEW x \in Peers, Awake(x),
           starts'[x] = starts[x], sock_'[x] = sock_[x],
           max_message_size_'[x] = max_message_size_[x],
           ready_to_send_data_'[x] = ready_to_send_data_[x],
           partial_outgoing_message_'[x] = partial_outgoing_message_[x],
           up'[x] => sock_[x], out'[x] = out[x],
           Range(tasks[x]) \subseteq Range(tasks'[x])
    PROVE  Awake(x)'
<1>1. Pending(tasks[x], Threshold) => Pending(tasks'[x], Threshold)
  BY PendingPosted
<1>2. QED
  BY <1>1, AwakeKept

\* Nothing but the queues and the maps changes.
Unmoved ==
    UNCHANGED <<starts, sock_, max_message_size_, ready_to_send_data_, partial_outgoing_message_, up>>

LEMMA UnmovedAwake ==
    ASSUME NEW x \in Peers, Awake(x), Unmoved, Held(out'[x]) = Held(out[x]),
           Pending(tasks[x], Threshold) => Pending(tasks'[x], Threshold)
    PROVE  Awake(x)'
<1>1. up[x] => sock_[x]
  BY DEF Awake, StartedFirst
<1>2. QED
  BY <1>1, AwakeKept DEF Unmoved

LEMMA AppendedRange ==
    ASSUME NEW t \in Seq(Task), NEW e \in Task
    PROVE  Range(t) \subseteq Range(Append(t, e))
<1>1. Range(Append(t, e)) = Range(t) \cup {e}
  BY RangeAppended
<1>2. QED
  BY <1>1

LEMMA ApplicationAwake ==
    ASSUME Typed, ConnectionOK, NEW p \in Peers, \A x \in Peers : Awake(x),
           MaxStarts[p] \in 0 .. 2, Application(p)
    PROVE  ConnectionOK' /\ \A x \in Peers : Awake(x)'
<1>1. TypeOK
  BY DEF Typed
<1>2. UNCHANGED <<up, tasks>> /\ \A x \in Peers : up[x] => sock_[x]
  BY DEF Application, Start, OnWritableState, OpenStream, ResetStream, SendData, SendDataBlocked,
         association, Awake, StartedFirst
<1>3. CASE (\E limit \in Limits[p] : Start(p, limit)) \/ OnWritableState(p)
  <2>1. ConnectionOK' /\ Awake(p)'
    BY <1>1, <1>3, StartAwake
  <2>2. UNCHANGED <<partial_outgoing_message_, out>>
    BY <1>3 DEF Start, OnWritableState, association
  <2>3. ASSUME NEW x \in Peers, x # p PROVE Awake(x)'
    <3>1. /\ starts'[x] = starts[x] /\ sock_'[x] = sock_[x]
          /\ max_message_size_'[x] = max_message_size_[x]
          /\ ready_to_send_data_'[x] = ready_to_send_data_[x]
      BY <1>3, <2>3 DEF Start, OnWritableState, Connect, ConnectionOK
    <3>2. QED
      BY <1>2, <2>2, <3>1, OtherAwake
  <2>4. QED
    BY <2>1, <2>3
<1>4. ASSUME NEW s \in Sids, OpenStream(p, s) \/ ResetStream(p, s)
      PROVE  ConnectionOK' /\ \A x \in Peers : Awake(x)'
  <2>1. Unmoved
    BY <1>4 DEF OpenStream, ResetStream, Unmoved, connection, association
  <2>2. ASSUME NEW x \in Peers PROVE Held(out'[x]) = Held(out[x])
    <3>1. CASE OpenStream(p, s)
      BY <3>1 DEF OpenStream, association
    <3>2. CASE ResetStream(p, s)
      <4>1. s \in DOMAIN stream_status_by_sid_[p]
        BY <3>2 DEF ResetStream, Open
      <4>2. PICK status \in StatusMap :
                SendQueuedStreamResets(p, status, partial_outgoing_message_[p], out[p])
        BY <1>1, <3>2, <4>1, MapsTyped DEF ResetStream
      <4>3. Held(out'[p]) = Held(out[p]) /\ OnlyAt(p)
        BY <1>1, <4>2, OutHeld, QueuedResets
      <4>4. QED
        BY <4>3 DEF OnlyAt
    <3>3. QED
      BY <1>4, <3>1, <3>2
  <2>3. QED
    BY <1>2, <2>1, <2>2, UnmovedAwake DEF Unmoved, ConnectionOK
<1>5. ASSUME NEW s \in Sids, NEW size \in Nat, SendData(p, s, size)
      PROVE  ConnectionOK' /\ \A x \in Peers : Awake(x)'
  <2>1. Awake(p)'
    BY <1>5, SendDataAwake
  <2>2. PICK b \in BOOLEAN : ready_to_send_data_' = [ready_to_send_data_ EXCEPT ![p] = @ /\ b]
    BY <1>5 DEF SendData
  <2>3. UNCHANGED <<starts, sock_, max_message_size_>>
    BY <1>5 DEF SendData, connection
  <2>4. ConnectionOK'
    BY <1>2, <2>2, <2>3 DEF ConnectionOK
  <2>5. ASSUME NEW x \in Peers, x # p PROVE Awake(x)'
    <3>1. ready_to_send_data_'[x] = ready_to_send_data_[x]
      BY <2>2, <2>5 DEF ConnectionOK
    <3>2. out'[x] = out[x] /\ partial_outgoing_message_'[x] = partial_outgoing_message_[x]
      BY <1>1, <1>5, <2>5 DEF SendData, TypeOK
    <3>3. QED
      BY <1>2, <2>3, <3>1, <3>2, OtherAwake
  <2>6. QED
    BY <2>1, <2>4, <2>5
<1>6. CASE SendDataBlocked(p)
  <2>1. /\ UNCHANGED <<starts, sock_, max_message_size_, partial_outgoing_message_, out>>
        /\ partial_outgoing_message_[p] # <<>>
        /\ ready_to_send_data_' = [ready_to_send_data_ EXCEPT ![p] = FALSE]
    BY <1>6 DEF SendDataBlocked, connection, association
  <2>2. ConnectionOK'
    BY <1>2, <2>1 DEF ConnectionOK
  <2>3. ASSUME NEW x \in Peers PROVE Awake(x)'
    <3>1. ready_to_send_data_[x] /\ partial_outgoing_message_[x] = <<>> => ready_to_send_data_'[x]
      BY <2>1 DEF ConnectionOK
    <3>2. QED
      BY <1>2, <2>1, <3>1, AwakeKept
  <2>4. QED
    BY <2>2, <2>3
<1>7. ASSUME NEW w \in Writers, SendData(p, w[2], w[3])
      PROVE  ConnectionOK' /\ \A x \in Peers : Awake(x)'
  <2>1. w[2] \in Sids /\ w[3] \in Nat
    BY SctpConstants
  <2>2. QED
    BY <1>5, <1>7, <2>1
<1>8. QED
  BY <1>3, <1>4, <1>6, <1>7 DEF Application

LEMMA JoinedRange ==
    ASSUME NEW S, NEW t \in Seq(S), NEW e \in Seq(S)
    PROVE  Range(t) \subseteq Range(t \o e) /\ Range(e) \subseteq Range(t \o e)
<1>1. PICK u : u = t \o e
  OBVIOUS
<1>2. PICK l \in Nat, k \in Nat : l = Len(t) /\ k = Len(e)
  OBVIOUS
<1>3. /\ DOMAIN u = 1 .. (l + k) /\ DOMAIN t = 1 .. l /\ DOMAIN e = 1 .. k
      /\ \A i \in 1 .. l : i \in 1 .. (l + k) /\ u[i] = t[i]
      /\ \A i \in 1 .. k : l + i \in 1 .. (l + k) /\ u[l + i] = e[i]
  BY <1>1, <1>2
<1>4. QED
  BY <1>1, <1>3 DEF Range

\* Acknowledged data tells its sender of room.
LEMMA AcknowledgedPosted ==
    ASSUME TypeOK, NEW p \in Peers, ConveyData(p)
    PROVE  Pending(tasks'[p], Threshold) /\ Range(tasks[p]) \subseteq Range(tasks'[p])
<1>1. PICK q \in Peers : q = Peer(p) /\ q # p
  BY PeerFacts
<1>2. PICK a \in Task, b \in Task : a = [kind |-> "threshold"] /\ b = [kind |-> "dry"]
  BY DEF Task
<1>3. PICK e \in Seq(Task) : /\ e = Acknowledged(Tail(out[p])) /\ e[1] = a /\ 1 \in DOMAIN e
  <2>1. /\ <<a, b>> \in Seq(Task) /\ <<a, b>>[1] = a /\ 1 \in DOMAIN <<a, b>>
        /\ <<a>> \in Seq(Task) /\ <<a>>[1] = a /\ 1 \in DOMAIN <<a>>
    OBVIOUS
  <2>2. QED
    BY <1>2, <2>1 DEF Acknowledged
<1>4. PICK t \in Seq(Task) : t = tasks[p]
  BY DEF TypeOK
<1>5. PICK u : u = Append(tasks[q], Head(out[p]))
  OBVIOUS
<1>6. tasks' = [tasks EXCEPT ![q] = u, ![p] = t \o e]
  BY <1>1, <1>3, <1>4, <1>5 DEF ConveyData
<1>7. tasks'[p] = t \o e
  BY <1>1, <1>6 DEF TypeOK
<1>8. a \in Range(e) /\ Range(t) \subseteq Range(t \o e) /\ Range(e) \subseteq Range(t \o e)
  <2>1. a \in Range(e)
    BY <1>3 DEF Range
  <2>2. Range(t) \subseteq Range(t \o e) /\ Range(e) \subseteq Range(t \o e)
    BY JoinedRange
  <2>3. QED
    BY <2>1, <2>2
<1>9. a.kind \in Threshold
  BY <1>2 DEF Threshold
<1>10. QED
  BY <1>4, <1>7, <1>8, <1>9 DEF Pending

\* Without a request to reset streams the queue holds as much data.
LEMMA RequestHoldsNothing ==
    ASSUME TypeOK, NEW p \in Peers, out[p] # <<>>, Head(out[p]).kind = "reset",
           out' = [out EXCEPT ![p] = Tail(@)], NEW x \in Peers
    PROVE  Held(out'[x]) = Held(out[x])
<1>1. PICK o \in Seq(Chunk) : o = out[p] /\ Measured(o) /\ Held(o) \in Nat
  BY OutHeld
<1>2. Held(o) = 0 + Held(Tail(o)) /\ Held(Tail(o)) \in Nat
  BY <1>1, HeldTail
<1>3. out'[p] = Tail(o) /\ (x # p => out'[x] = out[x])
  BY <1>1 DEF TypeOK
<1>4. QED
  BY <1>1, <1>2, <1>3

LEMMA UsrsctpAwake ==
    ASSUME Typed, ConnectionOK, NEW p \in Peers, \A x \in Peers : Awake(x),
           CommUp \/ Usrsctp(p) \/ FailReset(p)
    PROVE  ConnectionOK' /\ \A x \in Peers : Awake(x)'
<1>1. TypeOK /\ \A x \in Peers : tasks[x] \in Seq(Task)
  BY DEF Typed, TypeOK
<1>2. CASE CommUp
  <2>1. /\ UNCHANGED <<starts, sock_, max_message_size_, ready_to_send_data_, partial_outgoing_message_, out>>
        /\ \A x \in Peers : sock_[x]
        /\ up' = [x \in Peers |-> TRUE]
    BY <1>2 DEF CommUp, connection
  <2>2. ConnectionOK'
    BY <2>1 DEF ConnectionOK
  <2>3. PICK n \in Notices : \A x \in Peers : tasks'[x] = Append(tasks[x], n)
    BY <1>1, <1>2, CommUpEffect
  <2>4. n \in Task
    BY DEF Notices, Task
  <2>5. \A x \in Peers : Range(tasks[x]) \subseteq Range(tasks'[x])
    BY <1>1, <2>3, <2>4, AppendedRange
  <2>6. QED
    BY <2>1, <2>2, <2>5, OtherAwake
<1>3. CASE ConveyData(p)
  <2>1. Unmoved
    BY <1>3 DEF ConveyData, Unmoved, connection
  <2>2. Awake(p)'
    <3>1. Pending(tasks'[p], Threshold) /\ (up[p] => sock_[p])
      BY <1>1, <1>3, AcknowledgedPosted DEF Awake, StartedFirst
    <3>2. QED
      BY <2>1, <3>1, AwakeKept DEF Unmoved
  <2>3. ASSUME NEW x \in Peers, x # p PROVE Awake(x)'
    <3>1. x = Peer(p)
      BY <2>3, PeerFacts
    <3>2. PICK c \in DataChunk : tasks'[x] = Append(tasks[x], c)
      BY <1>1, <1>3, <3>1, ConveyDataEffect
    <3>3. c \in Task
      BY DEF Task
    <3>4. Range(tasks[x]) \subseteq Range(tasks'[x])
      BY <1>1, <3>2, <3>3, AppendedRange
    <3>5. out'[x] = out[x]
      BY <1>1, <1>3, <2>3 DEF ConveyData, TypeOK
    <3>6. QED
      BY <2>1, <3>4, <3>5, OtherAwake DEF Unmoved, Awake, StartedFirst
  <2>4. QED
    BY <2>1, <2>2, <2>3 DEF Unmoved, ConnectionOK
<1>4. CASE ConveyReset(p) \/ AnswerReset(p) \/ FailReset(p)
  <2>1. Unmoved
    BY <1>4 DEF ConveyReset, AnswerReset, FailReset, Unmoved, connection
  <2>2. \A x \in Peers : Held(out'[x]) = Held(out[x])
    <3>1. CASE ConveyReset(p) \/ FailReset(p)
      <4>1. out[p] # <<>> /\ Head(out[p]).kind = "reset" /\ out' = [out EXCEPT ![p] = Tail(@)]
        BY <3>1 DEF ConveyReset, FailReset
      <4>2. QED
        BY <1>1, <4>1, RequestHoldsNothing
    <3>2. CASE AnswerReset(p)
      BY <3>2 DEF AnswerReset
    <3>3. QED
      BY <1>4, <3>1, <3>2
  <2>3. PICK r \in Peers, e \in Task : tasks' = Posted(r, <<e>>)
    <3>1. CASE ConveyReset(p)
      <4>1. Head(out[p]).sids \subseteq Sids /\ Peer(p) \in Peers
        BY <1>1, <3>1, RequestAtHead, PeerFacts DEF ConveyReset
      <4>2. [kind |-> "incoming", sids |-> Head(out[p]).sids] \in Task
        BY <4>1 DEF Task
      <4>3. QED
        BY <3>1, <4>1, <4>2 DEF ConveyReset
    <3>2. CASE AnswerReset(p)
      <4>1. [kind |-> "outgoing", sids |-> resetting[p].sids] \in Task
        BY <1>1 DEF Task, TypeOK
      <4>2. QED
        BY <3>2, <4>1 DEF AnswerReset
    <3>3. CASE FailReset(p)
      <4>1. [kind |-> "failed"] \in Task
        BY DEF Task
      <4>2. QED
        BY <3>3, <4>1 DEF FailReset
    <3>4. QED
      BY <1>4, <3>1, <3>2, <3>3
  <2>4. \A x \in Peers : Range(tasks[x]) \subseteq Range(tasks'[x])
    <3>1. tasks'[r] = Append(tasks[r], e) /\ \A x \in Peers : x # r => tasks'[x] = tasks[x]
      BY <1>1, <2>3, ResetStepsEffect
    <3>2. QED
      BY <1>1, <3>1, AppendedRange
  <2>5. \A x \in Peers : Pending(tasks[x], Threshold) => Pending(tasks'[x], Threshold)
    BY <2>4, PendingPosted
  <2>6. QED
    BY <2>1, <2>2, <2>5, UnmovedAwake DEF Unmoved, ConnectionOK
<1>5. QED
  BY <1>2, <1>3, <1>4 DEF Usrsctp

LEMMA CallbacksAwake ==
    ASSUME Typed, ConnectionOK, BufferedStreamKnown, NEW p \in Peers, \A x \in Peers : Awake(x),
           NetworkThread(p)
    PROVE  ConnectionOK' /\ \A x \in Peers : Awake(x)'
<1>1. TypeOK
  BY DEF Typed
<1>2. UNCHANGED <<starts, sock_, max_message_size_, up>> /\ \A x \in Peers : up[x] => sock_[x]
  BY DEF NetworkThread, OnNotificationAssocChange, OnSenderDry, OnSendThresholdCallback, OnDataFromSctp,
         OnStreamResetFailed, OnStreamResetEvent, connection, association, Awake, StartedFirst
<1>3. ASSUME NEW kind, kind # "threshold", Callback(p, kind), NEW x \in Peers
      PROVE  Pending(tasks[x], Threshold) => Pending(tasks'[x], Threshold)
  <2>1. /\ tasks[p] # <<>> /\ tasks[p] \in Seq(Task) /\ Head(tasks[p]).kind = kind
        /\ tasks'[p] = Tail(tasks[p]) /\ (x # p => tasks'[x] = tasks[x])
    BY <1>1, <1>3, CallbackEffect
  <2>2. Pending(tasks'[p], Threshold) <=> Pending(tasks[p], Threshold)
    BY <1>3, <2>1, PendingTail DEF Threshold
  <2>3. QED
    BY <2>1, <2>2
<1>4. CASE OnSendThresholdCallback(p)
  <2>1. Awake(p)'
    BY <1>4, ThresholdAwake
  <2>2. PICK b \in BOOLEAN : ready_to_send_data_' = [ready_to_send_data_ EXCEPT ![p] = b]
    <3>1. \A b \in BOOLEAN : (ready_to_send_data_[p] /\ b) \in BOOLEAN
      OBVIOUS
    <3>2. QED
      BY <1>4, <3>1 DEF OnSendThresholdCallback
  <2>3. ConnectionOK'
    BY <1>2, <2>2 DEF ConnectionOK
  <2>4. ASSUME NEW x \in Peers, x # p PROVE Awake(x)'
    <3>1. ready_to_send_data_'[x] = ready_to_send_data_[x]
      BY <2>2, <2>4 DEF ConnectionOK
    <3>2. tasks'[x] = tasks[x]
      BY <1>1, <1>4, <2>4, CallbackEffect DEF OnSendThresholdCallback
    <3>3. out'[x] = out[x] /\ partial_outgoing_message_'[x] = partial_outgoing_message_[x]
      <4>1. CASE UNCHANGED <<partial_outgoing_message_, stream_status_by_sid_, out, resetting>>
        BY <4>1
      <4>2. ASSUME NEW m \in Range(partial_outgoing_message_[p]),
                   PartSent(p, m) \/ RestSent(p, m)
            PROVE  out'[x] = out[x] /\ partial_outgoing_message_'[x] = partial_outgoing_message_[x]
        BY <1>1, <2>4, <4>2 DEF PartSent, RestSent, TypeOK
      <4>3. ASSUME NEW m \in Range(partial_outgoing_message_[p]), RestSentThenResets(p, m)
            PROVE  out'[x] = out[x] /\ partial_outgoing_message_'[x] = partial_outgoing_message_[x]
        <5>1. m.left \in Nat /\ m.sid \in Sids /\ m.id \in Nat
          BY BufferedMessage DEF Message
        <5>2. SentOn(p, m) \in Seq(Chunk) /\ stream_status_by_sid_[p] \in StatusMap
          BY <1>1, <5>1, TakenFits DEF Typed, TypeOK
        <5>3. OnlyAt(p)
          BY <1>1, <4>3, <5>2, QueuedResets DEF RestSentThenResets
        <5>4. QED
          BY <1>1, <2>4, <4>3, <5>3 DEF OnlyAt, RestSentThenResets, TypeOK
      <4>4. QED
        BY <1>4, <4>1, <4>2, <4>3, ThresholdCases
    <3>4. QED
      BY <1>2, <3>1, <3>2, <3>3, OtherAwake
  <2>5. QED
    BY <2>1, <2>3, <2>4
<1>5. CASE OnSenderDry(p)
  <2>1. /\ UNCHANGED <<partial_outgoing_message_, out>> /\ Callback(p, "dry")
        /\ ready_to_send_data_' = [ready_to_send_data_ EXCEPT ![p] = TRUE]
    BY <1>5 DEF OnSenderDry, association
  <2>2. ConnectionOK'
    BY <1>2, <2>1 DEF ConnectionOK
  <2>3. \A x \in Peers : ready_to_send_data_[x] => ready_to_send_data_'[x]
    BY <2>1 DEF ConnectionOK
  <2>4. \A x \in Peers : Pending(tasks[x], Threshold) => Pending(tasks'[x], Threshold)
    BY <1>3, <2>1
  <2>5. QED
    BY <1>2, <2>1, <2>2, <2>3, <2>4, AwakeKept
<1>6. CASE OnDataFromSctp(p)
  <2>1. Unmoved /\ UNCHANGED out /\ Callback(p, "data")
    BY <1>6 DEF OnDataFromSctp, Unmoved, connection, association
  <2>2. \A x \in Peers : Pending(tasks[x], Threshold) => Pending(tasks'[x], Threshold)
    BY <1>3, <2>1
  <2>3. QED
    BY <2>1, <2>2, UnmovedAwake DEF Unmoved, ConnectionOK
<1>7. ASSUME NEW kind \in {"up", "failed", "incoming", "outgoing"}, Callback(p, kind),
             UNCHANGED <<connection, ready_to_send_data_, partial_outgoing_message_, up>>,
             NEW status \in StatusMap,
             SendQueuedStreamResets(p, status, partial_outgoing_message_[p], out[p])
      PROVE  ConnectionOK' /\ \A x \in Peers : Awake(x)'
  <2>1. Unmoved
    BY <1>7 DEF Unmoved, connection
  <2>2. Held(out'[p]) = Held(out[p]) /\ OnlyAt(p)
    BY <1>1, <1>7, OutHeld, QueuedResets
  <2>3. \A x \in Peers : Held(out'[x]) = Held(out[x])
    BY <2>2 DEF OnlyAt
  <2>4. \A x \in Peers : Pending(tasks[x], Threshold) => Pending(tasks'[x], Threshold)
    BY <1>3, <1>7
  <2>5. QED
    BY <2>1, <2>3, <2>4, UnmovedAwake DEF Unmoved, ConnectionOK
<1>8. CASE OnNotificationAssocChange(p)
  <2>1. stream_status_by_sid_[p] \in StatusMap
    BY <1>1 DEF TypeOK
  <2>2. QED
    BY <1>7, <1>8, <2>1 DEF OnNotificationAssocChange
<1>9. CASE OnStreamResetFailed(p)
  BY <1>1, <1>7, <1>9, MapsTyped DEF OnStreamResetFailed
<1>10. ASSUME NEW kind \in {"incoming", "outgoing"}, OnStreamResetEvent(p, kind)
       PROVE  ConnectionOK' /\ \A x \in Peers : Awake(x)'
  BY <1>1, <1>7, <1>10, MapsTyped DEF OnStreamResetEvent
<1>11. QED
  BY <1>4, <1>5, <1>6, <1>8, <1>9, <1>10 DEF NetworkThread

\* An end's limit is changed at most once after its first Start.  A third Start
\* could raise the limit again above a message that has waited because it was
\* too large, and then nothing wakes it.
OneChangeOfLimit == \A p \in Peers : MaxStarts[p] \in 0 .. 2

LEMMA NextAwake ==
    ASSUME Typed, BufferedStreamKnown, WakeInv, OneChangeOfLimit, [Next]_vars
    PROVE  WakeInv'
<1>1. ConnectionOK /\ \A x \in Peers : Awake(x)
  BY DEF WakeInv, Awake
<1>2. CASE UNCHANGED vars
  BY <1>2 DEF vars, connection, association, WakeInv, ConnectionOK, StartedFirst, WriterWoken, Oversize
<1>3. ASSUME ConnectionOK', \A x \in Peers : Awake(x)' PROVE WakeInv'
  BY <1>3 DEF WakeInv, Awake
<1>4. ASSUME NEW p \in Peers, Application(p) \/ Usrsctp(p) \/ FailReset(p) \/ NetworkThread(p)
      PROVE  WakeInv'
  <2>1. MaxStarts[p] \in 0 .. 2
    BY DEF OneChangeOfLimit
  <2>2. QED
    BY <1>1, <1>3, <1>4, <2>1, ApplicationAwake, UsrsctpAwake, CallbacksAwake
<1>5. CASE CommUp
  <2>1. PICK p : p \in Peers
    BY SctpConstants
  <2>2. QED
    BY <1>1, <1>3, <1>5, <2>1, UsrsctpAwake
<1>6. QED
  BY <1>2, <1>4, <1>5 DEF Next

LEMMA InitAwake ==
    ASSUME Init
    PROVE  WakeInv
<1>1. kSctpSendBufferSize \in Nat
  BY SctpConstants
<1>2. ConnectionOK
  BY <1>1 DEF Init, ConnectionOK
<1>3. ASSUME NEW p \in Peers PROVE StartedFirst(p) /\ WriterWoken(p)
  <2>1. partial_outgoing_message_[p] = <<>> /\ ~up[p] /\ (sock_[p] <=> p \in Connected)
        /\ (ready_to_send_data_[p] <=> p \in Connected) /\ (p \in Connected => starts[p] = 1)
    BY DEF Init
  <2>2. ~Oversize(p)
    BY <2>1 DEF Oversize, Range
  <2>3. QED
    BY <2>1, <2>2 DEF StartedFirst, WriterWoken
<1>4. QED
  BY <1>2, <1>3 DEF WakeInv

\* The inductive invariant: an end that was told to wait, or that has part of a
\* message buffered, has data that is not acknowledged yet, or the callback of
\* an acknowledgement coming (OnSendThresholdCallback).
THEOREM WritersWoken ==
    OneChangeOfLimit /\ ~ReuseAfterRefusal => (Spec => []WakeInv)
<1>1. SUFFICES ASSUME OneChangeOfLimit, ~ReuseAfterRefusal PROVE Spec => []WakeInv
  OBVIOUS
<1>2. Init => WakeInv
  BY InitAwake
<1>3. Typed /\ BufferedStreamKnown /\ WakeInv /\ [Next]_vars => WakeInv'
  BY <1>1, NextAwake
<1>4. Spec => []BufferedStreamKnown
  BY <1>1, BufferedStreamIsKnown
<1>5. QED
  BY <1>2, <1>3, <1>4, SctpTyped, PTL DEF Spec

\* No writer is stuck: when nothing is under way, whoever was told to wait was
\* told to go on and nothing is buffered, but for a message that has become too
\* large for its end.
THEOREM NoWriterIsStuck ==
    OneChangeOfLimit /\ ~ReuseAfterRefusal => (Spec => []NoWriterStuck)
<1>1. SUFFICES ASSUME OneChangeOfLimit, ~ReuseAfterRefusal PROVE Spec => []NoWriterStuck
  OBVIOUS
<1>2. WakeInv => NoWriterStuck
  <2>1. SUFFICES ASSUME WakeInv, Quiet, NEW p \in Peers
                 PROVE  \/ ready_to_send_data_[p] /\ partial_outgoing_message_[p] = <<>>
                        \/ Oversize(p)
    BY DEF NoWriterStuck
  <2>2. up[p] /\ out[p] = <<>> /\ tasks[p] = <<>> /\ StartedFirst(p) /\ WriterWoken(p)
    BY <2>1 DEF Quiet, WakeInv
  <2>3. ~(Held(out[p]) > 0)
    BY <2>2, EmptyHeld
  <2>4. ~Pending(tasks[p], {"threshold"})
    BY <2>2 DEF Pending, Range
  <2>5. QED
    BY <2>2, <2>3, <2>4 DEF StartedFirst, WriterWoken
<1>3. QED
  BY <1>1, <1>2, WritersWoken, PTL
-----------------------------------------------------------------------------
(* Streams: the callbacks that send queued resets.                           *)

Wakers == {"up", "outgoing", "failed"}

LEMMA WokenKept ==
    ASSUME NEW p, ResetWoken(p), CanReset(p)' => CanReset(p),
           NeedsReset(stream_status_by_sid_'[p], partial_outgoing_message_'[p])
               \subseteq NeedsReset(stream_status_by_sid_[p], partial_outgoing_message_[p]),
           Pending(tasks[p], Wakers) => Pending(tasks'[p], Wakers)
    PROVE  ResetWoken(p)'
BY DEF ResetWoken, Wakers

LEMMA WokenBy ==
    ASSUME NEW p, Pending(tasks'[p], Wakers)
    PROVE  ResetWoken(p)'
BY DEF ResetWoken, Wakers

\* After SendQueuedStreamResets nothing can be reset that needs it.
LEMMA AskedWoken ==
    ASSUME TypeOK, NEW p \in Peers, NEW status, NEW partial, NEW o,
           SendQueuedStreamResets(p, status, partial, o),
           UNCHANGED up, partial_outgoing_message_'[p] = partial
    PROVE  ResetWoken(p)'
<1>1. CASE NeedsReset(status, partial) # {} /\ CanReset(p)
  <2>1. resetting'[p].phase = "sent"
    BY <1>1 DEF SendQueuedStreamResets, TypeOK
  <2>2. ~CanReset(p)'
    BY <2>1 DEF CanReset, NoReset
  <2>3. QED
    BY <2>2 DEF ResetWoken
<1>2. CASE ~(NeedsReset(status, partial) # {} /\ CanReset(p))
  <2>1. stream_status_by_sid_'[p] = status /\ resetting' = resetting
    BY <1>2 DEF SendQueuedStreamResets, TypeOK
  <2>2. CanReset(p)' <=> CanReset(p)
    BY <2>1 DEF CanReset
  <2>3. QED
    BY <1>2, <2>1, <2>2 DEF ResetWoken
<1>3. QED
  BY <1>1, <1>2

LEMMA CallbackPending ==
    ASSUME TypeOK, NEW p \in Peers, NEW kind, NEW kinds, kind \notin kinds, Callback(p, kind),
           NEW x \in Peers, Pending(tasks[x], kinds)
    PROVE  Pending(tasks'[x], kinds)
<1>1. /\ tasks[p] # <<>> /\ tasks[p] \in Seq(Task) /\ Head(tasks[p]).kind = kind
      /\ tasks'[p] = Tail(tasks[p]) /\ (x # p => tasks'[x] = tasks[x])
  BY CallbackEffect
<1>2. Pending(tasks'[p], kinds) <=> Pending(tasks[p], kinds)
  BY <1>1, PendingTail
<1>3. QED
  BY <1>1, <1>2

-----------------------------------------------------------------------------
(* Steps that neither ask for resets nor handle them.                        *)

Settled ==
    /\ \A r \in Peers, s \in Sids : ClosedForgotten(r, s)
    /\ failures # 0 => \A r \in Peers, s \in Sids : ResetArrives(r, s)

LEMMA SettledSame ==
    ASSUME StreamsInv, SameStreams
    PROVE  Settled'
<1>1. \A r \in Peers, s \in Sids :
          /\ Known(r, s)' <=> Known(r, s)
          /\ OutDone(r, s)' <=> OutDone(r, s)
          /\ InDone(r, s)' <=> InDone(r, s)
          /\ ResetReceived(r, s)' <=> ResetReceived(r, s)
  BY DEF SameStreams, Known, OutDone, InDone, ResetReceived
<1>2. \A r \in Peers, s \in Sids :
          /\ Holds(tasks'[r], "incoming", s) <=> Holds(tasks[r], "incoming", s)
          /\ Holds(tasks'[r], "outgoing", s) <=> Holds(tasks[r], "outgoing", s)
  BY DEF SameStreams, SameResets
<1>3. \A r \in Peers, s \in Sids : Conveyed(r, s)' <=> Conveyed(r, s)
  <2>1. resetting' = resetting
    BY DEF SameStreams
  <2>2. QED
    BY <1>1, <1>2, <2>1 DEF Conveyed
<1>4. ASSUME NEW r \in Peers, NEW s \in Sids, ResetArrives(r, s) PROVE ResetArrives(r, s)'
  <2>1. Peer(r) \in Peers
    BY PeerFacts
  <2>2. QED
    BY <1>1, <1>2, <1>3, <1>4, <2>1 DEF ResetArrives
<1>5. failures' = failures
  BY DEF SameStreams
<1>6. QED
  BY <1>1, <1>4, <1>5 DEF Settled, StreamsInv, ClosedForgotten

LEMMA StreamsFrom ==
    ASSUME \A r \in Peers : ResetWoken(r)', Settled'
    PROVE  StreamsInv'
BY DEF Settled, StreamsInv

\* The buffer of p may come to hold a message, or the rest of the one it held.
LEMMA NeedsAlike ==
    ASSUME NEW status, NEW a, NEW b, \A i \in DOMAIN a : \E j \in DOMAIN b : b[j].sid = a[i].sid
    PROVE  NeedsReset(status, b) \subseteq NeedsReset(status, a)
BY DEF NeedsReset

LEMMA QuietWoken ==
    ASSUME TypeOK, StreamsInv, NEW p \in Peers,
           \/ \E limit \in Limits[p] : Start(p, limit)
           \/ OnWritableState(p)
           \/ SendDataBlocked(p)
           \/ CommUp \/ ConveyData(p)
           \/ OnSenderDry(p) \/ OnDataFromSctp(p)
    PROVE  StreamsInv'
<1>1. SameStreams /\ UNCHANGED <<stream_status_by_sid_, resetting, partial_outgoing_message_>>
  BY QuietStreams DEF SameStreams
<1>2. Settled'
  BY <1>1, SettledSame
<1>3. \A x \in Peers : tasks[x] \in Seq(Task)
  BY DEF TypeOK
<1>4. ASSUME NEW x \in Peers PROVE ResetWoken(x)'
  <2>1. ASSUME UNCHANGED up, Pending(tasks[x], Wakers) => Pending(tasks'[x], Wakers)
        PROVE  ResetWoken(x)'
    <3>1. ResetWoken(x) /\ (CanReset(x)' <=> CanReset(x))
      BY <1>1, <2>1 DEF StreamsInv, CanReset
    <3>2. QED
      BY <1>1, <2>1, <3>1, WokenKept
  <2>2. CASE UNCHANGED <<tasks, up>>
    BY <2>1, <2>2
  <2>3. CASE CommUp
    <3>1. PICK e \in Task : e = [kind |-> "up"]
      BY DEF Task
    <3>2. tasks'[x] = Append(tasks[x], e)
      BY <2>3, <3>1 DEF CommUp
    <3>3. Pending(tasks'[x], Wakers)
      BY <1>3, <3>1, <3>2, PendingAppended DEF Wakers
    <3>4. QED
      BY <3>3, WokenBy
  <2>4. CASE ConveyData(p)
    <3>1. Range(tasks[x]) \subseteq Range(tasks'[x])
      <4>1. CASE x = p
        BY <2>4, <4>1, AcknowledgedPosted
      <4>2. CASE x # p
        <5>1. x = Peer(p)
          BY <4>2, PeerFacts
        <5>2. PICK c \in DataChunk : tasks'[x] = Append(tasks[x], c)
          BY <2>4, <5>1, ConveyDataEffect
        <5>3. c \in Task
          BY DEF Task
        <5>4. QED
          BY <1>3, <5>2, <5>3, AppendedRange
      <4>3. QED
        BY <4>1, <4>2
    <3>2. Pending(tasks[x], Wakers) => Pending(tasks'[x], Wakers)
      BY <3>1, PendingPosted
    <3>3. QED
      BY <2>1, <2>4, <3>2 DEF ConveyData
  <2>5. CASE OnSenderDry(p) \/ OnDataFromSctp(p)
    <3>1. UNCHANGED up /\ \E kind \in {"dry", "data"} : Callback(p, kind)
      BY <2>5 DEF OnSenderDry, OnDataFromSctp, association
    <3>2. \A kind \in {"dry", "data"} : kind \notin Wakers
      BY DEF Wakers
    <3>3. Pending(tasks[x], Wakers) => Pending(tasks'[x], Wakers)
      BY <3>1, <3>2, CallbackPending
    <3>4. QED
      BY <2>1, <3>1, <3>3
  <2>6. QED
    BY <2>2, <2>3, <2>4, <2>5 DEF Start, OnWritableState, SendDataBlocked, association
<1>5. QED
  BY <1>2, <1>4, StreamsFrom
LEMMA SendDataStreams ==
    ASSUME Typed, StreamsInv, NEW p \in Peers, NEW s \in Sids, NEW size \in Nat, SendData(p, s, size)
    PROVE  StreamsInv'
<1>1. /\ UNCHANGED <<stream_status_by_sid_, tasks, resetting, failures, opens, up>>
      /\ partial_outgoing_message_[p] = <<>>
      /\ \A x \in Peers : x # p => partial_outgoing_message_'[x] = partial_outgoing_message_[x]
  BY DEF SendData, Typed, TypeOK
<1>2. SameStreams
  BY <1>1, SameResetsRefl DEF SameStreams
<1>3. ASSUME NEW x \in Peers PROVE ResetWoken(x)'
  <2>1. ResetWoken(x) /\ (CanReset(x)' <=> CanReset(x))
    BY <1>1 DEF StreamsInv, CanReset
  <2>2. NeedsReset(stream_status_by_sid_[x], partial_outgoing_message_'[x])
            \subseteq NeedsReset(stream_status_by_sid_[x], partial_outgoing_message_[x])
    <3>1. CASE x = p
      BY <1>1, <3>1, NeedsAlike
    <3>2. CASE x # p
      BY <1>1, <3>2
    <3>3. QED
      BY <3>1, <3>2
  <2>3. QED
    BY <1>1, <2>1, <2>2, WokenKept
<1>4. QED
  BY <1>2, <1>3, SettledSame, StreamsFrom

-----------------------------------------------------------------------------
(* Steps that end with SendQueuedStreamResets.                               *)

\* They convey no reset of p, lose none of its peer's, and forget a stream that
\* was reset in both directions.
Carries(p, s) ==
    /\ ~Known(p, s)' \/ OutDone(p, s)' \/ Holds(tasks'[p], "outgoing", s)
       => (~Known(p, s) \/ OutDone(p, s) \/ Holds(tasks[p], "outgoing", s))
    /\ ResetReceived(p, s) \/ Holds(tasks[p], "incoming", s)
       => (ResetReceived(p, s)' \/ Holds(tasks'[p], "incoming", s))
    /\ ~(OutDone(p, s)' /\ InDone(p, s)')

LEMMA AskedStreams ==
    ASSUME TypeOK, StreamsInv, NEW p \in Peers, NEW q \in Peers, q = Peer(p), p = Peer(q),
           NEW status \in StatusMap, NEW partial, NEW o \in Seq(Chunk),
           SendQueuedStreamResets(p, status, partial, o), partial_outgoing_message_'[p] = partial,
           UNCHANGED <<up, failures>>, LeftAlone(q), \A s \in Sids : Carries(p, s)
    PROVE  StreamsInv'
<1>1. \A r \in Peers : r = p \/ r = q
  BY PeerFacts
<1>2. ResetWoken(p)'
  BY AskedWoken
<1>3. ResetWoken(q)'
  <2>1. ResetWoken(q) /\ (CanReset(q)' <=> CanReset(q))
    BY DEF StreamsInv, CanReset, LeftAlone
  <2>2. QED
    BY <2>1, WokenKept DEF LeftAlone
<1>4. \A s \in Sids :
          /\ Known(q, s)' <=> Known(q, s)
          /\ OutDone(q, s)' <=> OutDone(q, s)
          /\ InDone(q, s)' <=> InDone(q, s)
          /\ ResetReceived(q, s)' <=> ResetReceived(q, s)
          /\ Conveyed(q, s)' <=> Conveyed(q, s)
  BY DEF LeftAlone, Known, OutDone, InDone, ResetReceived, Conveyed
<1>5. \A s \in Sids : ClosedForgotten(p, s)' /\ ClosedForgotten(q, s)'
  BY <1>4 DEF StreamsInv, ClosedForgotten, Carries
<1>6. resetting'[p] = resetting[p] \/ resetting'[p].phase = "sent"
  <2>1. PICK R \in SUBSET Sids : AsksFor(p, status, partial, o, R)
    BY QueuedResets
  <2>2. QED
    BY <2>1 DEF AsksFor
<1>7. ASSUME failures # 0, NEW s \in Sids PROVE ResetArrives(p, s)' /\ ResetArrives(q, s)'
  <2>1. ResetArrives(p, s) /\ ResetArrives(q, s)
    BY <1>7 DEF StreamsInv
  <2>2. Carries(p, s) /\ tasks'[q] = tasks[q]
    BY DEF LeftAlone
  <2>3. Conveyed(p, s)' => Conveyed(p, s)
    BY <1>6, <2>2 DEF Conveyed, Carries
  <2>4. ResetArrives(p, s)'
    BY <1>4, <2>1, <2>2, <2>3 DEF ResetArrives
  <2>5. ResetArrives(q, s)'
    BY <1>4, <2>1, <2>2 DEF ResetArrives, Carries
  <2>6. QED
    BY <2>4, <2>5
<1>8. QED
  BY <1>1, <1>2, <1>3, <1>5, <1>7 DEF StreamsInv

LEMMA CarriesMap ==
    ASSUME StreamsInv, NEW p \in Peers, NEW q \in Peers, NEW status, NEW s \in Sids,
           MapBecomes(p, status, s), SameMap(p, q, status, s),
           Holds(tasks'[p], "incoming", s) <=> Holds(tasks[p], "incoming", s),
           Holds(tasks'[p], "outgoing", s) <=> Holds(tasks[p], "outgoing", s)
    PROVE  Carries(p, s)
<1>1. /\ Known(p, s)' <=> Known(p, s)
      /\ InDone(p, s)' <=> InDone(p, s)
      /\ OutDone(p, s)' <=> OutDone(p, s)
  <2>1. InDone(p, s) \/ OutDone(p, s) => Known(p, s)
    BY OpenIs
  <2>2. QED
    BY <2>1 DEF MapBecomes, SameMap
<1>2. ~(OutDone(p, s) /\ InDone(p, s))
  BY DEF StreamsInv, ClosedForgotten
<1>3. ResetReceived(p, s)' <=> ResetReceived(p, s)
  BY <1>1 DEF ResetReceived
<1>4. QED
  BY <1>1, <1>2, <1>3 DEF Carries

LEMMA ResetStreamStreams ==
    ASSUME Typed, StreamsInv, NEW p \in Peers, NEW t \in Sids, ResetStream(p, t)
    PROVE  StreamsInv'
<1>1. PICK q \in Peers : q = Peer(p) /\ p = Peer(q) /\ q # p
  BY PeerFacts
<1>2. PICK f \in StatusMap : f = stream_status_by_sid_[p]
  BY DEF Typed, TypeOK
<1>3. DOMAIN f \subseteq Sids /\ f \in [DOMAIN f -> StreamStatus] /\ t \in DOMAIN f
  BY <1>2, StatusMaps DEF ResetStream, Open
<1>4. PICK status \in StatusMap : status = [f EXCEPT ![t].closure_initiated = TRUE]
  BY <1>2, <1>3, MapsTyped DEF Typed
<1>5. /\ SendQueuedStreamResets(p, status, partial_outgoing_message_[p], out[p])
      /\ out[p] \in Seq(Chunk) /\ opens[p][t] = opens[q][t]
      /\ UNCHANGED <<partial_outgoing_message_, tasks, failures, up>>
  BY <1>1, <1>2, <1>4 DEF ResetStream, history, Typed, TypeOK
<1>6. OnlyAt(p) /\ \A s \in Sids : MapBecomes(p, status, s)
  BY <1>5, QueuedResets DEF Typed
<1>7. LeftAlone(q)
  BY <1>1, <1>5, <1>6 DEF LeftAlone, OnlyAt
<1>8. ASSUME NEW s \in Sids PROVE Carries(p, s)
  <2>1. /\ DOMAIN status = DOMAIN f
        /\ \A x \in DOMAIN f :
              /\ status[x].incoming_reset_complete = f[x].incoming_reset_complete
              /\ status[x].outgoing_reset_complete = f[x].outgoing_reset_complete
              /\ status[x].outgoing_reset_initiated = f[x].outgoing_reset_initiated
              /\ status[x].closure_initiated = (f[x].closure_initiated \/ x = t)
    BY <1>3, <1>4 DEF StreamStatus
  <2>2. SameMap(p, q, status, s)
    BY <1>2, <1>5, <2>1 DEF SameMap, Known, InDone, OutDone, Closing, Asked
  <2>3. QED
    BY <1>5, <1>6, <2>2, CarriesMap
<1>9. QED
  BY <1>1, <1>5, <1>7, <1>8, AskedStreams DEF Typed

\* A callback that says nothing of resets, with SendQueuedStreamResets.
LEMMA CallbackStreams ==
    ASSUME Typed, StreamsInv, NEW p \in Peers, NEW partial, NEW o \in Seq(Chunk),
           SendQueuedStreamResets(p, stream_status_by_sid_[p], partial, o),
           \E kind \in {"up", "threshold"} : Callback(p, kind),
           UNCHANGED <<up, failures>>,
           partial_outgoing_message_' = [partial_outgoing_message_ EXCEPT ![p] = partial]
    PROVE  StreamsInv'
<1>1. PICK q \in Peers : q = Peer(p) /\ p = Peer(q) /\ q # p
  BY PeerFacts
<1>2. PICK status \in StatusMap : status = stream_status_by_sid_[p]
  BY DEF Typed, TypeOK
<1>3. /\ tasks[p] # <<>> /\ tasks[p] \in Seq(Task) /\ Harmless(Head(tasks[p]))
      /\ tasks'[p] = Tail(tasks[p]) /\ tasks'[q] = tasks[q]
  BY <1>1, CallbackEffect DEF Typed, Harmless
<1>4. SameResets(tasks'[p], tasks[p])
  BY <1>3, HarmlessTaken
<1>5. OnlyAt(p) /\ \A s \in Sids : MapBecomes(p, status, s)
  BY <1>2, QueuedResets DEF Typed
<1>6. /\ partial_outgoing_message_'[p] = partial
      /\ partial_outgoing_message_'[q] = partial_outgoing_message_[q]
  BY <1>1 DEF Typed, TypeOK
<1>7. LeftAlone(q)
  BY <1>1, <1>3, <1>5, <1>6 DEF LeftAlone, OnlyAt
<1>8. ASSUME NEW s \in Sids PROVE Carries(p, s)
  <2>1. SameMap(p, q, status, s)
    BY <1>2 DEF SameMap, Known, InDone, OutDone, Closing, Asked
  <2>2. /\ Holds(tasks'[p], "incoming", s) <=> Holds(tasks[p], "incoming", s)
        /\ Holds(tasks'[p], "outgoing", s) <=> Holds(tasks[p], "outgoing", s)
    BY <1>4 DEF SameResets
  <2>3. QED
    BY <1>5, <2>1, <2>2, CarriesMap
<1>9. QED
  BY <1>1, <1>2, <1>6, <1>7, <1>8, AskedStreams DEF Typed

LEMMA AssocChangeStreams ==
    ASSUME Typed, StreamsInv, NEW p \in Peers, OnNotificationAssocChange(p)
    PROVE  StreamsInv'
<1>1. PICK partial : partial = partial_outgoing_message_[p]
  OBVIOUS
<1>2. partial_outgoing_message_' = [partial_outgoing_message_ EXCEPT ![p] = partial]
  BY <1>1 DEF Typed, TypeOK, OnNotificationAssocChange
<1>3. out[p] \in Seq(Chunk)
  BY DEF Typed, TypeOK
<1>4. /\ Callback(p, "up") /\ UNCHANGED <<up, failures>>
      /\ SendQueuedStreamResets(p, stream_status_by_sid_[p], partial, out[p])
  BY <1>1 DEF OnNotificationAssocChange
<1>5. QED
  BY <1>2, <1>3, <1>4, CallbackStreams

\* When the rest of a message is gone without resets, its stream needs none.
LEMMA ThresholdStreams ==
    ASSUME Typed, StreamsInv, NEW p \in Peers, OnSendThresholdCallback(p)
    PROVE  StreamsInv'
<1>1. PICK q \in Peers : q = Peer(p) /\ q # p /\ \A r \in Peers : r = p \/ r = q
  BY PeerFacts
<1>2. Callback(p, "threshold") /\ UNCHANGED <<opens, failures, up>>
  BY DEF OnSendThresholdCallback, history
<1>3. \A r \in Peers : /\ SameResets(tasks'[r], tasks[r])
                       /\ Pending(tasks[r], Wakers) => Pending(tasks'[r], Wakers)
  <2>1. /\ tasks[p] # <<>> /\ tasks[p] \in Seq(Task) /\ Harmless(Head(tasks[p]))
        /\ tasks'[p] = Tail(tasks[p]) /\ tasks'[q] = tasks[q]
    BY <1>1, <1>2, CallbackEffect DEF Typed, Harmless
  <2>2. \A r \in Peers : SameResets(tasks'[r], tasks[r])
    BY <1>1, <2>1, HarmlessTaken, SameResetsRefl
  <2>3. "threshold" \notin Wakers
    BY DEF Wakers
  <2>4. \A r \in Peers : Pending(tasks[r], Wakers) => Pending(tasks'[r], Wakers)
    BY <1>2, <2>3, CallbackPending DEF Typed
  <2>5. QED
    BY <2>2, <2>4
<1>4. ASSUME UNCHANGED <<stream_status_by_sid_, resetting>>,
             \A x \in Peers : NeedsReset(stream_status_by_sid_[x], partial_outgoing_message_'[x])
                 \subseteq NeedsReset(stream_status_by_sid_[x], partial_outgoing_message_[x])
      PROVE  StreamsInv'
  <2>1. SameStreams
    BY <1>2, <1>3, <1>4 DEF SameStreams
  <2>2. ASSUME NEW x \in Peers PROVE ResetWoken(x)'
    <3>1. ResetWoken(x) /\ (CanReset(x)' <=> CanReset(x))
      BY <1>2, <1>4 DEF StreamsInv, CanReset
    <3>2. QED
      BY <1>3, <1>4, <3>1, WokenKept
  <2>3. QED
    BY <2>1, <2>2, SettledSame, StreamsFrom
<1>5. CASE UNCHANGED <<partial_outgoing_message_, stream_status_by_sid_, out, resetting>>
  BY <1>4, <1>5
<1>6. ASSUME NEW m \in Range(partial_outgoing_message_[p]), PartSent(p, m) \/ RestSent(p, m)
      PROVE  StreamsInv'
  <2>1. /\ m \in Message /\ DOMAIN partial_outgoing_message_[p] = {1}
        /\ m = partial_outgoing_message_[p][1]
    BY <1>6, BufferedMessage
  <2>2. \A x \in Peers : x # p => partial_outgoing_message_'[x] = partial_outgoing_message_[x]
    BY <1>6 DEF PartSent, RestSent, Typed, TypeOK
  <2>3. NeedsReset(stream_status_by_sid_[p], partial_outgoing_message_'[p])
            \subseteq NeedsReset(stream_status_by_sid_[p], partial_outgoing_message_[p])
    <3>1. CASE PartSent(p, m)
      <4>1. PICK x : x = [m EXCEPT !.left = Left(p, m)]
        OBVIOUS
      <4>2. x.sid = m.sid
        BY <2>1, <4>1 DEF Message
      <4>3. partial_outgoing_message_'[p] = <<x>>
        BY <3>1, <4>1 DEF PartSent, Typed, TypeOK
      <4>4. \A i \in DOMAIN partial_outgoing_message_[p] : \E j \in DOMAIN partial_outgoing_message_'[p] :
                partial_outgoing_message_'[p][j].sid = partial_outgoing_message_[p][i].sid
        BY <2>1, <4>2, <4>3
      <4>5. QED
        BY <4>4, NeedsAlike
    <3>2. CASE RestSent(p, m)
      BY <2>1, <3>2 DEF RestSent, NeedsReset
    <3>3. QED
      BY <1>6, <3>1, <3>2
  <2>4. \A x \in Peers : NeedsReset(stream_status_by_sid_[x], partial_outgoing_message_'[x])
            \subseteq NeedsReset(stream_status_by_sid_[x], partial_outgoing_message_[x])
    BY <2>2, <2>3
  <2>5. QED
    BY <1>4, <1>6, <2>4 DEF PartSent, RestSent
<1>7. ASSUME NEW m \in Range(partial_outgoing_message_[p]), RestSentThenResets(p, m)
      PROVE  StreamsInv'
  <2>1. m.left \in Nat /\ m.sid \in Sids /\ m.id \in Nat
    BY <1>7, BufferedMessage DEF Message
  <2>2. PICK o \in Seq(Chunk) : o = SentOn(p, m)
    BY <2>1, TakenFits DEF Typed
  <2>3. /\ SendQueuedStreamResets(p, stream_status_by_sid_[p], <<>>, o)
        /\ partial_outgoing_message_' = [partial_outgoing_message_ EXCEPT ![p] = <<>>]
    BY <1>7, <2>2 DEF RestSentThenResets
  <2>4. QED
    BY <1>2, <2>3, CallbackStreams
<1>8. QED
  BY <1>5, <1>6, <1>7, ThresholdCases

LEMMA ResetFailedStreams ==
    ASSUME Typed, ResetsInv, StreamsInv, NEW p \in Peers, OnStreamResetFailed(p)
    PROVE  StreamsInv'
<1>1. PICK q \in Peers : q = Peer(p) /\ p = Peer(q) /\ q # p
  BY PeerFacts
<1>2. PICK f \in StatusMap : f = stream_status_by_sid_[p]
  BY DEF Typed, TypeOK
<1>3. DOMAIN f \subseteq Sids /\ f \in [DOMAIN f -> StreamStatus]
  BY <1>2, StatusMaps
<1>4. PICK status \in StatusMap :
          status = [s \in DOMAIN f |-> [f[s] EXCEPT !.outgoing_reset_initiated = FALSE]]
  BY <1>2, MapsTyped DEF Typed
<1>5. /\ SendQueuedStreamResets(p, status, partial_outgoing_message_[p], out[p])
      /\ out[p] \in Seq(Chunk) /\ Callback(p, "failed")
      /\ UNCHANGED <<partial_outgoing_message_, up, failures>>
  BY <1>2, <1>4 DEF OnStreamResetFailed, Typed, TypeOK
<1>6. /\ tasks[p] # <<>> /\ tasks[p] \in Seq(Task) /\ Head(tasks[p]).kind = "failed"
      /\ tasks'[p] = Tail(tasks[p]) /\ tasks'[q] = tasks[q]
  BY <1>1, <1>5, CallbackEffect DEF Typed
<1>7. failures # 0
  <2>1. ~NoneRefused(p)
    BY <1>6 DEF NoneRefused
  <2>2. QED
    BY <2>1 DEF ResetsInv
<1>8. OnlyAt(p) /\ \A s \in Sids : MapBecomes(p, status, s)
  BY <1>5, QueuedResets DEF Typed
<1>9. LeftAlone(q)
  BY <1>1, <1>5, <1>6, <1>8 DEF LeftAlone, OnlyAt
<1>10. ASSUME NEW s \in Sids PROVE Carries(p, s)
  <2>1. /\ DOMAIN status = DOMAIN f
        /\ \A x \in DOMAIN f :
              /\ status[x].incoming_reset_complete = f[x].incoming_reset_complete
              /\ status[x].outgoing_reset_complete = f[x].outgoing_reset_complete
              /\ status[x].closure_initiated = f[x].closure_initiated
    BY <1>3, <1>4 DEF StreamStatus
  <2>2. SameMap(p, q, status, s)
    BY <1>2, <1>7, <2>1 DEF SameMap, Known, InDone, OutDone, Closing, Asked
  <2>3. ~Resets(Head(tasks[p]), "incoming", s) /\ ~Resets(Head(tasks[p]), "outgoing", s)
    BY <1>6 DEF Resets
  <2>4. /\ Holds(tasks'[p], "incoming", s) <=> Holds(tasks[p], "incoming", s)
        /\ Holds(tasks'[p], "outgoing", s) <=> Holds(tasks[p], "outgoing", s)
    BY <1>6, <2>3, HoldsTail
  <2>5. QED
    BY <1>8, <2>2, <2>4, CarriesMap
<1>11. QED
  BY <1>1, <1>5, <1>9, <1>10, AskedStreams DEF Typed

\* A stream that OnStreamResetEvent forgets had its reset conveyed and has the
\* peer's handled.
LEMMA CarriesMarked ==
    ASSUME NEW p \in Peers, NEW status, NEW s \in Sids, NEW sids, NEW incoming \in BOOLEAN,
           MapBecomes(p, status, s), MarkedMap(p, status, sids, incoming, s),
           tasks[p] \in Seq(Task), tasks[p] # <<>>, tasks'[p] = Tail(tasks[p]),
           Head(tasks[p]).kind = IF incoming THEN "incoming" ELSE "outgoing",
           Head(tasks[p]).sids = sids
    PROVE  Carries(p, s)
<1>1. /\ InDone(p, s)' <=> Known(p, s)' /\ (InDone(p, s) \/ (incoming /\ s \in sids))
      /\ OutDone(p, s)' <=> Known(p, s)' /\ (OutDone(p, s) \/ (~incoming /\ s \in sids))
      /\ Known(p, s)' => Known(p, s)
      /\ Known(p, s) /\ ~Known(p, s)' => /\ InDone(p, s) \/ (incoming /\ s \in sids)
                                         /\ OutDone(p, s) \/ (~incoming /\ s \in sids)
      /\ Known(p, s)' => ~(InDone(p, s)' /\ OutDone(p, s)')
  BY DEF MapBecomes, MarkedMap
<1>2. /\ Resets(Head(tasks[p]), "incoming", s) <=> incoming /\ s \in sids
      /\ Resets(Head(tasks[p]), "outgoing", s) <=> ~incoming /\ s \in sids
  BY DEF Resets
<1>3. /\ Holds(tasks[p], "incoming", s) <=> Holds(tasks'[p], "incoming", s) \/ (incoming /\ s \in sids)
      /\ Holds(tasks[p], "outgoing", s) <=> Holds(tasks'[p], "outgoing", s) \/ (~incoming /\ s \in sids)
  BY <1>2, HoldsTail
<1>4. ResetReceived(p, s) \/ (incoming /\ s \in sids) => ResetReceived(p, s)'
  BY <1>1 DEF ResetReceived
<1>5. QED
  BY <1>1, <1>3, <1>4 DEF Carries

LEMMA ResetEventStreams ==
    ASSUME Typed, StreamsInv, NEW p \in Peers, NEW kind \in {"incoming", "outgoing"},
           OnStreamResetEvent(p, kind)
    PROVE  StreamsInv'
<1>1. PICK q \in Peers : q = Peer(p) /\ p = Peer(q) /\ q # p
  BY PeerFacts
<1>2. PICK incoming \in BOOLEAN : incoming = (kind = "incoming")
  OBVIOUS
<1> DEFINE sids == Head(tasks[p]).sids
<1>3. PICK status \in StatusMap :
          status = WithoutClosed(Marked(stream_status_by_sid_[p], sids, incoming))
  BY MapsTyped DEF Typed
<1>4. /\ SendQueuedStreamResets(p, status, partial_outgoing_message_[p], out[p])
      /\ out[p] \in Seq(Chunk) /\ Callback(p, kind)
      /\ UNCHANGED <<partial_outgoing_message_, up, failures>>
  BY <1>2, <1>3 DEF OnStreamResetEvent, Typed, TypeOK
<1>5. /\ tasks[p] # <<>> /\ tasks[p] \in Seq(Task) /\ Head(tasks[p]).kind = kind
      /\ tasks'[p] = Tail(tasks[p]) /\ tasks'[q] = tasks[q]
  BY <1>1, <1>4, CallbackEffect DEF Typed
<1>6. OnlyAt(p) /\ \A s \in Sids : MapBecomes(p, status, s)
  BY <1>4, QueuedResets DEF Typed
<1>7. LeftAlone(q)
  BY <1>1, <1>4, <1>5, <1>6 DEF LeftAlone, OnlyAt
<1>8. ASSUME NEW s \in Sids PROVE Carries(p, s)
  <2>1. MarkedMap(p, status, sids, incoming, s)
    BY <1>3, MarkedMaps DEF Typed
  <2>2. Head(tasks[p]).kind = IF incoming THEN "incoming" ELSE "outgoing"
    BY <1>2, <1>5
  <2>3. QED
    BY <1>5, <1>6, <2>1, <2>2, CarriesMarked
<1>9. QED
  BY <1>1, <1>4, <1>7, <1>8, AskedStreams DEF Typed

-----------------------------------------------------------------------------
(* Resets under way, and streams opened again.                               *)

\* A step of usrsctp leaves the maps alone.
LEMMA FlagsSame ==
    ASSUME UNCHANGED stream_status_by_sid_, NEW r, NEW s
    PROVE  /\ Known(r, s)' <=> Known(r, s)
           /\ OutDone(r, s)' <=> OutDone(r, s)
           /\ InDone(r, s)' <=> InDone(r, s)
           /\ ResetReceived(r, s)' <=> ResetReceived(r, s)
           /\ ClosedForgotten(r, s)' <=> ClosedForgotten(r, s)
BY DEF Known, OutDone, InDone, ResetReceived, ClosedForgotten

LEMMA WokenPosted ==
    ASSUME NEW x, ResetWoken(x), UNCHANGED <<stream_status_by_sid_, partial_outgoing_message_, up>>,
           resetting'[x] = resetting[x], Range(tasks[x]) \subseteq Range(tasks'[x])
    PROVE  ResetWoken(x)'
<1>1. CanReset(x)' <=> CanReset(x)
  BY DEF CanReset
<1>2. Pending(tasks[x], Wakers) => Pending(tasks'[x], Wakers)
  BY PendingPosted
<1>3. QED
  BY <1>1, <1>2, WokenKept

LEMMA ConveyResetStreams ==
    ASSUME Typed, ResetsInv, StreamsInv, NEW p \in Peers, ConveyReset(p)
    PROVE  StreamsInv'
<1>1. PICK q \in Peers : q = Peer(p) /\ p = Peer(q) /\ q # p /\ \A r \in Peers : r = p \/ r = q
  BY PeerFacts
<1>2. /\ TypeOK /\ out[p] # <<>> /\ Head(out[p]).kind = "reset"
      /\ out[p] \in Seq(Chunk) /\ Head(out[p]).sids \subseteq Sids
  BY RequestAtHead DEF Typed, ConveyReset
<1>3. Head(out[p]).sids = resetting[p].sids
  <2>1. Head(out[p]) = out[p][1] /\ 1 \in DOMAIN out[p]
    BY <1>2
  <2>2. QED
    BY <1>2, <2>1 DEF ResetsInv, RequestsMatch
<1>4. PICK e \in Task : e = [kind |-> "incoming", sids |-> resetting[p].sids]
  BY <1>2, <1>3 DEF Task
<1>5. tasks[q] \in Seq(Task) /\ tasks'[q] = Append(tasks[q], e) /\ tasks'[p] = tasks[p]
  <2>1. tasks' = Posted(q, <<e>>)
    BY <1>1, <1>3, <1>4 DEF ConveyReset
  <2>2. QED
    BY <1>1, <1>2, <2>1, ResetStepsEffect DEF TypeOK
<1>6. /\ resetting'[q] = resetting[q]
      /\ resetting'[p].phase = "performed" /\ resetting'[p].sids = resetting[p].sids
  BY <1>1, <1>2 DEF ConveyReset, TypeOK
<1>7. UNCHANGED <<stream_status_by_sid_, partial_outgoing_message_, up, failures>>
  BY DEF ConveyReset
<1>8. ResetWoken(p)'
  <2>1. ~CanReset(p)'
    BY <1>6 DEF CanReset, NoReset
  <2>2. QED
    BY <2>1 DEF ResetWoken
<1>9. ResetWoken(q)'
  <2>1. Range(tasks[q]) \subseteq Range(tasks'[q])
    BY <1>5, AppendedRange
  <2>2. QED
    BY <1>6, <1>7, <2>1, WokenPosted DEF StreamsInv
<1>10. ASSUME failures # 0, NEW s \in Sids PROVE ResetArrives(p, s)' /\ ResetArrives(q, s)'
  <2>1. ResetArrives(p, s) /\ ResetArrives(q, s)
    BY <1>10 DEF StreamsInv
  <2>2. /\ Holds(tasks'[q], "incoming", s) <=> Holds(tasks[q], "incoming", s) \/ s \in resetting[p].sids
        /\ Holds(tasks'[q], "outgoing", s) <=> Holds(tasks[q], "outgoing", s)
    <3>1. /\ Resets(e, "incoming", s) <=> s \in resetting[p].sids
          /\ ~Resets(e, "outgoing", s)
      BY <1>4 DEF Resets
    <3>2. QED
      BY <1>5, <3>1, HoldsAppended
  <2>3. \A r \in Peers : /\ Known(r, s)' <=> Known(r, s)
                         /\ OutDone(r, s)' <=> OutDone(r, s)
                         /\ ResetReceived(r, s)' <=> ResetReceived(r, s)
    BY <1>7, FlagsSame
  <2>4. Conveyed(p, s)' => Conveyed(p, s) \/ s \in resetting[p].sids
    BY <1>5, <1>6, <2>3 DEF Conveyed
  <2>5. Conveyed(q, s)' => Conveyed(q, s)
    BY <1>6, <2>2, <2>3 DEF Conveyed
  <2>6. ResetArrives(p, s)'
    BY <1>1, <2>1, <2>2, <2>3, <2>4 DEF ResetArrives
  <2>7. ResetArrives(q, s)'
    BY <1>1, <1>5, <2>1, <2>3, <2>5 DEF ResetArrives
  <2>8. QED
    BY <2>6, <2>7
<1>11. \A r \in Peers, s \in Sids : ClosedForgotten(r, s)'
  BY <1>7, FlagsSame DEF StreamsInv
<1>12. QED
  BY <1>1, <1>7, <1>8, <1>9, <1>10, <1>11 DEF StreamsInv

\* The answer becomes a callback, which also sends what is queued.
LEMMA AnswerResetStreams ==
    ASSUME Typed, StreamsInv, NEW p \in Peers, AnswerReset(p)
    PROVE  StreamsInv'
<1>1. PICK q \in Peers : q = Peer(p) /\ p = Peer(q) /\ q # p /\ \A r \in Peers : r = p \/ r = q
  BY PeerFacts
<1>2. TypeOK /\ resetting[p].phase = "performed" /\ resetting[p].sids \subseteq Sids
  BY DEF Typed, TypeOK, AnswerReset
<1>3. PICK e \in Task : e = [kind |-> "outgoing", sids |-> resetting[p].sids]
  BY <1>2 DEF Task
<1>4. tasks[p] \in Seq(Task) /\ tasks'[p] = Append(tasks[p], e) /\ tasks'[q] = tasks[q]
  BY <1>1, <1>2, <1>3, ResetStepsEffect DEF AnswerReset, TypeOK
<1>5. resetting'[q] = resetting[q] /\ resetting'[p].sids = {}
  BY <1>1, <1>2 DEF AnswerReset, TypeOK, NoReset
<1>6. UNCHANGED <<stream_status_by_sid_, partial_outgoing_message_, up, failures>>
  BY DEF AnswerReset
<1>7. ResetWoken(p)'
  <2>1. e.kind \in Wakers
    BY <1>3 DEF Wakers
  <2>2. QED
    BY <1>4, <2>1, PendingAppended, WokenBy
<1>8. ResetWoken(q)'
  BY <1>4, <1>5, <1>6, WokenPosted DEF StreamsInv
<1>9. ASSUME failures # 0, NEW s \in Sids PROVE ResetArrives(p, s)' /\ ResetArrives(q, s)'
  <2>1. ResetArrives(p, s) /\ ResetArrives(q, s)
    BY <1>9 DEF StreamsInv
  <2>2. /\ Holds(tasks'[p], "outgoing", s) <=> Holds(tasks[p], "outgoing", s) \/ s \in resetting[p].sids
        /\ Holds(tasks'[p], "incoming", s) <=> Holds(tasks[p], "incoming", s)
    <3>1. /\ Resets(e, "outgoing", s) <=> s \in resetting[p].sids
          /\ ~Resets(e, "incoming", s)
      BY <1>3 DEF Resets
    <3>2. QED
      BY <1>4, <3>1, HoldsAppended
  <2>3. \A r \in Peers : /\ Known(r, s)' <=> Known(r, s)
                         /\ OutDone(r, s)' <=> OutDone(r, s)
                         /\ ResetReceived(r, s)' <=> ResetReceived(r, s)
    BY <1>6, FlagsSame
  <2>4. Conveyed(p, s)' => Conveyed(p, s)
    BY <1>2, <1>5, <2>2, <2>3 DEF Conveyed
  <2>5. Conveyed(q, s)' => Conveyed(q, s)
    BY <1>4, <1>5, <2>3 DEF Conveyed
  <2>6. ResetArrives(p, s)'
    BY <1>1, <1>4, <2>1, <2>3, <2>4 DEF ResetArrives
  <2>7. ResetArrives(q, s)'
    BY <1>1, <2>1, <2>2, <2>3, <2>5 DEF ResetArrives
  <2>8. QED
    BY <2>6, <2>7
<1>10. \A r \in Peers, s \in Sids : ClosedForgotten(r, s)'
  BY <1>6, FlagsSame DEF StreamsInv
<1>11. QED
  BY <1>1, <1>6, <1>7, <1>8, <1>9, <1>10 DEF StreamsInv

\* Before the first refusal the balance says that what was conveyed arrives.
LEMMA BalanceArrives ==
    ASSUME Typed, ResetsInv, failures = 0, NEW r \in Peers, NEW s \in Sids,
           \A x \in Peers : opens[x][s] = 1
    PROVE  ResetArrives(r, s)
<1>1. PICK x \in Peers : x = Peer(r)
  BY PeerFacts
<1>2. ResetsCounted(r, s)
  BY DEF ResetsInv
<1>3. PICK a \in 0 .. 1, b \in 0 .. 1, c \in 0 .. 1 :
           /\ a = 1 <=> ResetReceived(x, s)
           /\ b = 1 <=> Underway(r, s)
           /\ c = 1 <=> ResetSent(r, s)
           /\ opens[x][s] + a + b = opens[r][s] + c
  BY <1>1, <1>2, Balanced, CountedFor
<1>4. ResetSent(r, s) => ResetReceived(x, s) \/ Underway(r, s)
  BY <1>3
<1>5. Conveyed(r, s) => ResetSent(r, s)
  BY DEF Conveyed, ResetSent, InFlight
<1>6. Conveyed(r, s) => ~Unconveyed(r, s)
  <2>1. InFlight(r, s) => /\ Known(r, s) /\ ~OutDone(r, s)
                          /\ s \in resetting[r].sids => ~Holds(tasks[r], "outgoing", s)
    BY <1>1, <1>2, CountedFor
  <2>2. QED
    BY <2>1 DEF Conveyed, Unconveyed, InFlight
<1>7. QED
  BY <1>1, <1>4, <1>5, <1>6 DEF ResetArrives, Underway

LEMMA FailResetStreams ==
    ASSUME Typed, ResetsInv, StreamsInv, ~ReuseAfterRefusal, NEW p \in Peers, FailReset(p)
    PROVE  StreamsInv'
<1>1. PICK q \in Peers : q = Peer(p) /\ p = Peer(q) /\ q # p /\ \A r \in Peers : r = p \/ r = q
  BY PeerFacts
<1>2. TypeOK /\ \A r \in Peers, s \in Sids : opens[r][s] = 1
  BY DEF Typed, FailReset
<1>3. PICK e \in Task : e = [kind |-> "failed"]
  BY DEF Task
<1>4. tasks[p] \in Seq(Task) /\ tasks'[p] = Append(tasks[p], e) /\ tasks'[q] = tasks[q]
  BY <1>1, <1>2, <1>3, ResetStepsEffect DEF FailReset, TypeOK
<1>5. resetting'[q] = resetting[q] /\ resetting'[p].sids = {}
  BY <1>1, <1>2 DEF FailReset, TypeOK, NoReset
<1>6. UNCHANGED <<stream_status_by_sid_, partial_outgoing_message_, up>>
  BY DEF FailReset
<1>7. ResetWoken(p)'
  <2>1. e.kind \in Wakers
    BY <1>3 DEF Wakers
  <2>2. QED
    BY <1>4, <2>1, PendingAppended, WokenBy
<1>8. ResetWoken(q)'
  BY <1>4, <1>5, <1>6, WokenPosted DEF StreamsInv
<1>9. ASSUME NEW s \in Sids PROVE ResetArrives(p, s)' /\ ResetArrives(q, s)'
  <2>1. ResetArrives(p, s) /\ ResetArrives(q, s)
    BY <1>2, BalanceArrives DEF StreamsInv
  <2>2. /\ Holds(tasks'[p], "outgoing", s) <=> Holds(tasks[p], "outgoing", s)
        /\ Holds(tasks'[p], "incoming", s) <=> Holds(tasks[p], "incoming", s)
    <3>1. ~Resets(e, "outgoing", s) /\ ~Resets(e, "incoming", s)
      BY <1>3 DEF Resets
    <3>2. QED
      BY <1>4, <3>1, HoldsAppended
  <2>3. \A r \in Peers : /\ Known(r, s)' <=> Known(r, s)
                         /\ OutDone(r, s)' <=> OutDone(r, s)
                         /\ ResetReceived(r, s)' <=> ResetReceived(r, s)
    BY <1>6, FlagsSame
  <2>4. Conveyed(p, s)' => Conveyed(p, s)
    BY <1>5, <2>2, <2>3 DEF Conveyed
  <2>5. Conveyed(q, s)' => Conveyed(q, s)
    BY <1>4, <1>5, <2>3 DEF Conveyed
  <2>6. ResetArrives(p, s)'
    BY <1>1, <1>4, <2>1, <2>3, <2>4 DEF ResetArrives
  <2>7. ResetArrives(q, s)'
    BY <1>1, <2>1, <2>2, <2>3, <2>5 DEF ResetArrives
  <2>8. QED
    BY <2>6, <2>7
<1>10. \A r \in Peers, s \in Sids : ClosedForgotten(r, s)'
  BY <1>6, FlagsSame DEF StreamsInv
<1>11. QED
  BY <1>1, <1>7, <1>8, <1>9, <1>10 DEF StreamsInv

\* No stream is opened after a refusal, and a new one needs no reset.
LEMMA OpenStreamStreams ==
    ASSUME Typed, StreamsInv, ~ReuseAfterRefusal, NEW p \in Peers, NEW s \in Sids, OpenStream(p, s)
    PROVE  StreamsInv'
<1>1. PICK f \in StatusMap : f = stream_status_by_sid_[p]
  BY DEF Typed, TypeOK
<1>2. PICK g : g = [t \in DOMAIN f \cup {s} |-> IF t = s THEN NewStatus ELSE f[t]]
  OBVIOUS
<1>3. /\ s \notin DOMAIN f /\ failures = 0
      /\ stream_status_by_sid_' = [stream_status_by_sid_ EXCEPT ![p] = g]
      /\ UNCHANGED <<partial_outgoing_message_, tasks, up, resetting, failures>>
  BY <1>1, <1>2 DEF OpenStream, association
<1>4. /\ stream_status_by_sid_'[p] = g
      /\ \A x \in Peers : x # p => stream_status_by_sid_'[x] = stream_status_by_sid_[x]
  BY <1>3 DEF Typed, TypeOK
<1>5. /\ ~need_outgoing_reset(g[s]) /\ ~g[s].outgoing_reset_complete
      /\ DOMAIN g = DOMAIN f \cup {s} /\ \A t \in DOMAIN f : g[t] = f[t]
  BY <1>2, <1>3 DEF NewStatus, need_outgoing_reset
<1>6. ASSUME NEW x \in Peers PROVE ResetWoken(x)'
  <2>1. ResetWoken(x) /\ (CanReset(x)' <=> CanReset(x))
    BY <1>3 DEF StreamsInv, CanReset
  <2>2. NeedsReset(stream_status_by_sid_'[x], partial_outgoing_message_[x])
            \subseteq NeedsReset(stream_status_by_sid_[x], partial_outgoing_message_[x])
    <3>1. CASE x = p
      BY <1>1, <1>4, <1>5, <3>1 DEF NeedsReset
    <3>2. CASE x # p
      BY <1>4, <3>2
    <3>3. QED
      BY <3>1, <3>2
  <2>3. QED
    BY <1>3, <2>1, <2>2, WokenKept
<1>7. ASSUME NEW x \in Peers, NEW t \in Sids PROVE ClosedForgotten(x, t)'
  <2>1. ClosedForgotten(x, t)
    BY DEF StreamsInv
  <2>2. CASE x = p
    BY <1>1, <1>4, <1>5, <2>1, <2>2 DEF ClosedForgotten, OutDone, InDone, Known
  <2>3. CASE x # p
    BY <1>4, <2>1, <2>3 DEF ClosedForgotten, OutDone, InDone, Known
  <2>4. QED
    BY <2>2, <2>3
<1>8. QED
  BY <1>3, <1>6, <1>7 DEF StreamsInv

-----------------------------------------------------------------------------
(* The invariant, and what follows from it.                                  *)

LEMMA InitStreams ==
    ASSUME Init
    PROVE  StreamsInv
<1>1. \A p \in Peers : ~CanReset(p)
  BY DEF Init, CanReset
<1>2. \A p \in Peers, s \in Sids : ~OutDone(p, s)
  BY DEF Init, OutDone, NewStatus
<1>3. QED
  BY <1>1, <1>2 DEF StreamsInv, ResetWoken, ClosedForgotten, Init

LEMMA NextStreams ==
    ASSUME Typed, ResetsInv, StreamsInv, ~ReuseAfterRefusal, [Next]_vars
    PROVE  StreamsInv'
<1>1. CASE UNCHANGED vars
  <2>1. SameStreams /\ UNCHANGED <<up, tasks, partial_outgoing_message_>>
    BY <1>1, SameResetsRefl DEF vars, association, history, SameStreams
  <2>2. \A r \in Peers : ResetWoken(r)'
    BY <2>1 DEF StreamsInv, ResetWoken, CanReset, SameStreams
  <2>3. QED
    BY <2>1, <2>2, SettledSame, StreamsFrom
<1>2. CASE CommUp
  <2>1. PICK p : p \in Peers
    BY SctpConstants
  <2>2. QED
    BY <1>2, <2>1, QuietWoken DEF Typed
<1>3. ASSUME NEW p \in Peers, Application(p) PROVE StreamsInv'
  <2>1. CASE (\E limit \in Limits[p] : Start(p, limit)) \/ OnWritableState(p) \/ SendDataBlocked(p)
    BY <2>1, QuietWoken DEF Typed
  <2>2. ASSUME NEW w \in Writers, SendData(p, w[2], w[3]) PROVE StreamsInv'
    <3>1. w[2] \in Sids /\ w[3] \in Nat
      BY SctpConstants
    <3>2. QED
      BY <2>2, <3>1, SendDataStreams
  <2>3. QED
    BY <1>3, <2>1, <2>2, OpenStreamStreams, ResetStreamStreams DEF Application
<1>4. ASSUME NEW p \in Peers, Usrsctp(p) \/ FailReset(p) PROVE StreamsInv'
  <2>1. CASE ConveyData(p)
    BY <2>1, QuietWoken DEF Typed
  <2>2. QED
    BY <1>4, <2>1, ConveyResetStreams, AnswerResetStreams, FailResetStreams DEF Usrsctp
<1>5. ASSUME NEW p \in Peers, NetworkThread(p) PROVE StreamsInv'
  <2>1. CASE OnSenderDry(p) \/ OnDataFromSctp(p)
    BY <2>1, QuietWoken DEF Typed
  <2>2. QED
    BY <1>5, <2>1, AssocChangeStreams, ThresholdStreams, ResetFailedStreams, ResetEventStreams
       DEF NetworkThread
<1>6. QED
  BY <1>1, <1>2, <1>3, <1>4, <1>5 DEF Next

\* The inductive invariant: a stream that needs a reset which could be sent has
\* a callback coming that sends it; a stream that was reset in both directions
\* is forgotten (OnStreamResetEvent); and once resets were refused, every reset
\* that was conveyed has been handled by the peer or will be.
THEOREM StreamsWoken == ~ReuseAfterRefusal => (Spec => []StreamsInv)
<1>1. SUFFICES ASSUME ~ReuseAfterRefusal PROVE Spec => []StreamsInv
  OBVIOUS
<1>2. Init => StreamsInv
  BY InitStreams
<1>3. Typed /\ ResetsInv /\ StreamsInv /\ [Next]_vars => StreamsInv'
  BY <1>1, NextStreams
<1>4. Spec => []ResetsInv
  BY <1>1, ResetsAccounted
<1>5. QED
  BY <1>2, <1>3, <1>4, SctpTyped, PTL DEF Spec

\* When nothing is under way an end has sent every reset it owes.
LEMMA QuietEnd ==
    ASSUME Quiet, StreamsInv, WakeInv, NEW r \in Peers, NEW s \in Sids, ~Stranded(r, s), ~Oversize(r)
    PROVE  /\ Closing(r, s) \/ InDone(r, s) => OutDone(r, s)
           /\ ~Underway(r, s) /\ ~InFlight(r, s)
<1>1. /\ up[r] /\ out[r] = <<>> /\ tasks[r] = <<>> /\ resetting[r] = NoReset
      /\ Peer(r) \in Peers /\ tasks[Peer(r)] = <<>>
  BY PeerFacts DEF Quiet
<1>2. partial_outgoing_message_[r] = <<>>
  <2>1. StartedFirst(r) /\ WriterWoken(r)
    BY DEF WakeInv
  <2>2. ~(Held(out[r]) > 0)
    BY <1>1, EmptyHeld
  <2>3. ~Pending(tasks[r], {"threshold"})
    BY <1>1 DEF Pending, Range
  <2>4. QED
    BY <1>1, <2>1, <2>2, <2>3 DEF StartedFirst, WriterWoken
<1>3. NeedsReset(stream_status_by_sid_[r], <<>>) = {}
  <2>1. ResetWoken(r) /\ CanReset(r)
    BY <1>1 DEF StreamsInv, CanReset
  <2>2. ~Pending(tasks[r], {"up", "outgoing", "failed"})
    BY <1>1 DEF Pending, Range
  <2>3. QED
    BY <1>2, <2>1, <2>2 DEF ResetWoken
<1>4. Closing(r, s) \/ InDone(r, s) => Asked(r, s)
  BY <1>3 DEF NeedsReset, need_outgoing_reset, Closing, InDone, Asked, Known
<1>5. Asked(r, s) => OutDone(r, s)
  <2>1. ~(s \in resetting[r].sids) /\ DOMAIN tasks[r] = {}
    BY <1>1 DEF NoReset
  <2>2. QED
    BY <2>1 DEF Stranded, Initiated, Asked, OutDone, Known
<1>6. ~Underway(r, s) /\ ~InFlight(r, s)
  BY <1>1 DEF Underway, Unconveyed, InFlight, Holds, NoReset
<1>7. QED
  BY <1>4, <1>5, <1>6

\* No stream is stuck: when nothing is under way, a stream that is not open has
\* been reset in both directions at both ends and is forgotten, but for streams
\* that are stranded and ends whose buffered message has become too large.
THEOREM NoStreamIsStuck ==
    OneChangeOfLimit /\ ~ReuseAfterRefusal => (Spec => []NoStreamStuck)
<1>1. SUFFICES ASSUME OneChangeOfLimit, ~ReuseAfterRefusal PROVE Spec => []NoStreamStuck
  OBVIOUS
<1>2. TypeOK /\ ResetsInv /\ StreamsInv /\ WakeInv => NoStreamStuck
  <2>1. SUFFICES ASSUME TypeOK, ResetsInv, StreamsInv, WakeInv, Quiet,
                        NEW p \in Peers, NEW s \in DOMAIN stream_status_by_sid_[p],
                        ~is_open(stream_status_by_sid_[p][s]),
                        \A r \in Peers : ~Stranded(r, s) /\ ~Oversize(r)
                 PROVE  FALSE
    BY DEF NoStreamStuck
  <2>2. PICK q \in Peers : q = Peer(p) /\ p = Peer(q)
    BY PeerFacts
  <2>3. s \in Sids
    BY <2>1, StatusMaps DEF TypeOK
  <2>4. \A r \in Peers : /\ Closing(r, s) \/ InDone(r, s) => OutDone(r, s)
                         /\ ~Underway(r, s) /\ ~InFlight(r, s)
    BY <2>1, <2>3, QuietEnd
  <2>5. Known(p, s) /\ OutDone(p, s) /\ ~InDone(p, s)
    <3>1. Known(p, s) /\ ~Open(p, s)
      BY <2>1 DEF Known, Open
    <3>2. ClosedForgotten(p, s)
      BY <2>1, <2>3 DEF StreamsInv
    <3>3. QED
      BY <2>4, <3>1, <3>2, OpenIs DEF ClosedForgotten
  <2>6. ~ResetReceived(p, s) /\ ResetSent(p, s)
    BY <2>5 DEF ResetReceived, ResetSent
  <2>7. ~Known(q, s) \/ OutDone(q, s) \/ ~InDone(q, s)
    BY <2>4
  <2>8. CASE failures # 0
    <3>1. ResetArrives(p, s) /\ ResetArrives(q, s)
      BY <2>1, <2>3, <2>8 DEF StreamsInv
    <3>2. \A r \in Peers : ~Holds(tasks[r], "incoming", s)
      BY <2>1 DEF Quiet, Holds
    <3>3. ResetReceived(q, s)
      BY <2>2, <2>5, <3>1, <3>2 DEF ResetArrives, Conveyed
    <3>4. Conveyed(q, s)
      BY <2>7, <3>3 DEF ResetReceived, Conveyed
    <3>5. QED
      BY <2>2, <2>6, <3>1, <3>2, <3>4 DEF ResetArrives
  <2>9. CASE failures = 0
    <3>1. ResetsCounted(p, s) /\ ResetsCounted(q, s)
      BY <2>1, <2>3, <2>9 DEF ResetsInv
    <3>2. Balance(p, q, s) /\ Balance(q, p, s)
      BY <2>2, <3>1, CountedFor
    <3>3. PICK m \in Nat, n \in Nat : m = opens[p][s] /\ n = opens[q][s]
      BY <2>1, <2>3 DEF TypeOK
    <3>4. PICK a \in 0 .. 1, b \in 0 .. 1, c \in 0 .. 1 :
               /\ a = 1 <=> ResetReceived(q, s)
               /\ b = 1 <=> Underway(p, s)
               /\ c = 1 <=> ResetSent(p, s)
               /\ n + a + b = m + c
      BY <3>2, <3>3, Balanced
    <3>5. PICK d \in 0 .. 1, e \in 0 .. 1, f \in 0 .. 1 :
               /\ d = 1 <=> ResetReceived(p, s)
               /\ e = 1 <=> Underway(q, s)
               /\ f = 1 <=> ResetSent(q, s)
               /\ m + d + e = n + f
      BY <3>2, <3>3, Balanced
    <3>6. b = 0 /\ c = 1 /\ d = 0 /\ e = 0
      BY <2>4, <2>6, <3>4, <3>5
    <3>7. a = 1 /\ f = 0
      BY <3>4, <3>5, <3>6
    <3>8. InDone(q, s) /\ Known(q, s) /\ ~OutDone(q, s)
      BY <3>4, <3>5, <3>7 DEF ResetReceived, ResetSent
    <3>9. QED
      BY <2>4, <3>8
  <2>10. QED
    BY <2>8, <2>9
<1>3. Spec => []ResetsInv /\ []StreamsInv /\ []WakeInv
  BY <1>1, ResetsAccounted, StreamsWoken, WritersWoken
<1>4. Typed => TypeOK
  BY DEF Typed
<1>5. QED
  BY <1>2, <1>3, <1>4, SctpTyped, PTL

=============================================================================
