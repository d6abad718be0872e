------------------------ MODULE Gb28181SessionProofs ------------------------
(***************************************************************************)
(* Proofs of the safety properties of Gb28181Session, for every stream of  *)
(* frames and every way TCP may split it.                                  *)
(***************************************************************************)
EXTENDS Gb28181Session, SetSums, SequenceTheorems

-----------------------------------------------------------------------------
(* The byte stream.                                                        *)

LEMMA FramesTyped ==
    ASSUME frames \in Streams
    PROVE  /\ frames \in Seq(Frame) /\ Len(frames) \in Nat
           /\ \A k \in 1 .. Len(frames) :
                  /\ frames[k].start \in Nat /\ frames[k].len \in Nat
                  /\ frames[k].kind \in Kinds /\ frames[k].ssrc \in Nat
                  /\ EndOf(k) \in Nat /\ EndOf(k) = frames[k].start + 2 + frames[k].len
                  /\ frames[k].kind = "rtp96" => frames[k].len > 0
                  /\ frames[k].len < HalfSpan
           /\ TotalBytes \in Nat
<1>1. frames \in Seq(Frame)
  BY StreamsAssumption
<1>2. Len(frames) \in Nat /\ \A k \in 1 .. Len(frames) : frames[k] \in Frame
  BY <1>1
<1>3. \A k \in 1 .. Len(frames) :
          /\ frames[k].start \in Nat /\ frames[k].len \in Nat
          /\ frames[k].kind \in Kinds /\ frames[k].ssrc \in Nat
  BY <1>2 DEF Frame
<1>4. \A k \in 1 .. Len(frames) : EndOf(k) \in Nat
  BY <1>3 DEF EndOf
<1>5. TotalBytes \in Nat
  <2>1. CASE frames = <<>>
    BY <2>1 DEF TotalBytes
  <2>2. CASE frames # <<>>
    BY <1>1, <1>2, <1>4, <2>2 DEF TotalBytes
  <2>3. QED
    BY <2>1, <2>2
<1>6. QED
  BY <1>1, <1>2, <1>3, <1>4, <1>5, StreamsAssumption DEF EndOf

\* A frame ends before a later one starts: take the first later frame for
\* which it does not.
LEMMA FramesInOrder ==
    ASSUME frames \in Streams,
           NEW i \in 1 .. Len(frames), NEW j \in 1 .. Len(frames), i < j
    PROVE  EndOf(i) <= frames[j].start
<1> DEFINE U == {n \in 1 .. Len(frames) : i < n /\ ~(EndOf(i) <= frames[n].start)}
<1>1. Len(frames) \in Nat
  BY FramesTyped
<1>2. ASSUME U # {} PROVE FALSE
  <2>1. U \subseteq Nat
    BY <1>1
  <2>2. PICK n \in U : \A m \in U : n <= m
    BY <1>2, <2>1, LeastNatural
  <2>3. n \in 1 .. Len(frames) /\ i < n /\ ~(EndOf(i) <= frames[n].start)
    OBVIOUS
  <2>4. n - 1 \in 1 .. Len(frames) - 1 /\ n - 1 \in 1 .. Len(frames) /\ (n - 1) + 1 = n
    BY <1>1, <2>3
  <2>5. frames[n].start = frames[n - 1].start + 2 + frames[n - 1].len
    BY <2>4, StreamsAssumption
  <2>6. n - 1 \notin U
    BY <2>2, <2>4
  <2>7. i = n - 1 \/ EndOf(i) <= frames[n - 1].start
    BY <2>3, <2>4, <2>6
  <2>8. /\ EndOf(i) \in Nat /\ frames[n - 1].start \in Nat /\ frames[n - 1].len \in Nat
        /\ EndOf(i) = frames[i].start + 2 + frames[i].len
    BY <2>4, FramesTyped
  <2>9. EndOf(i) <= frames[n].start
    <3>1. CASE i = n - 1
      BY <2>5, <2>8, <3>1
    <3>2. CASE EndOf(i) <= frames[n - 1].start
      <4>1. PICK a \in Nat, b \in Nat, c \in Nat :
                a = EndOf(i) /\ b = frames[n - 1].start /\ c = frames[n - 1].len
        BY <2>8
      <4>2. frames[n].start = b + 2 + c /\ a <= b
        BY <2>5, <3>2, <4>1
      <4>3. a <= b + 2 + c
        BY <4>2
      <4>4. QED
        BY <4>1, <4>2, <4>3
    <3>3. QED
      BY <2>7, <3>1, <3>2
  <2>10. QED
    BY <2>3, <2>9
<1>3. j \notin U
  BY <1>2
<1>4. QED
  BY <1>3

LEMMA WithinStream ==
    ASSUME frames \in Streams, NEW k \in 1 .. Len(frames)
    PROVE  EndOf(k) <= TotalBytes /\ frames # <<>> /\ Len(frames) \in 1 .. Len(frames)
<1>1. frames \in Seq(Frame) /\ Len(frames) \in Nat /\ EndOf(k) \in Nat
  BY FramesTyped
<1>2. frames # <<>> /\ Len(frames) \in 1 .. Len(frames)
  BY <1>1
<1>3. TotalBytes = EndOf(Len(frames))
  BY <1>2 DEF TotalBytes
<1>4. CASE k = Len(frames)
  BY <1>1, <1>2, <1>3, <1>4
<1>5. CASE k < Len(frames)
  <2>1. EndOf(k) <= frames[Len(frames)].start
    BY <1>2, <1>5, FramesInOrder
  <2>2. /\ frames[Len(frames)].start \in Nat /\ frames[Len(frames)].len \in Nat
        /\ EndOf(Len(frames)) = frames[Len(frames)].start + 2 + frames[Len(frames)].len
    BY <1>2, FramesTyped
  <2>3. QED
    BY <1>1, <1>2, <1>3, <2>1, <2>2
<1>6. QED
  BY <1>1, <1>4, <1>5

\* At the start of a frame the parser reads that frame.
LEMMA ReadsFrame ==
    ASSUME frames \in Streams, NEW p, NEW l \in 1 .. Len(frames), p = frames[l].start
    PROVE  PacketAt(p) = l /\ LengthAt(p) = frames[l].len /\ FrameAt(p) # {}
<1>1. FrameAt(p) = {l}
  <2>1. ASSUME NEW k \in 1 .. Len(frames), frames[k].start = frames[l].start, k # l PROVE FALSE
    <3>1. /\ Len(frames) \in Nat
          /\ frames[k].start \in Nat /\ frames[k].len \in Nat /\ frames[l].len \in Nat
          /\ EndOf(k) = frames[k].start + 2 + frames[k].len
          /\ EndOf(l) = frames[l].start + 2 + frames[l].len
      BY FramesTyped
    <3>2. CASE k < l
      BY <2>1, <3>1, <3>2, FramesInOrder
    <3>3. CASE l < k
      BY <2>1, <3>1, <3>3, FramesInOrder
    <3>4. QED
      BY <2>1, <3>1, <3>2, <3>3
  <2>2. QED
    BY <2>1 DEF FrameAt
<1>2. PacketAt(p) = l
  BY <1>1 DEF PacketAt
<1>3. Signed(frames[l].len) = frames[l].len
  BY FramesTyped DEF Signed
<1>4. QED
  BY <1>1, <1>2, <1>3 DEF LengthAt

\* Frames end in order, and before byte p exactly those in front of frame l.
LEMMA EndsInOrder ==
    ASSUME frames \in Streams, NEW k \in 1 .. Len(frames), NEW l \in 1 .. Len(frames)
    PROVE  /\ EndOf(k) <= frames[l].start <=> k < l
           /\ EndOf(k) <= EndOf(l) <=> k <= l
<1>1. /\ Len(frames) \in Nat /\ EndOf(k) \in Nat /\ EndOf(l) \in Nat
      /\ frames[k].start \in Nat /\ frames[k].len \in Nat
      /\ frames[l].start \in Nat /\ frames[l].len \in Nat
      /\ EndOf(k) = frames[k].start + 2 + frames[k].len
      /\ EndOf(l) = frames[l].start + 2 + frames[l].len
  BY FramesTyped
<1>2. CASE k < l
  <2>1. EndOf(k) <= frames[l].start
    BY <1>2, FramesInOrder
  <2>2. EndOf(k) <= EndOf(l) /\ k <= l
    BY <1>1, <1>2, <2>1
  <2>3. QED
    BY <1>2, <2>1, <2>2
<1>3. CASE k = l
  <2>1. PICK c \in Nat, m \in Nat :
            c = frames[l].start /\ EndOf(k) = c + 2 + m /\ EndOf(l) = c + 2 + m
    BY <1>1, <1>3
  <2>2. ~(c + 2 + m <= c) /\ c + 2 + m <= c + 2 + m
    OBVIOUS
  <2>3. k <= l /\ ~(k < l)
    BY <1>1, <1>3
  <2>4. QED
    BY <2>1, <2>2, <2>3
<1>4. CASE l < k
  <2>1. EndOf(l) <= frames[k].start
    BY <1>4, FramesInOrder
  <2>2. PICK c \in Nat, m \in Nat :
            c = frames[k].start /\ EndOf(k) = c + 2 + m
    BY <1>1
  <2>3. PICK d \in Nat, n \in Nat :
            d = frames[l].start /\ EndOf(l) = d + 2 + n
    BY <1>1
  <2>4. d + 2 + n <= c
    BY <2>1, <2>2, <2>3
  <2>5. ~(EndOf(k) <= EndOf(l)) /\ ~(EndOf(k) <= frames[l].start)
    <3>1. ~(c + 2 + m <= d + 2 + n) /\ ~(c + 2 + m <= d)
      BY <2>4
    <3>2. QED
      BY <2>2, <2>3, <3>1
  <2>6. ~(k <= l) /\ ~(k < l)
    BY <1>1, <1>4
  <2>7. QED
    BY <2>5, <2>6
<1>5. QED
  BY <1>1, <1>2, <1>3, <1>4

\* When no whole frame is at the parser's position, the packets that are
\* complete are those in front of it.
LEMMA NothingBehind ==
    ASSUME frames \in Streams, NEW p \in Nat, NEW c \in Nat,
           FrameAt(p) # {} \/ p = TotalBytes, p <= c, c <= TotalBytes,
           ~WholeFrame(p, c)
    PROVE  \A k \in Packets : EndOf(k) <= c <=> EndOf(k) <= p
<1>1. SUFFICES ASSUME NEW k \in Packets PROVE EndOf(k) <= c <=> EndOf(k) <= p
  OBVIOUS
<1>2. /\ k \in 1 .. Len(frames) /\ EndOf(k) \in Nat /\ TotalBytes \in Nat
      /\ frames[k].len > 0 /\ frames[k].len \in Nat /\ frames[k].start \in Nat
      /\ EndOf(k) = frames[k].start + 2 + frames[k].len
  BY <1>1, FramesTyped DEF Packets
<1>3. CASE p = TotalBytes
  BY <1>2, <1>3, WithinStream
<1>4. CASE FrameAt(p) # {}
  <2>1. PICK l \in 1 .. Len(frames) : frames[l].start = p
    BY <1>4 DEF FrameAt
  <2>2. LengthAt(p) = frames[l].len
    BY <2>1, ReadsFrame
  <2>3. /\ frames[l].len \in Nat /\ Len(frames) \in Nat /\ EndOf(l) \in Nat
        /\ EndOf(l) = frames[l].start + 2 + frames[l].len
    BY FramesTyped
  <2>4. CASE k < l
    <3>1. EndOf(k) <= p
      BY <1>2, <2>1, <2>4, FramesInOrder
    <3>2. PICK e \in Nat : e = EndOf(k)
      BY <1>2
    <3>3. e <= p => e <= c
      OBVIOUS
    <3>4. QED
      BY <3>1, <3>2, <3>3
  <2>5. CASE k = l
    BY <1>2, <2>1, <2>2, <2>3, <2>5 DEF WholeFrame
  <2>6. CASE l < k
    <3>1. EndOf(l) <= frames[k].start
      BY <1>2, <2>6, FramesInOrder
    <3>2. EndOf(k) > p + frames[l].len + 2 /\ EndOf(k) > p + 2
      <4>1. PICK a \in Nat, b \in Nat, d \in Nat, m \in Nat, n \in Nat :
                /\ a = EndOf(k) /\ b = EndOf(l) /\ d = frames[k].start
                /\ m = frames[k].len /\ n = frames[l].len
        BY <1>2, <2>3
      <4>2. a = d + 2 + m /\ b = p + 2 + n /\ b <= d
        BY <1>2, <2>1, <2>3, <3>1, <4>1
      <4>3. a > p + n + 2 /\ a > p + 2
        BY <4>2
      <4>4. QED
        BY <4>1, <4>3
    <3>3. ~(c - p > 2) \/ ~(c - p >= frames[l].len + 2)
      BY <2>2 DEF WholeFrame
    <3>4. ~(EndOf(k) <= c) /\ ~(EndOf(k) <= p)
      <4>1. PICK e \in Nat, m \in Nat : e = EndOf(k) /\ m = frames[l].len
        BY <1>2, <2>3
      <4>2. /\ e > p + m + 2 /\ e > p + 2
            /\ ~(c - p > 2) \/ ~(c - p >= m + 2)
        BY <3>2, <3>3, <4>1, Zenon
      <4>3. ~(e <= c) /\ ~(e <= p)
        BY <4>2
      <4>4. QED
        BY <4>1, <4>3, Zenon
    <3>5. QED
      BY <3>4
  <2>7. QED
    BY <1>2, <2>3, <2>4, <2>5, <2>6
<1>5. QED
  BY <1>3, <1>4
-----------------------------------------------------------------------------
(* The queue of tasks.                                                     *)

\* t is q with what is posted for frame l behind it.
Extended(t, q, l, sees) ==
    /\ t \in Seq(Task) /\ Len(q) \in Nat
    /\ \A i \in 1 .. Len(q) : t[i] = q[i]
    /\ sees => Len(t) = Len(q) + 1 /\ t[Len(q) + 1] = Deliver(l)
    /\ ~sees => /\ Len(t) = Len(q) + 2
                /\ t[Len(q) + 1] = Create(l) /\ t[Len(q) + 2] = Deliver(l)

LEMMA TasksPosted ==
    ASSUME NEW q \in Seq(Task), NEW l \in Nat, NEW sees \in BOOLEAN, NEW t,
           t = q \o Posted(l, sees)
    PROVE  Extended(t, q, l, sees)
<1>1. Create(l) \in Task /\ Deliver(l) \in Task
  BY DEF Create, Deliver, Task
<1>2. PICK c \in Task, d \in Task : c = Create(l) /\ d = Deliver(l)
  BY <1>1
<1>3. PICK e \in Seq(Task) :
          /\ t = q \o e
          /\ sees => Len(e) = 1 /\ e[1] = d
          /\ ~sees => Len(e) = 2 /\ e[1] = c /\ e[2] = d
  <2>1. CASE sees
    <3>1. t = q \o <<d>> /\ <<d>> \in Seq(Task)
      BY <1>2, <2>1 DEF Posted
    <3>2. QED
      BY <2>1, <3>1
  <2>2. CASE ~sees
    <3>1. t = q \o <<c, d>> /\ <<c, d>> \in Seq(Task)
      BY <1>2, <2>2 DEF Posted
    <3>2. QED
      BY <2>2, <3>1
  <2>3. QED
    BY <2>1, <2>2
<1>4. /\ t \in Seq(Task) /\ Len(q) \in Nat /\ Len(e) \in Nat /\ Len(t) = Len(q) + Len(e)
      /\ \A i \in 1 .. Len(q) + Len(e) : t[i] = IF i <= Len(q) THEN q[i] ELSE e[i - Len(q)]
  BY <1>3, ConcatProperties, LenProperties
<1>5. \A i \in 1 .. Len(q) : t[i] = q[i]
  BY <1>4
<1>6. \A n \in 1 .. Len(e) : t[Len(q) + n] = e[n]
  BY <1>4
<1>7. CASE sees
  <2>1. Len(e) = 1 /\ e[1] = d /\ 1 \in 1 .. Len(e)
    BY <1>3, <1>7
  <2>2. QED
    BY <1>2, <1>4, <1>5, <1>6, <1>7, <2>1 DEF Extended
<1>8. CASE ~sees
  <2>1. Len(e) = 2 /\ e[1] = c /\ e[2] = d /\ 1 \in 1 .. Len(e) /\ 2 \in 1 .. Len(e)
    <3>1. Len(e) = 2 /\ e[1] = c /\ e[2] = d
      BY <1>3, <1>8, Zenon
    <3>2. 1 \in 1 .. 2 /\ 2 \in 1 .. 2
      OBVIOUS
    <3>3. QED
      BY <3>1, <3>2
  <2>2. t[Len(q) + 1] = c /\ t[Len(q) + 2] = d
    <3>1. t[Len(q) + 1] = e[1] /\ t[Len(q) + 2] = e[2]
      BY <1>6, <2>1, Zenon
    <3>2. QED
      BY <2>1, <3>1
  <2>3. Len(t) = Len(q) + 2
    BY <1>4, <2>1
  <2>4. QED
    BY <1>2, <1>4, <1>5, <1>8, <2>2, <2>3 DEF Extended
<1>9. QED
  BY <1>7, <1>8

LEMMA TaskTaken ==
    ASSUME NEW q \in Seq(Task), q # <<>>, NEW t, t = Tail(q)
    PROVE  /\ t \in Seq(Task) /\ Len(q) \in Nat /\ Len(q) >= 1 /\ Len(t) = Len(q) - 1
           /\ Head(q) = q[1] /\ q[1] \in Task
           /\ \A i \in 1 .. Len(t) : i + 1 \in 1 .. Len(q) /\ t[i] = q[i + 1]
  OBVIOUS
-----------------------------------------------------------------------------
(* The parser stays in step with the frames.                               *)

\* What a round of the loop finds.
LEMMA FindsWholeFrame ==
    ASSUME TypeOK, InStep, reading, WholeFrame(parse_at, consumed)
    PROVE  \E l \in 1 .. Len(frames) :
               /\ frames[l].start = parse_at /\ PacketAt(parse_at) = l
               /\ IsPacket(parse_at) <=> l \in Packets
               /\ parse_at + 2 + LengthAt(parse_at) = EndOf(l) /\ EndOf(l) <= consumed
<1>1. /\ frames \in Streams /\ TotalBytes \in Nat /\ parse_at \in Nat /\ consumed \in Nat
      /\ consumed <= TotalBytes
  BY FramesTyped DEF TypeOK
<1>2. parse_at # TotalBytes
  BY <1>1 DEF WholeFrame
<1>3. FrameAt(parse_at) # {}
  BY <1>2 DEF InStep, Position
<1>4. PICK l \in 1 .. Len(frames) : frames[l].start = parse_at
  BY <1>3 DEF FrameAt
<1>5. PacketAt(parse_at) = l /\ LengthAt(parse_at) = frames[l].len /\ FrameAt(parse_at) # {}
  BY <1>1, <1>4, ReadsFrame
<1>6. /\ frames[l].len \in Nat /\ EndOf(l) \in Nat
      /\ EndOf(l) = frames[l].start + 2 + frames[l].len
  BY <1>1, FramesTyped
<1>7. parse_at + 2 + LengthAt(parse_at) = EndOf(l)
  BY <1>4, <1>5, <1>6
<1>8. EndOf(l) <= consumed
  BY <1>1, <1>4, <1>5, <1>6 DEF WholeFrame
<1>9. IsPacket(parse_at) <=> l \in Packets
  BY <1>5 DEF IsPacket, Packets
<1>10. QED
  BY <1>4, <1>5, <1>7, <1>8, <1>9

\* The frame behind frame l, or the end of the stream.
LEMMA NextFrame ==
    ASSUME frames \in Streams, NEW l \in 1 .. Len(frames)
    PROVE  FrameAt(EndOf(l)) # {} \/ EndOf(l) = TotalBytes
<1>1. /\ Len(frames) \in Nat /\ frames \in Seq(Frame) /\ frames # <<>>
      /\ EndOf(l) = frames[l].start + 2 + frames[l].len
  BY FramesTyped, WithinStream
<1>2. CASE l = Len(frames)
  BY <1>1, <1>2 DEF TotalBytes
<1>3. CASE l # Len(frames)
  <2>1. l \in 1 .. Len(frames) - 1 /\ l + 1 \in 1 .. Len(frames)
    BY <1>1, <1>3
  <2>2. frames[l + 1].start = EndOf(l)
    BY <1>1, <2>1, StreamsAssumption
  <2>3. QED
    BY <2>1, <2>2 DEF FrameAt
<1>4. QED
  BY <1>2, <1>3

\* The parts of the stream depend on the frames only.
LEMMA StreamUnchanged ==
    ASSUME frames' = frames
    PROVE  /\ TotalBytes' = TotalBytes /\ Packets' = Packets
           /\ \A b : FrameAt(b)' = FrameAt(b)
           /\ \A k : EndOf(k)' = EndOf(k)
           /\ \A b, c : WholeFrame(b, c)' = WholeFrame(b, c)
  BY DEF TotalBytes, EndOf, Packets, FrameAt, WholeFrame, LengthAt, PacketAt

LEMMA NetworkTyped ==
    ASSUME TypeOK, InStep, Arrive \/ OnRead \/ ParseFrame \/ KeepTail
    PROVE  TypeOK' /\ InStep'
<1> USE DEF worker, network
<1>1. /\ frames \in Streams /\ TotalBytes \in Nat /\ arrived \in Nat /\ consumed \in Nat
      /\ parse_at \in Nat /\ recv_buffer_size_ \in Nat /\ arrived <= TotalBytes
      /\ consumed <= arrived /\ recv_buffer_size_ <= consumed /\ parse_at <= consumed
      /\ reading \in BOOLEAN
  BY FramesTyped DEF TypeOK
<1>2. CASE Arrive
  <2>1. PICK n \in arrived + 1 .. TotalBytes : arrived' = n
    BY <1>2 DEF Arrive
  <2>2. /\ frames' = frames /\ UNCHANGED <<consumed, recv_buffer_size_, reading, parse_at, tasks>>
        /\ UNCHANGED worker
    BY <1>2 DEF Arrive
  <2>3. TotalBytes' = TotalBytes
    BY <2>2, StreamUnchanged
  <2>4. arrived' \in 0 .. TotalBytes' /\ consumed' \in 0 .. arrived'
    BY <1>1, <2>1, <2>2, <2>3
  <2>5. TypeOK'
    BY <2>2, <2>4 DEF TypeOK
  <2>6. InStep'
    BY <2>2, StreamUnchanged DEF InStep, Position
  <2>7. QED
    BY <2>5, <2>6
<1>3. CASE OnRead
  <2>1. /\ ~reading /\ reading' = TRUE /\ consumed' = arrived
        /\ parse_at' = consumed - recv_buffer_size_ /\ recv_buffer_size_' = 0
        /\ frames' = frames /\ arrived' = arrived /\ tasks' = tasks /\ UNCHANGED worker
    BY <1>3 DEF OnRead
  <2>2. TotalBytes' = TotalBytes
    BY <2>1, StreamUnchanged
  <2>3. /\ arrived' \in 0 .. TotalBytes' /\ consumed' \in 0 .. arrived'
        /\ recv_buffer_size_' \in 0 .. consumed' /\ parse_at' \in 0 .. consumed'
    BY <1>1, <2>1, <2>2
  <2>4. TypeOK'
    BY <2>1, <2>3 DEF TypeOK
  <2>5. Position' = Position
    BY <2>1 DEF Position
  <2>6. InStep'
    BY <2>1, <2>2, <2>5, StreamUnchanged DEF InStep
  <2>7. QED
    BY <2>4, <2>6
<1>4. CASE ParseFrame
  <2>1. /\ reading /\ WholeFrame(parse_at, consumed)
        /\ parse_at' = parse_at + 2 + LengthAt(parse_at)
        /\ frames' = frames /\ arrived' = arrived /\ consumed' = consumed
        /\ recv_buffer_size_' = recv_buffer_size_ /\ reading' = reading /\ UNCHANGED worker
    BY <1>4 DEF ParseFrame
  <2>2. PICK l \in 1 .. Len(frames) :
            /\ PacketAt(parse_at) = l
            /\ parse_at' = EndOf(l) /\ EndOf(l) <= consumed
    BY <2>1, FindsWholeFrame
  <2>3. EndOf(l) \in Nat /\ l \in Nat /\ TotalBytes' = TotalBytes
    BY <1>1, <2>1, FramesTyped, StreamUnchanged
  <2>4. tasks' \in Seq(Task)
    <3>1. CASE IsPacket(parse_at)
      <4>1. PICK sees \in BOOLEAN : tasks' = tasks \o Posted(l, sees)
        BY <1>4, <2>2, <3>1 DEF ParseFrame, TypeOK
      <4>2. QED
        BY <2>3, <4>1, TasksPosted DEF TypeOK, Extended
    <3>2. CASE ~IsPacket(parse_at)
      BY <1>4, <3>2 DEF ParseFrame, TypeOK
    <3>3. QED
      BY <3>1, <3>2
  <2>5. /\ arrived' \in 0 .. TotalBytes' /\ consumed' \in 0 .. arrived'
        /\ recv_buffer_size_' \in 0 .. consumed' /\ parse_at' \in 0 .. consumed'
    BY <1>1, <2>1, <2>2, <2>3
  <2>6. TypeOK'
    BY <2>1, <2>4, <2>5 DEF TypeOK
  <2>7. FrameAt(EndOf(l)) # {} \/ EndOf(l) = TotalBytes
    BY <1>1, NextFrame
  <2>8. Position' = EndOf(l) /\ reading'
    BY <2>1, <2>2 DEF Position
  <2>9. InStep'
    BY <2>1, <2>3, <2>7, <2>8, StreamUnchanged DEF InStep
  <2>10. QED
    BY <2>6, <2>9
<1>5. CASE KeepTail
  <2>1. /\ reading /\ ~WholeFrame(parse_at, consumed) /\ reading' = FALSE /\ parse_at' = 0
        /\ recv_buffer_size_' = Unparsed
        /\ frames' = frames /\ arrived' = arrived /\ consumed' = consumed /\ tasks' = tasks
        /\ UNCHANGED worker
    BY <1>5 DEF KeepTail
  <2>2. TotalBytes' = TotalBytes
    BY <2>1, StreamUnchanged
  <2>3. recv_buffer_size_' = consumed - parse_at
    BY <1>1, <2>1 DEF Unparsed
  <2>4. /\ arrived' \in 0 .. TotalBytes' /\ consumed' \in 0 .. arrived'
        /\ recv_buffer_size_' \in 0 .. consumed' /\ parse_at' \in 0 .. consumed'
    BY <1>1, <2>1, <2>2, <2>3
  <2>5. TypeOK'
    BY <2>1, <2>4 DEF TypeOK
  <2>6. Position' = parse_at /\ Position = parse_at
    BY <1>1, <2>1, <2>3 DEF Position
  <2>7. InStep'
    BY <2>1, <2>2, <2>6, StreamUnchanged DEF InStep
  <2>8. QED
    BY <2>5, <2>7
<1>6. QED
  BY <1>2, <1>3, <1>4, <1>5

LEMMA WorkerTyped ==
    ASSUME TypeOK, InStep, RunTask
    PROVE  TypeOK' /\ InStep'
<1>1. /\ tasks # <<>> /\ tasks' = Tail(tasks) /\ frames' = frames /\ arrived' = arrived
      /\ UNCHANGED <<consumed, recv_buffer_size_, reading, parse_at>>
  BY DEF RunTask, network
<1>2. tasks' \in Seq(Task) /\ Head(tasks) \in Task
  BY <1>1, TaskTaken DEF TypeOK
<1>3. Head(tasks).frame \in Nat
  BY <1>2 DEF Task
<1>4. /\ rtp_stream_receive_controller_' \in BOOLEAN /\ video_receive_stream_' \in BOOLEAN
      /\ handed' \in Seq(Nat) /\ received' \in Seq(Nat)
  <2>1. CASE RunInit
    BY <2>1 DEF RunInit, TypeOK
  <2>2. CASE RunCreate
    BY <2>2 DEF RunCreate, TypeOK
  <2>3. CASE RunDeliver
    BY <1>3, <2>3 DEF RunDeliver, TypeOK
  <2>4. QED
    BY <2>1, <2>2, <2>3 DEF RunTask
<1>5. TypeOK'
  BY <1>1, <1>2, <1>4, StreamUnchanged DEF TypeOK
<1>6. InStep'
  BY <1>1, StreamUnchanged DEF InStep, Position
<1>7. QED
  BY <1>5, <1>6
-----------------------------------------------------------------------------
(* What a round of the loop and a task do to the queue.                    *)

Stays == tasks' = tasks

\* The packet of frame l is posted, with a creation in front if `created'.
Grows(l, sees) ==
    /\ l \in Packets
    /\ tasks' \in Seq(Task) /\ Len(tasks) \in Nat /\ Len(tasks') \in Nat
    /\ \A i \in 1 .. Len(tasks) : tasks'[i] = tasks[i]
    /\ Len(tasks') = Len(tasks) + (IF sees THEN 1 ELSE 2)
    /\ tasks'[Len(tasks')] = Deliver(l)
    /\ ~sees => tasks'[Len(tasks) + 1] = Create(l)
    /\ sees => video_receive_stream_

Shrinks ==
    /\ Len(tasks) \in Nat /\ Len(tasks) >= 1 /\ Len(tasks') = Len(tasks) - 1
    /\ Head(tasks) = tasks[1]
    /\ \A i \in 1 .. Len(tasks') : i + 1 \in 1 .. Len(tasks) /\ tasks'[i] = tasks[i + 1]

LEMMA RoundPosts ==
    ASSUME TypeOK, InStep, ParseFrame
    PROVE  \E l \in 1 .. Len(frames) :
               /\ frames[l].start = parse_at /\ parse_at' = EndOf(l) /\ EndOf(l) <= consumed
               /\ l \in Packets => \E sees \in BOOLEAN : Grows(l, sees)
               /\ l \notin Packets => Stays
<1>1. /\ reading /\ WholeFrame(parse_at, consumed)
      /\ parse_at' = parse_at + 2 + LengthAt(parse_at)
  BY DEF ParseFrame
<1>2. PICK l \in 1 .. Len(frames) :
          /\ frames[l].start = parse_at /\ PacketAt(parse_at) = l
          /\ IsPacket(parse_at) <=> l \in Packets
          /\ parse_at' = EndOf(l) /\ EndOf(l) <= consumed
  BY <1>1, FindsWholeFrame
<1>3. l \in Nat /\ tasks \in Seq(Task) /\ video_receive_stream_ \in BOOLEAN
  BY FramesTyped DEF TypeOK
<1>4. ASSUME l \in Packets PROVE \E sees \in BOOLEAN : Grows(l, sees)
  <2>1. PICK sees \in {FALSE, video_receive_stream_} : tasks' = tasks \o Posted(l, sees)
    BY <1>2, <1>4 DEF ParseFrame
  <2>2. sees \in BOOLEAN /\ (sees => video_receive_stream_)
    <3>1. CASE sees = FALSE
      BY <3>1
    <3>2. CASE sees = video_receive_stream_
      BY <1>3, <3>2
    <3>3. QED
      BY <2>1, <3>1, <3>2
  <2>3. /\ tasks' \in Seq(Task) /\ Len(tasks) \in Nat
        /\ \A i \in 1 .. Len(tasks) : tasks'[i] = tasks[i]
        /\ sees => Len(tasks') = Len(tasks) + 1 /\ tasks'[Len(tasks) + 1] = Deliver(l)
        /\ ~sees => /\ Len(tasks') = Len(tasks) + 2
                    /\ tasks'[Len(tasks) + 1] = Create(l)
                    /\ tasks'[Len(tasks) + 2] = Deliver(l)
    <3>1. PICK q \in Seq(Task), s \in BOOLEAN, t \in {tasks'} :
              q = tasks /\ s = sees /\ t = q \o Posted(l, s)
      BY <1>3, <2>1, <2>2
    <3>2. Extended(t, q, l, s)
      BY <1>3, <3>1, TasksPosted, Zenon
    <3>3. QED
      BY <3>1, <3>2, Zenon DEF Extended
  <2>4. CASE sees
    <3>1. Len(tasks') = Len(tasks) + 1 /\ tasks'[Len(tasks')] = Deliver(l) /\ Len(tasks') \in Nat
      BY <2>3, <2>4
    <3>2. Grows(l, TRUE)
      BY <1>4, <2>2, <2>3, <2>4, <3>1 DEF Grows
    <3>3. QED
      BY <3>2
  <2>5. CASE ~sees
    <3>1. /\ Len(tasks') = Len(tasks) + 2 /\ tasks'[Len(tasks')] = Deliver(l)
          /\ tasks'[Len(tasks) + 1] = Create(l)  /\ Len(tasks') \in Nat
      BY <2>3, <2>5
    <3>2. Grows(l, FALSE)
      BY <1>4, <2>3, <3>1 DEF Grows
    <3>3. QED
      BY <3>2
  <2>6. QED
    BY <2>4, <2>5
<1>5. ASSUME l \notin Packets PROVE Stays
  BY <1>2, <1>5 DEF ParseFrame, Stays
<1>6. QED
  BY <1>2, <1>4, <1>5

LEMMA TaskShrinks ==
    ASSUME TypeOK, RunTask
    PROVE  Shrinks /\ tasks[1] \in Task /\ tasks \in Seq(Task) /\ tasks # <<>>
<1>1. tasks \in Seq(Task) /\ tasks # <<>> /\ tasks' = Tail(tasks)
  BY DEF TypeOK, RunTask
<1>2. QED
  BY <1>1, TaskTaken DEF Shrinks

\* The delivery posted is the last one.
LEMMA DeliveriesPosted ==
    ASSUME NEW l, NEW sees \in BOOLEAN, Grows(l, sees)
    PROVE  /\ Len(tasks') \in Deliveries' /\ tasks'[Len(tasks')].frame = l
           /\ \A i \in Deliveries : i \in Deliveries' /\ i < Len(tasks') /\ tasks'[i] = tasks[i]
           /\ \A i \in Deliveries' : i = Len(tasks') \/ i \in Deliveries
<1> DEFINE n == Len(tasks)
           m == Len(tasks')
<1>1. /\ n \in Nat /\ m \in Nat /\ m = n + (IF sees THEN 1 ELSE 2)
      /\ \A i \in 1 .. n : tasks'[i] = tasks[i]
      /\ tasks'[m] = Deliver(l) /\ (~sees => tasks'[n + 1] = Create(l))
  BY DEF Grows
<1>2. tasks'[m].frame = l /\ tasks'[m].do = "deliver"
  BY <1>1 DEF Deliver
<1>3. ~sees => tasks'[n + 1].do # "deliver"
  BY <1>1 DEF Create
<1> HIDE DEF n, m
<1>4. m \in 1 .. m /\ \A i \in 1 .. n : i \in 1 .. m /\ i < m
  BY <1>1
<1>5. \A i \in 1 .. m : i \in 1 .. n \/ i = m \/ (~sees /\ i = n + 1)
  BY <1>1
<1>6. m \in Deliveries'
  BY <1>2, <1>4 DEF Deliveries, m
<1>7. \A i \in Deliveries : i \in 1 .. n /\ tasks[i].do = "deliver"
  BY DEF Deliveries, n
<1>8. \A i \in Deliveries : i \in Deliveries' /\ i < m /\ tasks'[i] = tasks[i]
  BY <1>1, <1>4, <1>7 DEF Deliveries, m
<1>9. \A i \in Deliveries' : i = m \/ i \in Deliveries
  <2>1. SUFFICES ASSUME NEW i \in Deliveries', i # m PROVE i \in Deliveries
    OBVIOUS
  <2>2. i \in 1 .. m /\ tasks'[i].do = "deliver"
    BY <2>1 DEF Deliveries, m
  <2>3. i \in 1 .. n
    BY <1>3, <1>5, <2>1, <2>2
  <2>4. tasks[i].do = "deliver"
    BY <1>1, <2>2, <2>3
  <2>5. QED
    BY <2>3, <2>4 DEF Deliveries, n
<1>10. QED
  BY <1>2, <1>6, <1>8, <1>9 DEF m

\* The other deliveries move up by one place.
LEMMA DeliveriesTaken ==
    ASSUME Shrinks
    PROVE  /\ \A i \in Deliveries' : i \in Nat /\ i + 1 \in Deliveries /\ tasks'[i] = tasks[i + 1]
           /\ \A j \in Deliveries :
                  /\ j \in Nat
                  /\ j # 1 => j - 1 \in Deliveries' /\ tasks'[j - 1] = tasks[j] /\ j > 1
           /\ 1 \in Deliveries <=> tasks[1].do = "deliver"
<1>1. /\ Len(tasks) \in Nat /\ Len(tasks) >= 1 /\ Len(tasks') = Len(tasks) - 1
      /\ \A i \in 1 .. Len(tasks') : i + 1 \in 1 .. Len(tasks) /\ tasks'[i] = tasks[i + 1]
  BY DEF Shrinks
<1>2. \A i \in Deliveries' : i \in Nat /\ i + 1 \in Deliveries /\ tasks'[i] = tasks[i + 1]
  BY <1>1 DEF Deliveries
<1>3. ASSUME NEW j \in Deliveries, j # 1
      PROVE  j - 1 \in Deliveries' /\ tasks'[j - 1] = tasks[j] /\ j > 1
  <2>1. j \in 1 .. Len(tasks) /\ tasks[j].do = "deliver"
    BY DEF Deliveries
  <2>2. j - 1 \in 1 .. Len(tasks') /\ (j - 1) + 1 = j /\ j > 1
    BY <1>1, <1>3, <2>1
  <2>3. tasks'[j - 1] = tasks[j]
    BY <1>1, <2>2
  <2>4. QED
    BY <2>1, <2>2, <2>3 DEF Deliveries
<1>4. \A j \in Deliveries : j \in Nat
  BY <1>1 DEF Deliveries
<1>5. 1 \in Deliveries <=> tasks[1].do = "deliver"
  BY <1>1 DEF Deliveries
<1>6. QED
  BY <1>2, <1>3, <1>4, <1>5
-----------------------------------------------------------------------------
(* The controller is there first.                                          *)

LEMMA ControllerKept ==
    ASSUME TypeOK, InStep, ControllerFirst, [Next]_vars
    PROVE  ControllerFirst'
<1>1. CASE tasks' = tasks /\ rtp_stream_receive_controller_' = rtp_stream_receive_controller_
  BY <1>1 DEF ControllerFirst
<1>2. CASE ParseFrame
  <2>1. rtp_stream_receive_controller_' = rtp_stream_receive_controller_
    BY <1>2 DEF ParseFrame, worker
  <2>2. CASE Stays
    BY <2>1, <2>2 DEF ControllerFirst, Stays
  <2>3. ASSUME NEW l, NEW sees \in BOOLEAN, Grows(l, sees) PROVE ControllerFirst'
    <3>1. /\ Len(tasks) \in Nat /\ Len(tasks') = Len(tasks) + (IF sees THEN 1 ELSE 2)
          /\ \A i \in 1 .. Len(tasks) : tasks'[i] = tasks[i]
          /\ tasks'[Len(tasks')] = Deliver(l)
          /\ ~sees => tasks'[Len(tasks) + 1] = Create(l)
      BY <2>3 DEF Grows
    <3>2. \A i \in 1 .. Len(tasks') :
              i \in 1 .. Len(tasks) \/ i = Len(tasks') \/ (~sees /\ i = Len(tasks) + 1)
      BY <3>1
    <3>3. \A i \in 1 .. Len(tasks') : i \notin 1 .. Len(tasks) => tasks'[i].do # "init"
      <4>1. Deliver(l).do # "init" /\ Create(l).do # "init"
        BY DEF Deliver, Create
      <4>2. QED
        BY <3>1, <3>2, <4>1
    <3>4. CASE rtp_stream_receive_controller_
      <4>1. \A i \in 1 .. Len(tasks) : tasks[i].do # "init"
        BY <3>4 DEF ControllerFirst
      <4>2. \A i \in 1 .. Len(tasks') : tasks'[i].do # "init"
        BY <3>1, <3>3, <4>1
      <4>3. QED
        BY <2>1, <3>4, <4>2 DEF ControllerFirst
    <3>5. CASE ~rtp_stream_receive_controller_
      <4>1. /\ tasks # <<>> /\ tasks[1].do = "init"
            /\ \A i \in 2 .. Len(tasks) : tasks[i].do # "init"
        BY <3>5 DEF ControllerFirst
      <4>2. tasks \in Seq(Task) /\ 1 \in 1 .. Len(tasks)
        BY <4>1 DEF TypeOK
      <4>3. tasks'[1].do = "init" /\ tasks' # <<>>
        BY <3>1, <4>1, <4>2
      <4>4. ASSUME NEW i \in 2 .. Len(tasks') PROVE tasks'[i].do # "init"
        <5>1. CASE i \in 1 .. Len(tasks)
          BY <3>1, <4>1, <5>1
        <5>2. CASE i \notin 1 .. Len(tasks)
          BY <3>1, <3>3, <5>2
        <5>3. QED
          BY <5>1, <5>2
      <4>5. QED
        BY <2>1, <3>5, <4>3, <4>4 DEF ControllerFirst
    <3>6. QED
      BY <3>4, <3>5
  <2>4. QED
    BY <1>2, <2>2, <2>3, RoundPosts
<1>3. CASE RunTask
  <2>1. Shrinks /\ tasks[1] \in Task
    BY <1>3, TaskShrinks
  <2>2. /\ Len(tasks) \in Nat /\ Len(tasks) >= 1 /\ Len(tasks') = Len(tasks) - 1
        /\ Head(tasks) = tasks[1]
        /\ \A i \in 1 .. Len(tasks') : i + 1 \in 1 .. Len(tasks) /\ tasks'[i] = tasks[i + 1]
    BY <2>1 DEF Shrinks
  <2>3. CASE rtp_stream_receive_controller_
    <3>1. \A i \in 1 .. Len(tasks) : tasks[i].do # "init"
      BY <2>3 DEF ControllerFirst
    <3>2. \A i \in 1 .. Len(tasks') : tasks'[i].do # "init"
      BY <2>2, <3>1
    <3>3. rtp_stream_receive_controller_'
      BY <1>3, <2>3 DEF RunTask, RunInit, RunCreate, RunDeliver
    <3>4. QED
      BY <3>2, <3>3 DEF ControllerFirst
  <2>4. CASE ~rtp_stream_receive_controller_
    <3>1. tasks[1].do = "init" /\ \A i \in 2 .. Len(tasks) : tasks[i].do # "init"
      BY <2>4 DEF ControllerFirst
    <3>2. rtp_stream_receive_controller_'
      BY <1>3, <2>2, <3>1 DEF RunTask, RunInit, RunCreate, RunDeliver
    <3>3. \A i \in 1 .. Len(tasks') : i + 1 \in 2 .. Len(tasks) /\ tasks'[i] = tasks[i + 1]
      BY <2>2
    <3>4. \A i \in 1 .. Len(tasks') : tasks'[i].do # "init"
      BY <3>1, <3>3
    <3>5. QED
      BY <3>2, <3>4 DEF ControllerFirst
  <2>5. QED
    BY <2>3, <2>4
<1>4. QED
  BY <1>1, <1>2, <1>3
     DEF Next, Arrive, OnRead, KeepTail, vars, worker
-----------------------------------------------------------------------------
(* Frames survive splitting.                                               *)

Limit == IF reading THEN parse_at ELSE consumed

Complete(byte) == {k \in Packets : EndOf(k) <= byte}

Underway == Elements(handed) \cup {tasks[i].frame : i \in Deliveries}

LEMMA SurviveParts ==
    FramesSurviveSplitting <=>
        /\ Ascending(handed)
        /\ \A i, j \in Deliveries : i < j => tasks[i].frame < tasks[j].frame
        /\ \A k \in Elements(handed), i \in Deliveries : k < tasks[i].frame
        /\ Underway = Complete(Limit)
  BY DEF FramesSurviveSplitting, Underway, Complete, Limit

LEMMA SplittingUnmoved ==
    ASSUME TypeOK, InStep, FramesSurviveSplitting, Arrive \/ OnRead \/ KeepTail
    PROVE  FramesSurviveSplitting'
<1>1. frames' = frames /\ tasks' = tasks /\ handed' = handed
  BY DEF Arrive, OnRead, KeepTail, worker
<1>2. /\ frames \in Streams /\ TotalBytes \in Nat /\ consumed \in Nat /\ arrived \in Nat
      /\ parse_at \in Nat /\ parse_at <= consumed /\ consumed <= TotalBytes
      /\ recv_buffer_size_ \in Nat /\ recv_buffer_size_ <= consumed /\ reading \in BOOLEAN
  BY FramesTyped DEF TypeOK
<1>3. Complete(Limit') = Complete(Limit)
  <2>1. CASE Arrive
    BY <2>1 DEF Arrive, Limit, network
  <2>2. CASE OnRead
    <3>1. /\ ~reading /\ Limit = consumed /\ Limit' = Position
          /\ Position = consumed - recv_buffer_size_
      BY <2>2 DEF OnRead, Limit, Position
    <3>2. Position \in Nat /\ Position <= consumed
      BY <1>2, <3>1
    <3>3. \A k \in Packets : EndOf(k) <= consumed <=> EndOf(k) <= Position
      BY <1>2, <3>1, <3>2, NothingBehind DEF InStep
    <3>4. QED
      BY <3>1, <3>3 DEF Complete
  <2>3. CASE KeepTail
    <3>1. /\ reading /\ Limit = parse_at /\ Limit' = consumed /\ Position = parse_at
          /\ ~WholeFrame(parse_at, consumed)
      BY <2>3 DEF KeepTail, Limit, Position
    <3>2. \A k \in Packets : EndOf(k) <= consumed <=> EndOf(k) <= parse_at
      BY <1>2, <3>1, NothingBehind DEF InStep
    <3>3. QED
      BY <3>1, <3>2 DEF Complete
  <2>4. QED
    BY <2>1, <2>2, <2>3
<1>4. Deliveries' = Deliveries
  BY <1>1 DEF Deliveries
<1>5. Underway' = Underway
  BY <1>1, <1>4 DEF Underway
<1>6. Complete(Limit)' = Complete(Limit')
  BY <1>1, StreamUnchanged DEF Complete
<1>7. Underway' = Complete(Limit)'
  BY <1>3, <1>5, <1>6, SurviveParts
<1>8. /\ Ascending(handed')
      /\ \A i, j \in Deliveries' : i < j => tasks'[i].frame < tasks'[j].frame
      /\ \A k \in Elements(handed'), i \in Deliveries' : k < tasks'[i].frame
  BY <1>1, <1>4, SurviveParts
<1>9. QED
  BY <1>7, <1>8 DEF FramesSurviveSplitting, Underway, Complete, Limit

LEMMA SplittingParsed ==
    ASSUME TypeOK, InStep, FramesSurviveSplitting, ParseFrame
    PROVE  FramesSurviveSplitting'
<1>1. frames' = frames /\ handed' = handed /\ reading /\ reading' = reading
  BY DEF ParseFrame, worker
<1>2. PICK l \in 1 .. Len(frames) :
          /\ frames[l].start = parse_at /\ parse_at' = EndOf(l)
          /\ l \in Packets => \E sees \in BOOLEAN : Grows(l, sees)
          /\ l \notin Packets => Stays
  BY RoundPosts
<1>3. Limit = parse_at /\ Limit' = EndOf(l)
  BY <1>1, <1>2 DEF Limit
<1>4. frames \in Streams /\ Len(frames) \in Nat
  BY FramesTyped DEF TypeOK
<1>5. \A k \in Packets : k \in 1 .. Len(frames)
  BY DEF Packets
<1>6. \A k \in Complete(parse_at) : k \in Packets /\ k \in Nat /\ k < l
  BY <1>2, <1>4, <1>5, EndsInOrder DEF Complete
<1>7. Complete(EndOf(l)) = Complete(parse_at) \cup (IF l \in Packets THEN {l} ELSE {})
  <2>1. \A k \in Packets : k \in Complete(EndOf(l)) <=> k <= l
    BY <1>4, <1>5, EndsInOrder DEF Complete
  <2>2. \A k \in Packets : k \in Complete(parse_at) <=> k < l
    BY <1>2, <1>4, <1>5, EndsInOrder DEF Complete
  <2>3. \A k \in Packets : k <= l <=> (k < l \/ k = l)
    BY <1>4, <1>5
  <2>4. l <= l
    BY <1>4
  <2>5. Complete(EndOf(l)) \subseteq Packets /\ Complete(parse_at) \subseteq Packets
    BY DEF Complete
  <2>6. QED
    BY <2>1, <2>2, <2>3, <2>4, <2>5
<1>8. Complete(Limit)' = Complete(EndOf(l))
  BY <1>1, <1>3, StreamUnchanged DEF Complete
<1>9. Underway = Complete(parse_at) /\ Elements(handed') = Elements(handed)
  BY <1>1, <1>3, SurviveParts
<1>10. CASE l \notin Packets
  <2>1. tasks' = tasks
    BY <1>2, <1>10 DEF Stays
  <2>2. Deliveries' = Deliveries
    BY <2>1 DEF Deliveries
  <2>3. Underway' = Underway
    BY <1>1, <2>1, <2>2 DEF Underway
  <2>4. Underway' = Complete(Limit)'
    BY <1>7, <1>8, <1>9, <1>10, <2>3
  <2>5. /\ Ascending(handed')
        /\ \A i, j \in Deliveries' : i < j => tasks'[i].frame < tasks'[j].frame
        /\ \A k \in Elements(handed'), i \in Deliveries' : k < tasks'[i].frame
    BY <1>1, <2>1, <2>2, SurviveParts
  <2>6. QED
    BY <2>4, <2>5 DEF FramesSurviveSplitting, Underway, Complete, Limit
<1>11. CASE l \in Packets
  <2>1. PICK sees \in BOOLEAN : Grows(l, sees)
    BY <1>2, <1>11
  <2> DEFINE m == Len(tasks')
  <2>2. /\ m \in Deliveries' /\ tasks'[m].frame = l
        /\ \A i \in Deliveries : i \in Deliveries' /\ i < m /\ tasks'[i] = tasks[i]
        /\ \A i \in Deliveries' : i = m \/ i \in Deliveries
    BY <2>1, DeliveriesPosted
  <2>3. m \in Nat /\ \A i \in Deliveries : i \in Nat
    BY <2>1 DEF Grows, Deliveries
  <2> HIDE DEF m
  <2>4. \A i \in Deliveries : tasks[i].frame \in Complete(parse_at)
    BY <1>9 DEF Underway
  <2>5. \A i \in Deliveries : tasks[i].frame < l
    BY <1>6, <2>4
  <2>6. \A i, j \in Deliveries' : i < j => tasks'[i].frame < tasks'[j].frame
    <3> SUFFICES ASSUME NEW i \in Deliveries', NEW j \in Deliveries', i < j
                 PROVE  tasks'[i].frame < tasks'[j].frame
      OBVIOUS
    <3>1. i \in Deliveries
      BY <2>2, <2>3
    <3>2. CASE j \in Deliveries
      BY <2>2, <3>1, <3>2, SurviveParts
    <3>3. CASE j = m
      BY <2>2, <2>5, <3>1, <3>3
    <3>4. QED
      BY <2>2, <3>2, <3>3
  <2>7. \A k \in Elements(handed'), i \in Deliveries' : k < tasks'[i].frame
    <3> SUFFICES ASSUME NEW k \in Elements(handed), NEW i \in Deliveries'
                 PROVE  k < tasks'[i].frame
      BY <1>9
    <3>1. CASE i \in Deliveries
      BY <2>2, <3>1, SurviveParts
    <3>2. CASE i = m
      <4>1. k < l
        BY <1>6, <1>9 DEF Underway
      <4>2. QED
        BY <2>2, <3>2, <4>1
    <3>3. QED
      BY <2>2, <3>1, <3>2
  <2>8. {tasks'[i].frame : i \in Deliveries'} = {tasks[i].frame : i \in Deliveries} \cup {l}
    <3>1. ASSUME NEW i \in Deliveries'
          PROVE  tasks'[i].frame \in {tasks[j].frame : j \in Deliveries} \cup {l}
      BY <2>2
    <3>2. ASSUME NEW i \in Deliveries
          PROVE  tasks[i].frame \in {tasks'[j].frame : j \in Deliveries'}
      BY <2>2
    <3>3. l \in {tasks'[j].frame : j \in Deliveries'}
      BY <2>2
    <3>4. QED
      BY <3>1, <3>2, <3>3
  <2>9. Underway' = Underway \cup {l}
    BY <1>9, <2>8 DEF Underway
  <2>10. Underway' = Complete(Limit)'
    BY <1>7, <1>8, <1>9, <1>11, <2>9
  <2>11. Ascending(handed')
    BY <1>1, SurviveParts
  <2>12. QED
    BY <2>6, <2>7, <2>10, <2>11 DEF FramesSurviveSplitting, Underway, Complete, Limit
<1>12. QED
  BY <1>10, <1>11

\* One element more at the end of a sequence.
LEMMA ElementsAppend ==
    ASSUME NEW s \in Seq(Nat), NEW x \in Nat
    PROVE  /\ Elements(Append(s, x)) = Elements(s) \cup {x}
           /\ Ascending(s) /\ (\A y \in Elements(s) : y < x) => Ascending(Append(s, x))
           /\ Append(s, x)[1] = IF s = <<>> THEN x ELSE s[1]
           /\ Append(s, x) # <<>>
<1> DEFINE a == Append(s, x)
           n == Len(s)
<1>1. n \in Nat /\ Len(a) = n + 1 /\ a[n + 1] = x /\ \A i \in 1 .. n : a[i] = s[i]
  OBVIOUS
<1>2. s = <<>> <=> n = 0
  OBVIOUS
<1>3. a # <<>> /\ a \in Seq(Nat)
  OBVIOUS
<1> HIDE DEF a, n
<1>4. Elements(s) = {s[i] : i \in 1 .. n} /\ Elements(a) = {a[i] : i \in 1 .. n + 1}
  BY <1>1 DEF Elements, n
<1>5. \A i \in 1 .. n + 1 : i \in 1 .. n \/ i = n + 1
  BY <1>1
<1>6. \A i \in 1 .. n : i \in 1 .. n + 1
  BY <1>1
<1>7. n + 1 \in 1 .. n + 1
  BY <1>1
<1>8. Elements(a) = Elements(s) \cup {x}
  <2>1. ASSUME NEW i \in 1 .. n + 1 PROVE a[i] \in Elements(s) \cup {x}
    BY <1>1, <1>4, <1>5
  <2>2. ASSUME NEW i \in 1 .. n PROVE s[i] \in Elements(a)
    BY <1>1, <1>4, <1>6
  <2>3. x \in Elements(a)
    BY <1>1, <1>4, <1>7
  <2>4. QED
    BY <1>4, <2>1, <2>2, <2>3
<1>9. ASSUME Ascending(s), \A y \in Elements(s) : y < x PROVE Ascending(a)
  <2>1. SUFFICES ASSUME NEW i \in 1 .. n + 1, NEW j \in 1 .. n + 1, i < j PROVE a[i] < a[j]
    BY <1>1 DEF Ascending
  <2>2. i \in 1 .. n
    BY <1>1, <2>1
  <2>3. CASE j \in 1 .. n
    BY <1>1, <1>9, <2>1, <2>2, <2>3 DEF Ascending, n
  <2>4. CASE j = n + 1
    BY <1>1, <1>4, <1>9, <2>2, <2>4
  <2>5. QED
    BY <1>5, <2>3, <2>4
<1>10. a[1] = IF s = <<>> THEN x ELSE s[1]
  BY <1>1, <1>2
<1>11. QED
  BY <1>3, <1>8, <1>9, <1>10 DEF a

LEMMA SplittingRun ==
    ASSUME TypeOK, FramesSurviveSplitting, RunTask
    PROVE  FramesSurviveSplitting'
<1>1. frames' = frames /\ Limit' = Limit
  BY DEF RunTask, network, Limit
<1>2. Shrinks /\ tasks[1] \in Task /\ Head(tasks) = tasks[1]
  BY TaskShrinks DEF Shrinks
<1>3. tasks[1].frame \in Nat
  BY <1>2 DEF Task
<1>4. /\ \A i \in Deliveries' : i \in Nat /\ i + 1 \in Deliveries /\ tasks'[i] = tasks[i + 1]
      /\ \A j \in Deliveries :
             j \in Nat /\ (j # 1 => j - 1 \in Deliveries' /\ tasks'[j - 1] = tasks[j] /\ j > 1)
      /\ 1 \in Deliveries <=> tasks[1].do = "deliver"
  BY <1>2, DeliveriesTaken
<1>5. \A i, j \in Deliveries' : i < j => tasks'[i].frame < tasks'[j].frame
  <2> SUFFICES ASSUME NEW i \in Deliveries', NEW j \in Deliveries', i < j
               PROVE  tasks'[i].frame < tasks'[j].frame
    OBVIOUS
  <2>1. i + 1 < j + 1 /\ i + 1 \in Deliveries /\ j + 1 \in Deliveries
    BY <1>4
  <2>2. tasks[i + 1].frame < tasks[j + 1].frame
    BY <2>1, SurviveParts
  <2>3. QED
    BY <1>4, <2>2
<1>6. Complete(Limit)' = Complete(Limit)
  BY <1>1, StreamUnchanged DEF Complete
<1>7. CASE tasks[1].do = "deliver"
  <2> DEFINE f == tasks[1].frame
  <2>1. handed' = Append(handed, f) /\ handed \in Seq(Nat)
    BY <1>2, <1>7 DEF RunTask, RunInit, RunCreate, RunDeliver, TypeOK
  <2>2. 1 \in Deliveries
    BY <1>4, <1>7
  <2>3. \A y \in Elements(handed) : y < f
    BY <2>2, SurviveParts
  <2>4. Elements(handed') = Elements(handed) \cup {f} /\ Ascending(handed')
    BY <1>3, <2>1, <2>3, ElementsAppend, SurviveParts
  <2>5. \A k \in Elements(handed'), i \in Deliveries' : k < tasks'[i].frame
    <3> SUFFICES ASSUME NEW k \in Elements(handed'), NEW i \in Deliveries'
                 PROVE  k < tasks'[i].frame
      OBVIOUS
    <3>1. i + 1 \in Deliveries /\ 1 < i + 1 /\ tasks'[i] = tasks[i + 1]
      <4>1. i \in Nat /\ i + 1 \in Deliveries /\ tasks'[i] = tasks[i + 1]
        BY <1>4
      <4>2. i # 0
        BY <1>2 DEF Deliveries
      <4>3. QED
        BY <4>1, <4>2
    <3>2. f < tasks[i + 1].frame
      BY <2>2, <3>1, SurviveParts
    <3>3. k \in Elements(handed) => k < tasks[i + 1].frame
      BY <3>1, SurviveParts
    <3>4. QED
      BY <2>4, <3>1, <3>2, <3>3
  <2>6. {tasks[i].frame : i \in Deliveries} = {f} \cup {tasks'[i].frame : i \in Deliveries'}
    <3>1. ASSUME NEW i \in Deliveries
          PROVE  tasks[i].frame \in {f} \cup {tasks'[j].frame : j \in Deliveries'}
      BY <1>4
    <3>2. ASSUME NEW i \in Deliveries'
          PROVE  tasks'[i].frame \in {tasks[j].frame : j \in Deliveries}
      BY <1>4
    <3>3. f \in {tasks[j].frame : j \in Deliveries}
      BY <2>2
    <3>4. QED
      BY <3>1, <3>2, <3>3
  <2>7. Underway' = Underway
    BY <2>4, <2>6 DEF Underway
  <2>8. Underway' = Complete(Limit)'
    BY <1>6, <2>7, SurviveParts
  <2>9. QED
    BY <1>5, <2>4, <2>5, <2>8 DEF FramesSurviveSplitting, Underway, Complete, Limit
<1>8. CASE tasks[1].do # "deliver"
  <2>1. handed' = handed
    BY <1>2, <1>8 DEF RunTask, RunInit, RunCreate, RunDeliver
  <2>2. 1 \notin Deliveries
    BY <1>4, <1>8
  <2>3. \A k \in Elements(handed'), i \in Deliveries' : k < tasks'[i].frame
    BY <1>4, <2>1, SurviveParts
  <2>4. {tasks[i].frame : i \in Deliveries} = {tasks'[i].frame : i \in Deliveries'}
    <3>1. ASSUME NEW i \in Deliveries
          PROVE  tasks[i].frame \in {tasks'[j].frame : j \in Deliveries'}
      BY <1>4, <2>2
    <3>2. ASSUME NEW i \in Deliveries'
          PROVE  tasks'[i].frame \in {tasks[j].frame : j \in Deliveries}
      BY <1>4
    <3>3. QED
      BY <3>1, <3>2
  <2>5. Underway' = Underway
    BY <2>1, <2>4 DEF Underway
  <2>6. Underway' = Complete(Limit)'
    BY <1>6, <2>5, SurviveParts
  <2>7. Ascending(handed')
    BY <2>1, SurviveParts
  <2>8. QED
    BY <1>5, <2>3, <2>6, <2>7 DEF FramesSurviveSplitting, Underway, Complete, Limit
<1>9. QED
  BY <1>7, <1>8
-----------------------------------------------------------------------------
(* One receive stream, which misses nothing.                               *)

FollowedByPacket ==
    \A i \in 1 .. Len(tasks) :
        tasks[i].do = "create" => i < Len(tasks) /\ tasks[i + 1] = Deliver(tasks[i].frame)

BehindCreation == \A i \in Deliveries : \E j \in 1 .. i - 1 : tasks[j].do = "create"

LEMMA SinkParts ==
    CreatedFor <=>
        /\ FollowedByPacket
        /\ ~video_receive_stream_ =>
               handed = <<>> /\ received = <<>> /\ sinks = <<>> /\ BehindCreation
        /\ video_receive_stream_ =>
               /\ handed # <<>> => sinks = <<frames[handed[1]].ssrc>>
               /\ handed = <<>> => /\ tasks # <<>> /\ tasks[1].do = "deliver"
                                   /\ sinks = <<frames[tasks[1].frame].ssrc>>
  BY DEF CreatedFor, FollowedByPacket, BehindCreation

LEMMA SinkWhenPosted ==
    ASSUME TypeOK, InStep, CreatedFor, OneSinkMissesNothing, ParseFrame
    PROVE  CreatedFor' /\ OneSinkMissesNothing'
<1>1. /\ frames' = frames /\ video_receive_stream_' = video_receive_stream_
      /\ sinks' = sinks /\ handed' = handed /\ received' = received
  BY DEF ParseFrame, worker
<1>2. OneSinkMissesNothing'
  BY <1>1 DEF OneSinkMissesNothing
<1>3. ASSUME Stays PROVE CreatedFor'
  BY <1>1, <1>3 DEF Stays, CreatedFor, Deliveries, Deliver
<1>4. ASSUME NEW l, NEW sees \in BOOLEAN, Grows(l, sees) PROVE CreatedFor'
  <2> DEFINE n == Len(tasks)
             m == Len(tasks')
  <2>1. /\ n \in Nat /\ m \in Nat /\ m = n + (IF sees THEN 1 ELSE 2)
        /\ \A i \in 1 .. n : tasks'[i] = tasks[i]
        /\ tasks'[m] = Deliver(l) /\ (~sees => tasks'[n + 1] = Create(l))
        /\ sees => video_receive_stream_
    BY <1>4 DEF Grows
  <2>2. tasks'[m].do = "deliver" /\ (~sees => tasks'[n + 1].do = "create" /\ tasks'[n + 1].frame = l)
    BY <2>1 DEF Deliver, Create
  <2>3. FollowedByPacket'
    <3>1. SUFFICES ASSUME NEW i \in 1 .. m, tasks'[i].do = "create"
                   PROVE  i < m /\ tasks'[i + 1] = Deliver(tasks'[i].frame)
      BY DEF FollowedByPacket, Deliver
    <3>2. CASE i \in 1 .. n
      <4>1. tasks[i].do = "create"
        BY <2>1, <3>1, <3>2
      <4>2. i < n /\ tasks[i + 1] = Deliver(tasks[i].frame)
        BY <3>2, <4>1, SinkParts DEF FollowedByPacket
      <4>3. i + 1 \in 1 .. n /\ i < m
        BY <2>1, <3>2, <4>2
      <4>4. QED
        BY <2>1, <3>2, <4>2, <4>3
    <3>3. CASE i \notin 1 .. n
      <4>1. i # m
        BY <2>2, <3>1
      <4>2. ~sees /\ i = n + 1 /\ i + 1 = m /\ i < m
        BY <2>1, <3>1, <3>3, <4>1
      <4>3. QED
        BY <2>1, <2>2, <4>2
    <3>4. QED
      BY <3>2, <3>3
  <2>4. ASSUME ~video_receive_stream_ PROVE BehindCreation'
    <3>1. ~sees /\ BehindCreation
      BY <2>1, <2>4, SinkParts
    <3>2. SUFFICES ASSUME NEW i \in Deliveries' PROVE \E j \in 1 .. i - 1 : tasks'[j].do = "create"
      BY DEF BehindCreation
    <3>3. i = m \/ i \in Deliveries
      BY <1>4, DeliveriesPosted
    <3>4. CASE i = m
      <4>1. n + 1 \in 1 .. m - 1
        BY <2>1, <3>1
      <4>2. QED
        BY <2>2, <3>1, <3>4, <4>1
    <3>5. CASE i \in Deliveries
      <4>1. PICK j \in 1 .. i - 1 : tasks[j].do = "create"
        BY <3>1, <3>5 DEF BehindCreation
      <4>2. i \in 1 .. n
        BY <3>5 DEF Deliveries
      <4>3. j \in 1 .. n
        BY <2>1, <4>1, <4>2
      <4>4. QED
        BY <2>1, <4>1, <4>3
    <3>6. QED
      BY <3>3, <3>4, <3>5
  <2>5. ASSUME video_receive_stream_, handed = <<>>
        PROVE  tasks' # <<>> /\ tasks'[1] = tasks[1]
    <3>1. tasks # <<>> /\ tasks \in Seq(Task)
      BY <2>5, SinkParts DEF TypeOK
    <3>2. 1 \in 1 .. n
      BY <3>1
    <3>3. QED
      BY <2>1, <3>2
  <2>6. QED
    BY <1>1, <2>3, <2>4, <2>5, SinkParts DEF CreatedFor, FollowedByPacket, BehindCreation
<1>5. QED
  BY <1>2, <1>3, <1>4, RoundPosts

LEMMA SinkWhenRun ==
    ASSUME TypeOK, FramesSurviveSplitting, CreatedFor, OneSinkMissesNothing, RunTask
    PROVE  CreatedFor' /\ OneSinkMissesNothing'
<1> DEFINE f == tasks[1].frame
<1>1. frames' = frames
  BY DEF RunTask
<1>2. Shrinks /\ tasks[1] \in Task /\ Head(tasks) = tasks[1] /\ tasks \in Seq(Task)
  BY TaskShrinks DEF Shrinks
<1>3. /\ Len(tasks) \in Nat /\ Len(tasks) >= 1 /\ Len(tasks') = Len(tasks) - 1
      /\ \A i \in 1 .. Len(tasks') : i + 1 \in 1 .. Len(tasks) /\ tasks'[i] = tasks[i + 1]
      /\ f \in Nat
  BY <1>2 DEF Shrinks, Task
<1>4. FollowedByPacket'
  <2>1. SUFFICES ASSUME NEW i \in 1 .. Len(tasks'), tasks'[i].do = "create"
                 PROVE  i < Len(tasks') /\ tasks'[i + 1] = Deliver(tasks'[i].frame)
    BY DEF FollowedByPacket, Deliver
  <2>2. i + 1 \in 1 .. Len(tasks) /\ tasks'[i] = tasks[i + 1]
    BY <1>3
  <2>3. i + 1 < Len(tasks) /\ tasks[(i + 1) + 1] = Deliver(tasks[i + 1].frame)
    BY <2>1, <2>2, SinkParts DEF FollowedByPacket
  <2>4. i < Len(tasks') /\ i + 1 \in 1 .. Len(tasks')
    BY <1>3, <2>1, <2>3
  <2>5. QED
    BY <1>3, <2>2, <2>3, <2>4
<1>5. ASSUME BehindCreation, tasks[1].do # "create" PROVE BehindCreation'
  <2>1. SUFFICES ASSUME NEW i \in Deliveries' PROVE \E j \in 1 .. i - 1 : tasks'[j].do = "create"
    BY DEF BehindCreation
  <2>2. i \in Nat /\ i + 1 \in Deliveries
    BY <1>2, DeliveriesTaken
  <2>3. PICK j \in 1 .. (i + 1) - 1 : tasks[j].do = "create"
    BY <1>5, <2>2 DEF BehindCreation
  <2>4. j # 1
    BY <1>5, <2>3
  <2>5. j - 1 \in 1 .. i - 1 /\ (j - 1) + 1 = j
    BY <2>2, <2>3, <2>4
  <2>6. i \in 1 .. Len(tasks')
    BY <2>1 DEF Deliveries
  <2>7. j - 1 \in 1 .. Len(tasks')
    BY <1>3, <2>2, <2>5, <2>6
  <2>8. tasks'[j - 1] = tasks[j]
    BY <1>3, <2>5, <2>7
  <2>9. QED
    BY <2>3, <2>5, <2>8
<1>6. CASE RunInit
  <2>1. /\ tasks[1].do = "init" /\ video_receive_stream_' = video_receive_stream_
        /\ sinks' = sinks /\ handed' = handed /\ received' = received
    BY <1>2, <1>6 DEF RunInit
  <2>2. video_receive_stream_ => handed # <<>>
    BY <2>1, SinkParts
  <2>3. ~video_receive_stream_ => BehindCreation'
    BY <1>5, <2>1, SinkParts
  <2>4. OneSinkMissesNothing'
    BY <1>1, <2>1 DEF OneSinkMissesNothing
  <2>5. CreatedFor'
    BY <1>1, <1>4, <2>1, <2>2, <2>3, SinkParts
       DEF CreatedFor, FollowedByPacket, BehindCreation
  <2>6. QED
    BY <2>4, <2>5
<1>7. CASE RunCreate
  <2>1. /\ tasks[1].do = "create" /\ video_receive_stream_' = TRUE
        /\ sinks' = IF video_receive_stream_ THEN sinks ELSE Append(sinks, frames[f].ssrc)
        /\ handed' = handed /\ received' = received
    BY <1>2, <1>7 DEF RunCreate
  <2>2. CASE video_receive_stream_
    <3>1. handed # <<>> /\ sinks' = sinks
      BY <2>1, <2>2, SinkParts
    <3>2. OneSinkMissesNothing'
      BY <1>1, <2>1, <3>1 DEF OneSinkMissesNothing
    <3>3. CreatedFor'
      BY <1>1, <1>4, <2>1, <2>2, <3>1, SinkParts
         DEF CreatedFor, FollowedByPacket
    <3>4. QED
      BY <3>2, <3>3
  <2>3. CASE ~video_receive_stream_
    <3>1. handed = <<>> /\ received = <<>> /\ sinks = <<>>
      BY <2>3, SinkParts
    <3>2. sinks' = <<frames[f].ssrc>>
      BY <2>1, <2>3, <3>1
    <3>3. 1 < Len(tasks) /\ tasks[1 + 1] = Deliver(f)
      BY <1>3, <2>1, SinkParts DEF FollowedByPacket
    <3>4. tasks'[1] = Deliver(f) /\ tasks' # <<>>
      BY <1>3, <3>3
    <3>5. tasks'[1].do = "deliver" /\ tasks'[1].frame = f
      BY <3>4 DEF Deliver
    <3>6. CreatedFor'
      BY <1>1, <1>4, <2>1, <3>1, <3>2, <3>4, <3>5 DEF CreatedFor, FollowedByPacket
    <3>7. Len(sinks') <= 1
      BY <3>2
    <3>8. OneSinkMissesNothing'
      BY <1>1, <2>1, <3>7 DEF OneSinkMissesNothing
    <3>9. QED
      BY <3>6, <3>8
  <2>4. QED
    BY <2>2, <2>3
<1>8. CASE RunDeliver
  <2>1. /\ tasks[1].do = "deliver" /\ handed' = Append(handed, f)
        /\ received' = IF \E i \in 1 .. Len(sinks) : sinks[i] = frames[f].ssrc
                       THEN Append(received, f) ELSE received
        /\ video_receive_stream_' = video_receive_stream_ /\ sinks' = sinks
    BY <1>2, <1>8 DEF RunDeliver
  <2>2. 1 \in Deliveries
    BY <1>2, <2>1, DeliveriesTaken
  <2>3. video_receive_stream_
    <3>1. ~BehindCreation
      BY <2>2 DEF BehindCreation
    <3>2. QED
      BY <3>1, SinkParts
  <2>4. handed \in Seq(Nat) /\ received \in Seq(Nat)
    BY DEF TypeOK
  <2>5. PICK x : x = frames[handed'[1]].ssrc
    OBVIOUS
  <2>6. /\ handed' # <<>> /\ handed'[1] = (IF handed = <<>> THEN f ELSE handed[1])
        /\ Elements(handed') = Elements(handed) \cup {f}
    BY <1>3, <2>1, <2>4, ElementsAppend
  <2>7. sinks = <<x>>
    <3>1. CASE handed = <<>>
      BY <2>3, <2>5, <2>6, <3>1, SinkParts
    <3>2. CASE handed # <<>>
      BY <2>3, <2>5, <2>6, <3>2, SinkParts
    <3>3. QED
      BY <3>1, <3>2
  <2>8. CreatedFor'
    BY <1>1, <1>4, <2>1, <2>3, <2>5, <2>6, <2>7 DEF CreatedFor, FollowedByPacket
  <2>9. Elements(received) = {k \in Elements(handed) : frames[k].ssrc = x}
    <3>1. CASE handed = <<>>
      <4>1. Elements(handed) = {}
        BY <3>1 DEF Elements
      <4>2. QED
        BY <4>1 DEF OneSinkMissesNothing
    <3>2. CASE handed # <<>>
      BY <2>5, <2>6, <3>2 DEF OneSinkMissesNothing
    <3>3. QED
      BY <3>1, <3>2
  <2>10. \A y \in Elements(received) : y < f
    BY <2>2, <2>9, SurviveParts
  <2>11. (\E i \in 1 .. Len(sinks) : sinks[i] = frames[f].ssrc) <=> frames[f].ssrc = x
    <3>1. Len(sinks) = 1 /\ sinks[1] = x
      BY <2>7
    <3>2. \A i \in 1 .. 1 : i = 1
      OBVIOUS
    <3>3. 1 \in 1 .. 1
      OBVIOUS
    <3>4. QED
      BY <3>1, <3>2, <3>3, Zenon
  <2>12. /\ Ascending(received')
         /\ Elements(received') = {k \in Elements(handed') : frames[k].ssrc = x}
    <3>1. CASE frames[f].ssrc = x
      <4>1. received' = Append(received, f)
        BY <2>1, <2>11, <3>1
      <4>2. Elements(received') = Elements(received) \cup {f}
        BY <1>3, <2>4, <4>1, ElementsAppend
      <4>3. Ascending(received')
        BY <1>3, <2>4, <2>10, <4>1, ElementsAppend DEF OneSinkMissesNothing
      <4>4. QED
        BY <2>6, <2>9, <3>1, <4>2, <4>3
    <3>2. CASE frames[f].ssrc # x
      <4>1. received' = received
        BY <2>1, <2>11, <3>2
      <4>2. QED
        BY <2>6, <2>9, <3>2, <4>1 DEF OneSinkMissesNothing
    <3>3. QED
      BY <3>1, <3>2
  <2>13. OneSinkMissesNothing'
    <3>1. Len(sinks') <= 1
      BY <2>1, <2>7
    <3>2. QED
      BY <1>1, <2>5, <2>12, <3>1 DEF OneSinkMissesNothing
  <2>14. QED
    BY <2>8, <2>13
<1>9. QED
  BY <1>6, <1>7, <1>8 DEF RunTask
-----------------------------------------------------------------------------
(* The theorems.                                                           *)

LEMMA InitEstablishes == Init => GInv
<1> SUFFICES ASSUME Init PROVE GInv
  OBVIOUS
<1>1. /\ frames \in Streams /\ arrived = 0 /\ consumed = 0 /\ recv_buffer_size_ = 0
      /\ reading = FALSE /\ parse_at = 0 /\ tasks = <<[do |-> "init", frame |-> 0]>>
      /\ ~rtp_stream_receive_controller_ /\ ~video_receive_stream_
      /\ rtp_stream_receive_controller_ \in BOOLEAN /\ video_receive_stream_ \in BOOLEAN
      /\ sinks = <<>> /\ handed = <<>> /\ received = <<>>
  BY DEF Init
<1>2. /\ frames \in Seq(Frame) /\ Len(frames) \in Nat /\ TotalBytes \in Nat
      /\ \A k \in 1 .. Len(frames) : EndOf(k) \in Nat /\ EndOf(k) >= 2
  <2>1. frames \in Seq(Frame) /\ Len(frames) \in Nat /\ TotalBytes \in Nat
    BY <1>1, FramesTyped
  <2>2. ASSUME NEW k \in 1 .. Len(frames) PROVE EndOf(k) \in Nat /\ EndOf(k) >= 2
    <3>1. PICK a \in Nat, b \in Nat : EndOf(k) = a + 2 + b
      BY <1>1, FramesTyped
    <3>2. a + 2 + b \in Nat /\ a + 2 + b >= 2
      OBVIOUS
    <3>3. QED
      BY <3>1, <3>2
  <2>3. QED
    BY <2>1, <2>2
<1>3. Len(tasks) = 1 /\ tasks[1].do = "init" /\ tasks \in Seq(Task) /\ tasks # <<>>
  BY <1>1 DEF Task
<1>4. Deliveries = {}
  <2>1. \A i \in 1 .. 1 : i = 1
    OBVIOUS
  <2>2. QED
    BY <1>3, <2>1 DEF Deliveries
<1>5. TypeOK
  <2>1. handed \in Seq(Nat) /\ received \in Seq(Nat)
    BY <1>1
  <2>2. /\ arrived \in 0 .. TotalBytes /\ consumed \in 0 .. arrived
        /\ recv_buffer_size_ \in 0 .. consumed /\ parse_at \in 0 .. consumed
    BY <1>1, <1>2
  <2>3. QED
    BY <1>1, <1>3, <2>1, <2>2 DEF TypeOK
<1>6. InStep
  <2>1. Position = 0
    BY <1>1 DEF Position
  <2>2. ~WholeFrame(0, 0)
    BY DEF WholeFrame
  <2>3. FrameAt(0) # {} \/ TotalBytes = 0
    <3>1. CASE frames = <<>>
      BY <3>1 DEF TotalBytes
    <3>2. CASE frames # <<>>
      <4>1. frames[1].start = 0 /\ 1 \in 1 .. Len(frames)
        BY <1>1, <1>2, <3>2, StreamsAssumption
      <4>2. QED
        BY <4>1 DEF FrameAt
    <3>3. QED
      BY <3>1, <3>2
  <2>4. QED
    BY <1>1, <2>1, <2>2, <2>3 DEF InStep
<1>7. Elements(handed) = {} /\ Elements(received) = {} /\ Ascending(handed) /\ Ascending(received)
  BY <1>1 DEF Elements, Ascending
<1>8. FramesSurviveSplitting
  <2>1. {k \in Packets : EndOf(k) <= 0} = {}
    BY <1>2 DEF Packets
  <2>2. QED
    BY <1>1, <1>4, <1>7, <2>1 DEF FramesSurviveSplitting
<1>9. ControllerFirst
  BY <1>1, <1>3 DEF ControllerFirst
<1>10. CreatedFor
  <2>1. \A i \in 1 .. Len(tasks) : tasks[i].do # "create"
    BY <1>3
  <2>2. QED
    BY <1>1, <1>4, <2>1 DEF CreatedFor
<1>11. OneSinkMissesNothing
  BY <1>1, <1>7 DEF OneSinkMissesNothing
<1>12. QED
  BY <1>5, <1>6, <1>8, <1>9, <1>10, <1>11 DEF GInv

LEMMA StepPreserves == GInv /\ [Next]_vars => GInv'
<1> SUFFICES ASSUME GInv, [Next]_vars PROVE GInv'
  OBVIOUS
<1>1. /\ TypeOK /\ InStep /\ FramesSurviveSplitting /\ ControllerFirst /\ CreatedFor
      /\ OneSinkMissesNothing
  BY DEF GInv
<1>2. ControllerFirst'
  BY <1>1, ControllerKept
<1>3. CASE Arrive \/ OnRead \/ KeepTail
  <2>1. TypeOK' /\ InStep' /\ FramesSurviveSplitting'
    BY <1>1, <1>3, NetworkTyped, SplittingUnmoved
  <2>2. frames' = frames /\ tasks' = tasks /\ UNCHANGED worker
    BY <1>3 DEF Arrive, OnRead, KeepTail
  <2>3. CreatedFor' /\ OneSinkMissesNothing'
    BY <1>1, <2>2 DEF CreatedFor, OneSinkMissesNothing, Deliveries, worker
  <2>4. QED
    BY <1>2, <2>1, <2>3 DEF GInv
<1>4. CASE ParseFrame
  BY <1>1, <1>2, <1>4, NetworkTyped, SplittingParsed, SinkWhenPosted DEF GInv
<1>5. CASE RunTask
  BY <1>1, <1>2, <1>5, WorkerTyped, SplittingRun, SinkWhenRun DEF GInv
<1>6. CASE UNCHANGED vars
  <2>1. UNCHANGED <<frames, arrived, consumed, recv_buffer_size_, reading, parse_at, tasks>>
        /\ UNCHANGED <<rtp_stream_receive_controller_, video_receive_stream_, sinks, handed,
                       received>>
    BY <1>6 DEF vars, network, worker
  <2>2. TypeOK'
    BY <1>1, <2>1, StreamUnchanged DEF TypeOK
  <2>3. InStep'
    BY <1>1, <2>1, StreamUnchanged DEF InStep, Position
  <2>4. FramesSurviveSplitting'
    BY <1>1, <2>1, StreamUnchanged DEF FramesSurviveSplitting, Deliveries
  <2>5. CreatedFor' /\ OneSinkMissesNothing'
    BY <1>1, <2>1 DEF CreatedFor, OneSinkMissesNothing, Deliveries
  <2>6. QED
    BY <1>2, <2>2, <2>3, <2>4, <2>5 DEF GInv
<1>7. QED
  BY <1>3, <1>4, <1>5, <1>6 DEF Next

\* The inductive invariant of the session: the parser is at a frame, the
\* packets under way are those in front of it, the constructor's task comes
\* first, and the receive stream is made for the first packet.
THEOREM SessionInvariant == Spec => []GInv
<1>1. Init => GInv
  BY InitEstablishes
<1>2. GInv /\ [Next]_vars => GInv'
  BY StepPreserves
<1>3. QED
  BY <1>1, <1>2, PTL DEF Spec

\* However TCP splits any stream, the packets posted by OnRead are the packets
\* of the stream, whole, once, in order, and none that is complete is missing.
THEOREM SplittingIsHarmless == Spec => []FramesSurviveSplitting
<1>1. GInv => FramesSurviveSplitting
  BY DEF GInv
<1>2. QED
  BY <1>1, SessionInvariant, PTL

\* No task runs on a controller that does not exist yet.
THEOREM ControllerIsThere == Spec => []ControllerExistsFirst
<1>1. GInv => ControllerExistsFirst
  <2> SUFFICES ASSUME GInv PROVE ControllerExistsFirst
    OBVIOUS
  <2>1. ControllerFirst /\ tasks \in Seq(Task)
    BY DEF GInv, TypeOK
  <2>2. CASE rtp_stream_receive_controller_
    BY <2>2 DEF ControllerExistsFirst
  <2>3. CASE ~rtp_stream_receive_controller_
    <3>1. tasks[1].do = "init"
      BY <2>1, <2>3 DEF ControllerFirst
    <3>2. SUFFICES ASSUME NEW i \in 1 .. Len(tasks), tasks[i].do # "init"
                   PROVE  \E j \in 1 .. i - 1 : tasks[j].do = "init"
      BY DEF ControllerExistsFirst
    <3>3. i # 1 /\ i \in Nat /\ i >= 1
      BY <2>1, <3>1, <3>2
    <3>4. 1 \in 1 .. i - 1
      BY <3>3
    <3>5. QED
      BY <3>1, <3>4
  <2>4. QED
    BY <2>2, <2>3
<1>2. QED
  BY <1>1, SessionInvariant, PTL

\* However often the unsynchronised test of video_receive_stream_ fails, one
\* sink is added and gets every packet of its source.
THEOREM SinkMissesNothing == Spec => []OneSinkMissesNothing
<1>1. GInv => OneSinkMissesNothing
  BY DEF GInv
<1>2. QED
  BY <1>1, SessionInvariant, PTL
=============================================================================
