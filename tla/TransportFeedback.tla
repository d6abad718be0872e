-------------------------- MODULE TransportFeedback --------------------------
(***************************************************************************)
(* The message in which a receiver of RTP packets tells their sender when  *)
(* each arrived (rtp_rtcp/rtcp_packet/transport_feedback.cc).  A message   *)
(* under construction, or parsed, is the record                            *)
(*   base    base_seq_no_        num   num_seq_no_                         *)
(*   ticks   base_time_ticks_    last  last_timestamp_us_                  *)
(*   all     all_packets_; received_packets_, appended to at the same      *)
(*           places, is its received part                                  *)
(*   chunks  encoded_chunks_     chunk last_chunk_    bytes  size_bytes_   *)
(* Timestamps are always included, and a message is parsed as Create wrote *)
(* it: what Parse refuses is not sent.  Time is counted in units, of which *)
(* a tick (kDeltaScaleFactor) has TickUnits, so that rounding is kept.     *)
(***************************************************************************)
EXTENDS Integers, Sequences, SequencesExt

CONSTANTS
    SeqSpace,        \* 2^16: sequence numbers are modulo SeqSpace
    ByteSpan,        \* 2^8: the values of a byte, and the ticks of a base time
    BaseSpan,        \* 2^24: the values of the base time
    TickUnits,       \* the units of time in a tick
    MaxTwoBit,       \* kMaxTwoBitCapacity
    MaxOneBit,       \* kMaxOneBitCapacity and kMaxVectorCapacity
    MaxRunLength,    \* kMaxRunLengthCapacity
    MaxReported,     \* kMaxReportedPackets
    HeaderBytes,     \* kTransportFeedbackHeaderSizeBytes
    ChunkBytes,      \* kChunkSizeBytes
    MaxBytes         \* kMaxSizeBytes

ASSUME FeedbackAssumption ==
    /\ {SeqSpace, ByteSpan, BaseSpan, TickUnits} \subseteq {2 * n : n \in 1 .. SeqSpace + BaseSpan}
    /\ {MaxTwoBit, MaxOneBit, MaxRunLength} \subseteq Nat
    /\ 0 < MaxTwoBit /\ MaxTwoBit < MaxOneBit /\ MaxOneBit < MaxRunLength
    /\ MaxReported < SeqSpace

kLarge == 2

BaseScale == TickUnits * ByteSpan

Period == BaseSpan * BaseScale

\* int16_t.
Int16 == -((ByteSpan * ByteSpan) \div 2) .. ((ByteSpan * ByteSpan) \div 2) - 1

Plus(s, n) == (s + n) % SeqSpace

\* webrtc::IsNewerSequenceNumber.  Of two numbers half the space apart the larger is newer.
IsNewer(s, t) ==
    LET d == (s - t) % SeqSpace
    IN  IF d = SeqSpace \div 2 THEN s > t ELSE 0 < d /\ d < SeqSpace \div 2

\* The operators / and % of C++, which round towards zero.
Quotient(a, b) == IF a < 0 THEN -((-a) \div b) ELSE a \div b

Remainder(a, b) == a - b * Quotient(a, b)

Abs(a) == IF a < 0 THEN -a ELSE a

Total(s) == FoldLeft(LAMBDA a, b : a + b, 0, s)

-----------------------------------------------------------------------------
(* LastChunk: the delta sizes that still fit one chunk. The array keeps    *)
(* the first MaxOneBit of them.                                            *)

NewChunk == [sizes |-> <<>>, size |-> 0, same |-> TRUE, large |-> FALSE]

CanAdd(c, d) ==
    \/ c.size < MaxTwoBit
    \/ c.size < MaxOneBit /\ ~c.large /\ d # kLarge
    \/ c.size < MaxRunLength /\ c.same /\ c.sizes[1] = d

Add(c, d) ==
    LET sizes == IF c.size < MaxOneBit THEN Append(c.sizes, d) ELSE c.sizes
    IN  [sizes |-> sizes, size |-> c.size + 1,
         same |-> c.same /\ d = sizes[1], large |-> c.large \/ d = kLarge]

EncodeRunLength(c) == [kind |-> "run", symbol |-> c.sizes[1], length |-> c.size]

Padded(s, n) == [i \in 1 .. n |-> IF i <= Len(s) THEN s[i] ELSE 0]

EncodeOneBit(c) == [kind |-> "one", symbols |-> Padded(c.sizes, MaxOneBit)]

EncodeTwoBit(c, n) == [kind |-> "two", symbols |-> Padded(SubSeq(c.sizes, 1, n), MaxTwoBit)]

\* The chunk that is full, and what remains for the next one.
Emit(c) ==
    CASE c.same -> [code |-> EncodeRunLength(c), chunk |-> NewChunk]
      [] ~c.same /\ c.size = MaxOneBit -> [code |-> EncodeOneBit(c), chunk |-> NewChunk]
      [] OTHER -> [code |-> EncodeTwoBit(c, MaxTwoBit),
                   chunk |-> FoldLeft(Add, NewChunk, SubSeq(c.sizes, MaxTwoBit + 1, c.size))]

EncodeLast(c) ==
    CASE c.same -> EncodeRunLength(c)
      [] ~c.same /\ c.size <= MaxTwoBit -> EncodeTwoBit(c, c.size)
      [] OTHER -> EncodeOneBit(c)

AppendTo(c, sizes) ==
    sizes \o (IF c.same THEN [i \in 1 .. c.size |-> c.sizes[1]] ELSE SubSeq(c.sizes, 1, c.size))

Least(m, n) == IF m < n THEN m ELSE n

Decode(code, max) ==
    IF code.kind = "run"
    THEN LET size == Least(code.length, max)
         IN  [sizes |-> [i \in 1 .. Least(size, MaxOneBit) |-> code.symbol], size |-> size,
              same |-> TRUE, large |-> code.symbol >= kLarge]
    ELSE LET size == Least(Len(code.symbols), max)
         IN  [sizes |-> SubSeq(code.symbols, 1, size), size |-> size,
              same |-> FALSE, large |-> code.kind = "two"]

-----------------------------------------------------------------------------
(* The encoder.                                                            *)

NewFeedback ==
    [base |-> 0, num |-> 0, ticks |-> 0, last |-> 0, all |-> <<>>,
     chunks |-> <<>>, chunk |-> NewChunk, bytes |-> HeaderBytes]

BaseTime(fb) == fb.ticks * BaseScale

SetBase(fb, seq, time) ==
    LET ticks == (time % Period) \div BaseScale
    IN  [fb EXCEPT !.base = seq, !.ticks = ticks, !.last = ticks * BaseScale]

\* FALSE: there is no room for one more packet.
HasRoom(fb, d) ==
    /\ fb.num # MaxReported
    /\ fb.bytes + d + (IF fb.chunk.size = 0 THEN ChunkBytes ELSE 0) <= MaxBytes
    /\ CanAdd(fb.chunk, d) \/ fb.bytes + d + ChunkBytes <= MaxBytes

AddDeltaSize(fb, d) ==
    IF CanAdd(fb.chunk, d)
    THEN [fb EXCEPT !.num = @ + 1, !.chunk = Add(@, d),
                    !.bytes = @ + (IF fb.chunk.size = 0 THEN ChunkBytes ELSE 0)]
    ELSE [fb EXCEPT !.num = @ + 1, !.chunk = Add(Emit(@).chunk, d), !.bytes = @ + ChunkBytes,
                    !.chunks = Append(@, Emit(fb.chunk).code)]

\* The ticks since the packet before, across a wrap of the base time.
DeltaTicks(fb, time) ==
    LET rest == Remainder(time - fb.last, Period)
        full == IF rest > Period \div 2 THEN rest - Period ELSE rest
        half == TickUnits \div 2
    IN  Quotient(full + (IF full < 0 THEN -half ELSE half), TickUnits)

Lost(seq) == [seq |-> seq, received |-> FALSE, delta |-> 0]

Received(seq, delta) == [seq |-> seq, received |-> TRUE, delta |-> delta]

\* Mutant: one byte is taken to hold one value more.
DeltaSizeWide(delta) == IF delta \in 0 .. ByteSpan THEN 1 ELSE kLarge

DeltaSize(delta) == IF delta \in 0 .. ByteSpan - 1 THEN 1 ELSE kLarge

\* The packets between the last one of the message and seq were not received;
\* those that still fit stay in the message when one of them does not.
AddMissing(fb, seq) ==
    FoldLeft(LAMBDA r, s :
                 IF r.ok /\ HasRoom(r.fb, 0)
                 THEN [r EXCEPT !.fb = [AddDeltaSize(@, 0) EXCEPT !.all = Append(@, Lost(s))]]
                 ELSE [r EXCEPT !.ok = FALSE],
             [ok |-> TRUE, fb |-> fb],
             LET next == Plus(fb.base, fb.num)
             IN  [i \in 1 .. (seq - next) % SeqSpace |-> Plus(next, i - 1)])

\* The received packet, after the missing ones of r.
AddArrived(r, seq, delta, size) ==
    IF ~r.ok \/ ~HasRoom(r.fb, size) THEN [r EXCEPT !.ok = FALSE]
    ELSE [r EXCEPT !.fb = [AddDeltaSize(@, size) EXCEPT
                              !.all = Append(@, Received(seq, delta)),
                              !.last = @ + delta * TickUnits, !.bytes = @ + size]]

\* The numbers of the packets must increase.
InOrder(fb, seq) ==
    LET next == Plus(fb.base, fb.num) IN seq = next \/ IsNewer(seq, Plus(next, -1))

\* FALSE: the packet does not go into this message.
AddReceivedPacket(fb, seq, time) ==
    LET delta == DeltaTicks(fb, time)
    IN  IF delta \notin Int16 \/ ~InOrder(fb, seq) THEN [ok |-> FALSE, fb |-> fb]
        ELSE AddArrived(AddMissing(fb, seq), seq, delta, DeltaSize(delta))

-----------------------------------------------------------------------------
(* The wire.  The base time is written in three bytes and read back signed. *)

DeltaBytes(delta) ==
    IF delta \in 0 .. ByteSpan - 1 THEN <<delta>>
    ELSE LET u == delta % (ByteSpan * ByteSpan) IN <<u \div ByteSpan, u % ByteSpan>>

ReceivedPackets(fb) == SelectSeq(fb.all, LAMBDA p : p.received)

Create(fb) ==
    [base |-> fb.base, count |-> fb.num, ticks |-> fb.ticks,
     chunks |-> IF fb.chunk.size = 0 THEN fb.chunks ELSE Append(fb.chunks, EncodeLast(fb.chunk)),
     deltas |-> FoldLeft(LAMBDA b, p : b \o DeltaBytes(p.delta), <<>>, ReceivedPackets(fb))]

Signed(n, span) == IF n >= span \div 2 THEN n - span ELSE n

\* What Parse reads of a delta of the given size at the front of the bytes.
ReadDelta(bytes, size) ==
    IF size = 1 THEN bytes[1] ELSE Signed(bytes[1] * ByteSpan + bytes[2], ByteSpan * ByteSpan)

\* The chunks, decoded one by one until count delta sizes are known.
DecodeChunks(codes, count) ==
    FoldLeft(LAMBDA r, code :
                 IF Len(r.sizes) >= count THEN r
                 ELSE LET c == Decode(code, count - Len(r.sizes))
                      IN  [sizes |-> AppendTo(c, r.sizes), chunk |-> c],
             [sizes |-> <<>>, chunk |-> NewChunk], codes)

\* The packets of the message.
ReadPackets(w, sizes) ==
    FoldLeft(LAMBDA r, d :
                 LET seq == Plus(w.base, Len(r.all))
                     delta == ReadDelta(r.bytes, d)
                 IN  IF d = 0 THEN [r EXCEPT !.all = Append(@, Lost(seq))]
                     ELSE [all |-> Append(r.all, Received(seq, delta)),
                           last |-> r.last + delta * TickUnits,
                           bytes |-> SubSeq(r.bytes, d + 1, Len(r.bytes))],
             [all |-> <<>>, last |-> Signed(w.ticks, BaseSpan) * BaseScale, bytes |-> w.deltas], sizes)

ParsedFrom(w, got, read) ==
    [base |-> w.base, num |-> w.count, ticks |-> Signed(w.ticks, BaseSpan), last |-> read.last,
     all |-> read.all, chunks |-> Front(w.chunks), chunk |-> got.chunk,
     bytes |-> HeaderBytes + ChunkBytes * Len(w.chunks) + Total(got.sizes)]

Parse(w) ==
    LET got == DecodeChunks(w.chunks, w.count) IN ParsedFrom(w, got, ReadPackets(w, got.sizes))

\* Mutant: the wrap of the base time is not noticed.
BaseDeltaWrapped(fb, prev) == BaseTime(fb) - prev

\* The unwrapped time between an earlier base time and the one of the message.
GetBaseDelta(fb, prev) ==
    LET delta == BaseTime(fb) - prev
    IN  CASE Abs(delta - Period) < Abs(delta) -> delta - Period
          [] Abs(delta - Period) >= Abs(delta) /\ Abs(delta + Period) < Abs(delta) -> delta + Period
          [] OTHER -> delta

\* The delta sizes that the chunks of a message hold.
DeltaSizes(fb) ==
    LET before == FoldLeft(LAMBDA s, code : AppendTo(Decode(code, MaxReported), s), <<>>, fb.chunks)
    IN  IF fb.chunk.size = 0 THEN before ELSE AppendTo(fb.chunk, before)

\* sizes agrees with the received packets got, from the base on.
SizesMatch(fb, sizes, got) ==
    LET places == SetToSortSeq({i \in DOMAIN sizes : sizes[i] > 0}, <)
    IN  /\ Len(got) = Len(places)
        /\ \A k \in DOMAIN got :
              /\ got[k].seq = Plus(fb.base, places[k] - 1)
              /\ sizes[places[k]] = 1 => got[k].delta \in 0 .. ByteSpan - 1

IsConsistent(fb) ==
    LET sizes == DeltaSizes(fb)
        got == ReceivedPackets(fb)
    IN  /\ fb.num = Len(sizes)
        /\ SizesMatch(fb, sizes, got)
        /\ fb.last = BaseTime(fb) + TickUnits * Total([k \in DOMAIN got |-> got[k].delta])
        /\ fb.bytes = HeaderBytes + Total(sizes)
              + ChunkBytes * (Len(fb.chunks) + (IF fb.chunk.size = 0 THEN 0 ELSE 1))

=============================================================================
