---------------------- MODULE TransportFeedbackProofs -----------------------
(***************************************************************************)
(* Proofs about transport feedback for every width of sequence numbers,    *)
(* bytes and base times and every capacity of a chunk: numbers, times and  *)
(* deltas that were cut to the bits of the wire are recovered, rounding    *)
(* does not add up, and the chunks of a message are read back as written.  *)
(***************************************************************************)
EXTENDS TransportFeedbackAdapter, TLAPS

-----------------------------------------------------------------------------
(* Division.                                                               *)

LEMMA Divided ==
    ASSUME NEW n \in Int, n > 0, NEW x \in Int
    PROVE  \E q \in Int, r \in Int : 0 <= r /\ r < n /\ x = n * q + r /\ r = x % n /\ q = x \div n
OBVIOUS

LEMMA RestSmall ==
    ASSUME NEW n \in Int, n > 0, NEW x \in Int
    PROVE  /\ 0 <= x /\ x < n => x % n = x
           /\ -n <= x /\ x < 0 => x % n = x + n
OBVIOUS

LEMMA Spans ==
    /\ \E h \in Int : h > 0 /\ SeqSpace = 2 * h
    /\ \E h \in Int : h > 0 /\ ByteSpan = 2 * h
    /\ \E h \in Int : h > 0 /\ BaseSpan = 2 * h
    /\ \E h \in Int : h > 0 /\ TickUnits = 2 * h
BY FeedbackAssumption

-----------------------------------------------------------------------------
(* Sequence numbers.                                                       *)

\* SequenceNumberUnwrapper, as the adapter uses it (rtp/transport_feedback_
\* adapter.cpp): from its 16 bits a number less than half the space away from
\* the last one is recovered, forwards, backwards and across any wrap.
THEOREM UnwrapRecovers ==
    ASSUME NEW last \in Nat, last # Nothing, NEW n \in Nat,
           n - last < SeqSpace \div 2, last - n < SeqSpace \div 2
    PROVE  Unwrap(last, n % SeqSpace) = n
<1>1. PICK h \in Int, N \in Int :
          h > 0 /\ N = 2 * h /\ N > 0 /\ N = SeqSpace /\ SeqSpace \div 2 = h
  BY Spans
<1>2. PICK c \in Int, s \in Int : /\ c = last % N /\ 0 <= c /\ c < N
                                  /\ s = n % N /\ 0 <= s /\ s < N
  <2>1. PICK q \in Int, r \in Int : 0 <= r /\ r < N /\ last = N * q + r /\ r = last % N /\ q = last \div N
    BY <1>1, Divided
  <2>2. PICK q2 \in Int, r2 \in Int : 0 <= r2 /\ r2 < N /\ n = N * q2 + r2 /\ r2 = n % N /\ q2 = n \div N
    BY <1>1, Divided
  <2>3. QED
    BY <2>1, <2>2
<1>3. PICK e \in Int : e = n - last /\ e < h /\ -e < h
  BY <1>1
<1>4. PICK d \in Int : d = s - c
  OBVIOUS
<1>5. d = e \/ d = e - N \/ d = e + N
  <2>1. n - last < N /\ last - n < N
    BY <1>1
  <2>2. PICK p \in Int : last = N * p + c
    <3>1. PICK p \in Int, r \in Int : 0 <= r /\ r < N /\ last = N * p + r /\ r = last % N /\ p = last \div N
      BY <1>1, Divided
    <3>2. r = c
      BY <1>2, <3>1, Zenon
    <3>3. QED
      BY <3>1, <3>2, Zenon
  <2>3. PICK q \in Int : n = N * q + s
    <3>1. PICK q \in Int, r \in Int : 0 <= r /\ r < N /\ n = N * q + r /\ r = n % N /\ q = n \div N
      BY <1>1, Divided
    <3>2. r = s
      BY <1>2, <3>1, Zenon
    <3>3. QED
      BY <3>1, <3>2, Zenon
  <2>4. PICK a \in Int, b \in Int : a = N * p /\ b = N * q
    OBVIOUS
  <2>5. last = a + c /\ n = b + s
    BY <2>2, <2>3, <2>4
  <2>6. b - a < 2 * N /\ a - b < 2 * N
    BY <1>2, <2>1, <2>5
  <2>7. b = a \/ b = a + N \/ b = a - N
    <3>1. CASE q = p
      BY <2>4, <3>1
    <3>2. CASE q = p + 1
      BY <2>4, <3>2
    <3>3. CASE q = p - 1
      BY <2>4, <3>3
    <3>4. ASSUME q >= p + 2 PROVE FALSE
      <4>1. N * (q - p - 2) >= 0
        BY <1>1, <3>4
      <4>2. N * (q - p - 2) = b - a - 2 * N
        BY <2>4
      <4>3. QED
        BY <2>6, <4>1, <4>2
    <3>5. ASSUME q <= p - 2 PROVE FALSE
      <4>1. N * (p - q - 2) >= 0
        BY <1>1, <3>5
      <4>2. N * (p - q - 2) = a - b - 2 * N
        BY <2>4
      <4>3. QED
        BY <2>6, <4>1, <4>2
    <3>6. QED
      BY <3>1, <3>2, <3>3, <3>4, <3>5
  <2>8. QED
    BY <1>1, <1>3, <1>4, <2>5, <2>7
<1>6. PICK m \in Int : m = d % N /\ (d >= 0 => m = d) /\ (d < 0 => m = d + N)
  <2>1. /\ 0 <= d /\ d < N => d % N = d
        /\ -N <= d /\ d < 0 => d % N = d + N
    BY <1>1, RestSmall
  <2>2. QED
    BY <1>1, <1>2, <1>4, <2>1
<1>7. IsNewer(s, c) <=> IF m = h THEN s > c ELSE 0 < m /\ m < h
  BY <1>1, <1>4, <1>6 DEF IsNewer
<1>8. IsNewer(s, c) <=> e > 0
  <2>1. CASE d = e
    BY <1>1, <1>3, <1>4, <1>6, <1>7, <2>1
  <2>2. CASE d = e - N
    BY <1>1, <1>2, <1>3, <1>4, <1>6, <1>7, <2>2
  <2>3. CASE d = e + N
    BY <1>1, <1>2, <1>3, <1>4, <1>6, <1>7, <2>3
  <2>4. QED
    BY <1>5, <2>1, <2>2, <2>3
<1>9. /\ IsNewer(s, c) => Unwrap(last, s) = last + (IF d < 0 THEN d + N ELSE d)
      /\ ~IsNewer(s, c) /\ d > 0 /\ last + d >= N => Unwrap(last, s) = last + d - N
      /\ ~IsNewer(s, c) /\ ~(d > 0 /\ last + d >= N) => Unwrap(last, s) = last + d
  <2>1. last % SeqSpace = c
    BY <1>1, <1>2
  <2>2. QED
    BY <1>1, <1>4, <2>1 DEF Unwrap
<1>10. Unwrap(last, s) = n
  <2>1. CASE e > 0
    BY <1>1, <1>2, <1>3, <1>4, <1>5, <1>8, <1>9, <2>1
  <2>2. CASE ~(e > 0)
    BY <1>1, <1>2, <1>3, <1>4, <1>5, <1>8, <1>9, <2>2
  <2>3. QED
    BY <2>1, <2>2
<1>11. QED
  BY <1>1, <1>2, <1>10

-----------------------------------------------------------------------------
(* Receive deltas.                                                         *)

\* A delta that AddReceivedPacket accepts is written in as many bytes as its
\* size says, each in the range of a byte, and Parse reads it back (Create and
\* Parse, transport_feedback.cc): negative, zero and the ends of both ranges.
THEOREM DeltaSurvivesWire ==
    ASSUME NEW delta \in Int16
    PROVE  /\ Len(DeltaBytes(delta)) = DeltaSize(delta)
           /\ \A i \in 1 .. DeltaSize(delta) : DeltaBytes(delta)[i] \in 0 .. ByteSpan - 1
           /\ ReadDelta(DeltaBytes(delta), DeltaSize(delta)) = delta
<1>1. PICK h \in Int : h > 0 /\ ByteSpan = 2 * h
  BY Spans
<1>2. PICK B \in Int : B = 2 * h /\ B > 0 /\ B = ByteSpan
  BY <1>1
<1>3. PICK H \in Int : H = 2 * (h * h) /\ H > 0
  <2>1. h * h \in Int /\ h * h > 0
    BY <1>1
  <2>2. QED
    BY <2>1
<1>4. PICK W \in Int : W = B * B /\ W = 2 * H /\ W \div 2 = H
  <2>1. B * B = 2 * (2 * (h * h))
    BY <1>2
  <2>2. B * B = 2 * H /\ (2 * H) \div 2 = H
    BY <1>3, <2>1
  <2>3. QED
    BY <1>3, <2>2
<1>5. delta \in Int /\ -H <= delta /\ delta < H
  BY <1>2, <1>4 DEF Int16
<1>6. CASE delta \in 0 .. ByteSpan - 1
  BY <1>2, <1>6 DEF DeltaBytes, DeltaSize, ReadDelta
<1>7. CASE delta \notin 0 .. ByteSpan - 1
  <2>1. PICK u \in Int : /\ u = delta % W /\ 0 <= u /\ u < W
                         /\ (delta >= 0 => u = delta) /\ (delta < 0 => u = delta + W)
    <3>1. /\ 0 <= delta /\ delta < W => delta % W = delta
          /\ -W <= delta /\ delta < 0 => delta % W = delta + W
      BY <1>3, <1>4, <1>5, RestSmall
    <3>2. QED
      BY <1>3, <1>4, <1>5, <3>1
  <2>2. PICK q \in Int, r \in Int :
            0 <= r /\ r < B /\ u = B * q + r /\ r = u % B /\ q = u \div B
    BY <1>2, Divided
  <2>3. 0 <= q /\ q < B
    <3>1. PICK z \in Int : z = B * q
      OBVIOUS
    <3>2. u = z + r
      BY <2>2, <3>1
    <3>3. ASSUME q >= B PROVE FALSE
      <4>1. B * (q - B) >= 0
        BY <1>2, <3>3
      <4>2. B * (q - B) = z - W
        BY <1>4, <3>1
      <4>3. QED
        BY <2>1, <2>2, <3>2, <4>1, <4>2
    <3>4. ASSUME q < 0 PROVE FALSE
      <4>1. B * (-1 - q) >= 0
        BY <1>2, <3>4
      <4>2. B * (-1 - q) = -B - z
        BY <3>1
      <4>3. QED
        BY <2>1, <2>2, <3>2, <4>1, <4>2
    <3>5. QED
      BY <1>2, <3>3, <3>4
  <2>4. DeltaBytes(delta) = <<q, r>> /\ DeltaSize(delta) = 2
    BY <1>2, <1>4, <1>7, <2>1, <2>2 DEF DeltaBytes, DeltaSize, kLarge
  <2>5. ReadDelta(<<q, r>>, 2) = Signed(q * B + r, W)
    BY <1>2, <1>4 DEF ReadDelta
  <2>6. q * B + r = u
    BY <2>2
  <2>7. Signed(u, W) = delta
    BY <1>3, <1>4, <1>5, <2>1 DEF Signed
  <2>8. \A i \in 1 .. 2 : <<q, r>>[i] \in 0 .. ByteSpan - 1
    BY <1>2, <2>2, <2>3
  <2>9. QED
    BY <2>4, <2>5, <2>6, <2>7, <2>8
<1>8. QED
  BY <1>6, <1>7

-----------------------------------------------------------------------------
(* Times.                                                                  *)

LEMMA PeriodIs == Period \in Int /\ Period > 0 /\ \E h \in Int : h > 0 /\ Period = 2 * h
<1>1. PICK a \in Int, b \in Int, c \in Int :
          a > 0 /\ BaseSpan = 2 * a /\ b > 0 /\ TickUnits = b /\ c > 0 /\ ByteSpan = c
  BY Spans
<1>2. PICK d \in Int : d = b * c /\ d > 0
  BY <1>1
<1>3. PICK h \in Int : h = a * d /\ h > 0
  BY <1>1, <1>2
<1>4. Period = (2 * a) * d
  BY <1>1, <1>2 DEF Period, BaseScale
<1>5. (2 * a) * d = 2 * h
  BY <1>3
<1>6. QED
  BY <1>3, <1>4, <1>5

\* The division of C++ with half a tick added away from zero is rounding to the
\* nearest tick.
LEMMA Rounded ==
    ASSUME NEW h \in Int, h > 0, NEW y \in Int
    PROVE  \E q \in Int :
               /\ q = Quotient(y + (IF y < 0 THEN -h ELSE h), 2 * h)
               /\ y - q * (2 * h) <= h /\ q * (2 * h) - y <= h
<1>1. PICK w \in Int : w = (IF y < 0 THEN -y ELSE y) + h /\ w > 0
  OBVIOUS
<1>2. PICK t \in Int : t = 2 * h /\ t > 0
  OBVIOUS
<1>3. PICK q \in Int, r \in Int : 0 <= r /\ r < t /\ w = t * q + r /\ r = w % t /\ q = w \div t
  BY <1>1, <1>2, Divided
<1>4. PICK z \in Int : z = t * q /\ w = z + r
  BY <1>3
<1>5. CASE y < 0
  <2>1. Quotient(y + -h, t) = -q
    <3>1. y + -h < 0 /\ -(y + -h) = w
      BY <1>1, <1>5
    <3>2. QED
      BY <1>3, <3>1 DEF Quotient
  <2>2. (-q) * t = -z
    BY <1>4
  <2>3. y - (-z) <= h /\ (-z) - y <= h
    BY <1>1, <1>2, <1>3, <1>4, <1>5
  <2>4. QED
    BY <1>2, <1>5, <2>1, <2>2, <2>3
<1>6. CASE ~(y < 0)
  <2>1. Quotient(y + h, t) = q
    <3>1. ~(y + h < 0) /\ y + h = w
      BY <1>1, <1>6
    <3>2. QED
      BY <1>3, <3>1 DEF Quotient
  <2>2. q * t = z
    BY <1>4
  <2>3. y - z <= h /\ z - y <= h
    BY <1>1, <1>2, <1>3, <1>4, <1>6
  <2>4. QED
    BY <1>2, <1>6, <2>1, <2>2, <2>3
<1>7. QED
  BY <1>5, <1>6

\* Whole periods are taken from a time difference.
LEMMA Reduced ==
    ASSUME NEW p \in Int, p > 0, NEW x \in Int
    PROVE  \E m \in Int : Remainder(x, p) = x - m * p
<1>1. Quotient(x, p) \in Int
  BY DEF Quotient
<1>2. PICK m \in Int : m = Quotient(x, p)
  BY <1>1
<1>3. Remainder(x, p) = x - p * m
  BY <1>2 DEF Remainder
<1>4. QED
  BY <1>3

\* The delta of a packet is taken from the rounded time of the packet before
\* (last_timestamp_us_, AddReceivedPacket): so the time that the deltas add up to
\* is within half a tick of the packet's own, modulo the period of the base time,
\* and the errors of rounding do not add up over a message.
THEOREM RoundingDoesNotAddUp ==
    ASSUME NEW fb, fb.last \in Int, NEW time \in Int
    PROVE  \E m \in Int :
               Abs(time - (fb.last + DeltaTicks(fb, time) * TickUnits + m * Period))
               <= TickUnits \div 2
<1>1. PICK h \in Int : h > 0 /\ TickUnits = 2 * h /\ TickUnits \div 2 = h
  BY Spans
<1>2. PICK P \in Int : P = Period /\ P > 0
  BY PeriodIs
<1>3. PICK x \in Int : x = time - fb.last
  OBVIOUS
<1>4. PICK k \in Int : Remainder(x, P) = x - k * P
  BY <1>2, Reduced
<1>5. PICK full \in Int, m \in Int :
          /\ full = IF Remainder(x, P) > P \div 2 THEN Remainder(x, P) - P ELSE Remainder(x, P)
          /\ full = x - m * P
  <2>1. PICK z \in Int : z = k * P
    OBVIOUS
  <2>2. Remainder(x, P) = x - z
    BY <1>4, <2>1
  <2>3. (k + 1) * P = z + P
    BY <2>1
  <2>4. CASE Remainder(x, P) > P \div 2
    <3>1. Remainder(x, P) - P = x - (k + 1) * P
      BY <2>2, <2>3
    <3>2. PICK j \in Int, f \in Int : j = k + 1 /\ f = Remainder(x, P) - P
      BY <2>2
    <3>3. f = IF Remainder(x, P) > P \div 2 THEN Remainder(x, P) - P ELSE Remainder(x, P)
      BY <2>4, <3>2
    <3>4. f = x - j * P
      BY <3>1, <3>2
    <3>5. QED
      BY <3>3, <3>4, Zenon
  <2>5. CASE ~(Remainder(x, P) > P \div 2)
    BY <1>4, <2>2, <2>5
  <2>6. QED
    BY <2>4, <2>5
<1>6. PICK q \in Int : /\ q = Quotient(full + (IF full < 0 THEN -h ELSE h), 2 * h)
                       /\ full - q * (2 * h) <= h /\ q * (2 * h) - full <= h
  BY <1>1, Rounded
<1>7. DeltaTicks(fb, time) = q
  BY <1>1, <1>2, <1>3, <1>5, <1>6 DEF DeltaTicks
<1>8. PICK y \in Int, z \in Int : y = q * (2 * h) /\ z = m * P
  OBVIOUS
<1>9. Abs(time - (fb.last + y + z)) <= h
  BY <1>3, <1>5, <1>6, <1>8 DEF Abs
<1>10. QED
  BY <1>1, <1>2, <1>7, <1>8, <1>9

\* GetBaseDelta (transport_feedback.cc): two base times that are less than half
\* a period apart have that distance whether or not the 24 bits of either have
\* wrapped, and whether they are read as signed or unsigned.
THEOREM BaseDeltaRecovers ==
    ASSUME NEW fb, NEW prev \in Int, BaseTime(fb) \in Int, NEW distance \in Int,
           2 * distance < Period, -Period < 2 * distance, NEW k \in {-1, 0, 1},
           BaseTime(fb) - prev = distance + k * Period
    PROVE  GetBaseDelta(fb, prev) = distance
<1>1. PICK P \in Int : P = Period /\ P > 0
  BY PeriodIs
<1>2. PICK delta \in Int : delta = BaseTime(fb) - prev
  OBVIOUS
<1>3. delta = distance \/ delta = distance + P \/ delta = distance - P
  BY <1>1, <1>2
<1>4. /\ Abs(delta - P) < Abs(delta) => GetBaseDelta(fb, prev) = delta - P
      /\ ~(Abs(delta - P) < Abs(delta)) /\ Abs(delta + P) < Abs(delta)
            => GetBaseDelta(fb, prev) = delta + P
      /\ ~(Abs(delta - P) < Abs(delta)) /\ ~(Abs(delta + P) < Abs(delta))
            => GetBaseDelta(fb, prev) = delta
  <2>1. \A a \in Int : Abs(a) \in Int
    BY DEF Abs
  <2>2. PICK a \in Int, b \in Int, c \in Int :
            a = Abs(delta - P) /\ b = Abs(delta) /\ c = Abs(delta + P)
    BY <2>1
  <2>3. QED
    BY <1>1, <1>2, <2>2 DEF GetBaseDelta
<1>5. QED
  BY <1>1, <1>3, <1>4 DEF Abs

-----------------------------------------------------------------------------
(* Chunks.                                                                 *)

\* What LastChunk keeps of itself: `same' and `large' say what the sizes are, a
\* chunk too long for one bit each repeats one size, and one too long for two
\* bits each repeats one size or has no large one.
ChunkOK(c) ==
    /\ c.sizes \in Seq({0, 1, kLarge}) /\ c.size \in 0 .. MaxRunLength
    /\ Len(c.sizes) = Least(c.size, MaxOneBit)
    /\ c.same \in BOOLEAN /\ c.large \in BOOLEAN
    /\ c.same <=> \A i \in 1 .. Len(c.sizes) : c.sizes[i] = c.sizes[1]
    /\ c.large <=> \E i \in 1 .. Len(c.sizes) : c.sizes[i] = kLarge
    /\ c.size > MaxOneBit => c.same
    /\ c.size > MaxTwoBit => c.same \/ ~c.large

\* The delta sizes a chunk stands for, which AppendTo gives.
Listed(c) ==
    IF c.same THEN [i \in 1 .. c.size |-> c.sizes[1]] ELSE SubSeq(c.sizes, 1, c.size)

LEMMA Capacities ==
    /\ MaxTwoBit \in Nat /\ MaxOneBit \in Nat /\ MaxRunLength \in Nat
    /\ 0 < MaxTwoBit /\ MaxTwoBit < MaxOneBit /\ MaxOneBit < MaxRunLength
BY FeedbackAssumption

LEMMA NewChunkOK == ChunkOK(NewChunk)
<1>1. NewChunk.sizes = <<>> /\ NewChunk.size = 0 /\ NewChunk.same /\ ~NewChunk.large
  BY DEF NewChunk
<1>2. NewChunk.same \in BOOLEAN /\ NewChunk.large \in BOOLEAN
  BY Zenon DEF NewChunk
<1>3. Len(<<>>) = 0 /\ <<>> \in Seq({0, 1, kLarge}) /\ Least(0, MaxOneBit) = 0 /\ 1 .. 0 = {}
  BY Capacities DEF Least
<1>4. 0 \in 0 .. MaxRunLength /\ ~(0 > MaxOneBit) /\ ~(0 > MaxTwoBit)
  BY Capacities
<1>5. QED
  BY <1>1, <1>2, <1>3, <1>4, Zenon DEF ChunkOK

\* The sizes that Add keeps.
Grown(c, d) == IF c.size < MaxOneBit THEN Append(c.sizes, d) ELSE c.sizes

LEMMA Added ==
    ASSUME NEW c, c.same \in BOOLEAN, c.large \in BOOLEAN, NEW d
    PROVE  /\ Add(c, d).sizes = Grown(c, d) /\ Add(c, d).size = c.size + 1
           /\ Add(c, d).same \in BOOLEAN /\ Add(c, d).large \in BOOLEAN
           /\ Add(c, d).same <=> c.same /\ d = Grown(c, d)[1]
           /\ Add(c, d).large <=> c.large \/ d = kLarge
<1>1. Add(c, d) = [sizes |-> Grown(c, d), size |-> c.size + 1,
                   same |-> c.same /\ d = Grown(c, d)[1], large |-> c.large \/ d = kLarge]
  BY Zenon DEF Add, Grown
<1>2. PICK s \in BOOLEAN, l \in BOOLEAN :
          (s = (c.same /\ d = Grown(c, d)[1])) /\ (l = (c.large \/ d = kLarge))
  BY Zenon
<1>3. Add(c, d) = [sizes |-> Grown(c, d), size |-> c.size + 1, same |-> s, large |-> l]
  BY <1>1, <1>2, Zenon
<1>4. /\ Add(c, d).sizes = Grown(c, d) /\ Add(c, d).size = c.size + 1
      /\ Add(c, d).same = s /\ Add(c, d).large = l
  BY <1>3
<1>5. QED
  BY <1>2, <1>4, Zenon

\* LastChunk::Add keeps the chunk so, whatever CanAdd lets in.
THEOREM AddKeepsChunk ==
    ASSUME NEW c, ChunkOK(c), NEW d \in {0, 1, kLarge}, CanAdd(c, d)
    PROVE  ChunkOK(Add(c, d))
<1>1. PICK z \in Seq({0, 1, kLarge}), n \in Nat :
          /\ z = c.sizes /\ n = c.size /\ n <= MaxRunLength
          /\ Len(z) = Least(n, MaxOneBit) /\ Len(z) \in Nat
  BY Capacities DEF ChunkOK
<1>0. /\ c.same <=> \A i \in 1 .. Len(z) : z[i] = z[1]
      /\ c.large <=> \E i \in 1 .. Len(z) : z[i] = kLarge
      /\ n > MaxOneBit => c.same
      /\ n > MaxTwoBit => c.same \/ ~c.large
      /\ c.same \in BOOLEAN /\ c.large \in BOOLEAN
  BY <1>1, Zenon DEF ChunkOK
<1>2. PICK y : y = IF n < MaxOneBit THEN Append(z, d) ELSE z
  OBVIOUS
<1>3. PICK e : /\ e = Add(c, d) /\ e.sizes = y /\ e.size = n + 1
               /\ e.same \in BOOLEAN /\ e.large \in BOOLEAN
               /\ e.same <=> c.same /\ d = y[1]
               /\ e.large <=> c.large \/ d = kLarge
  <2>1. y = Grown(c, d)
    BY <1>1, <1>2, Zenon DEF Grown
  <2>2. /\ Add(c, d).sizes = Grown(c, d) /\ Add(c, d).size = c.size + 1
        /\ Add(c, d).same \in BOOLEAN /\ Add(c, d).large \in BOOLEAN
        /\ Add(c, d).same <=> c.same /\ d = Grown(c, d)[1]
        /\ Add(c, d).large <=> c.large \/ d = kLarge
    <3>1. c.same \in BOOLEAN /\ c.large \in BOOLEAN
      BY <1>0, Zenon
    <3>2. QED
      BY <3>1, Added
  <2>3. Add(c, d).size = n + 1
    BY <1>1, <2>2, Zenon
  <2>4. WITNESS Add(c, d)
  <2>5. QED
    BY <2>1, <2>2, <2>3, Zenon
<1>4. y \in Seq({0, 1, kLarge}) /\ Len(y) = Least(n + 1, MaxOneBit)
  <2>1. CASE n < MaxOneBit
    <3>1. y = Append(z, d) /\ Len(y) = Len(z) + 1 /\ y \in Seq({0, 1, kLarge})
      BY <1>2, <2>1
    <3>2. QED
      BY <1>1, <2>1, <3>1, Capacities DEF Least
  <2>2. CASE ~(n < MaxOneBit)
    BY <1>1, <1>2, <2>2, Capacities DEF Least
  <2>3. QED
    BY <2>1, <2>2
<1>5. n + 1 <= MaxRunLength
  BY <1>1, Capacities DEF CanAdd
<1>6. n + 1 \in 0 .. MaxRunLength
  BY <1>5, Capacities
<1>7. CASE n < MaxOneBit
  <2>1. /\ Len(z) = n /\ Len(y) = n + 1 /\ y[n + 1] = d
        /\ \A i \in 1 .. n : y[i] = z[i]
    BY <1>1, <1>2, <1>7 DEF Least
  <2>2. e.large <=> \E i \in 1 .. Len(y) : y[i] = kLarge
    <3>1. (\E i \in 1 .. Len(y) : y[i] = kLarge)
          <=> (\E i \in 1 .. Len(z) : z[i] = kLarge) \/ d = kLarge
      BY <2>1
    <3>2. QED
      BY <1>0, <1>3, <3>1, Zenon
  <2>3. e.same <=> \A i \in 1 .. Len(y) : y[i] = y[1]
    <3>1. (\A i \in 1 .. Len(y) : y[i] = y[1])
          <=> (\A i \in 1 .. Len(z) : z[i] = z[1]) /\ d = y[1]
      BY <2>1
    <3>2. QED
      BY <1>0, <1>3, <3>1, Zenon
  <2>4. ~(n + 1 > MaxOneBit)
    BY <1>1, <1>7, Capacities
  <2>5. n + 1 > MaxTwoBit => e.same \/ ~e.large
    <3>1. ASSUME ~(n < MaxTwoBit), ~(c.same /\ z[1] = d) PROVE ~e.large
      <4>1. ~c.large /\ d # kLarge
        BY <1>1, <3>1, Zenon DEF CanAdd
      <4>2. QED
        BY <1>3, <4>1, Zenon
    <3>2. ASSUME ~(n < MaxTwoBit), c.same /\ z[1] = d PROVE e.same
      <4>1. y[1] = z[1]
        BY <2>1, <3>2, Capacities
      <4>2. QED
        BY <1>3, <3>2, <4>1, Zenon
    <3>3. QED
      BY <1>1, <3>1, <3>2, Capacities
  <2>6. QED
    BY <1>3, <1>4, <1>6, <2>2, <2>3, <2>4, <2>5, Zenon DEF ChunkOK
<1>8. CASE ~(n < MaxOneBit)
  <2>1. c.same /\ z[1] = d /\ y = z /\ Len(z) = MaxOneBit
    BY <1>1, <1>2, <1>8, Capacities DEF CanAdd, Least
  <2>2. e.same
    BY <1>3, <2>1
  <2>3. e.same <=> \A i \in 1 .. Len(y) : y[i] = y[1]
    BY <1>1, <1>0, <2>1, <2>2
  <2>4. e.large <=> \E i \in 1 .. Len(y) : y[i] = kLarge
    BY <1>1, <1>0, <1>3, <2>1, Capacities
  <2>5. QED
    BY <1>3, <1>4, <1>6, <2>2, <2>3, <2>4, Zenon DEF ChunkOK
<1>9. QED
  BY <1>3, <1>7, <1>8

\* Functions on an initial interval that agree are the same sequence.
LEMMA SameSequence ==
    ASSUME NEW S, NEW s \in Seq(S), NEW t \in Seq(S), Len(s) = Len(t),
           \A i \in 1 .. Len(s) : s[i] = t[i]
    PROVE  s = t
OBVIOUS

LEMMA AppendToLists == ASSUME NEW c, NEW s PROVE AppendTo(c, s) = s \o Listed(c)
BY Zenon DEF AppendTo, Listed

\* A decoded chunk that repeats one size, and one that lists them.
LEMMA DecodedRun ==
    ASSUME NEW symbol, NEW length \in Nat, NEW max \in Nat, length <= max, length > 0
    PROVE  Listed(Decode([kind |-> "run", symbol |-> symbol, length |-> length], max))
           = [i \in 1 .. length |-> symbol]
<1>0. PICK code : code = [kind |-> "run", symbol |-> symbol, length |-> length]
  OBVIOUS
<1>1. Least(length, max) = length
  BY DEF Least
<1>2. PICK w : w = [i \in 1 .. Least(length, MaxOneBit) |-> symbol]
  OBVIOUS
<1>3. code.kind = "run" /\ code.length = length /\ code.symbol = symbol
  BY <1>0
<1>4. PICK l : l = (symbol >= kLarge)
  OBVIOUS
<1>5. Decode(code, max) = [sizes |-> w, size |-> length, same |-> TRUE, large |-> l]
  BY <1>1, <1>2, <1>3, <1>4, Zenon DEF Decode
<1>6. PICK k : k = Decode(code, max) /\ k.sizes = w /\ k.size = length /\ k.same
  BY <1>5
<1>7. w[1] = symbol
  BY <1>2, Capacities DEF Least
<1>8. Listed(k) = [i \in 1 .. k.size |-> k.sizes[1]]
  BY <1>6, Zenon DEF Listed
<1>9. QED
  BY <1>0, <1>6, <1>7, <1>8, Zenon

LEMMA DecodedVector ==
    ASSUME NEW kind, kind # "run", NEW symbols, NEW max
    PROVE  Listed(Decode([kind |-> kind, symbols |-> symbols], max))
           = SubSeq(SubSeq(symbols, 1, Least(Len(symbols), max)), 1, Least(Len(symbols), max))
<1>0. PICK code, n : code = [kind |-> kind, symbols |-> symbols] /\ n = Least(Len(symbols), max)
  OBVIOUS
<1>1. code.kind = kind /\ code.symbols = symbols
  BY <1>0
<1>2. PICK l : l = (code.kind = "two")
  OBVIOUS
<1>3. Decode(code, max) = [sizes |-> SubSeq(symbols, 1, n), size |-> n, same |-> FALSE, large |-> l]
  BY <1>0, <1>1, <1>2, Zenon DEF Decode
<1>4. PICK k : k = Decode(code, max) /\ k.sizes = SubSeq(symbols, 1, n) /\ k.size = n /\ ~k.same
  BY <1>3
<1>5. Listed(k) = SubSeq(k.sizes, 1, k.size)
  BY <1>4, Zenon DEF Listed
<1>6. QED
  BY <1>0, <1>4, <1>5, Zenon

LEMMA PaddedFront ==
    ASSUME NEW s \in Seq({0, 1, kLarge}), NEW n \in Nat, Len(s) <= n
    PROVE  /\ Padded(s, n) \in Seq({0, 1, kLarge}) /\ Len(Padded(s, n)) = n
           /\ SubSeq(Padded(s, n), 1, Len(s)) = s
<1>1. PICK q : q = Padded(s, n)
  OBVIOUS
<1>2. q = [i \in 1 .. n |-> IF i <= Len(s) THEN s[i] ELSE 0]
  BY <1>1 DEF Padded
<1>3. \A i \in 1 .. n : q[i] \in {0, 1, kLarge}
  BY <1>2
<1>4. q \in Seq({0, 1, kLarge}) /\ Len(q) = n
  BY <1>2, <1>3
<1>5. PICK t : t = SubSeq(q, 1, Len(s))
  OBVIOUS
<1>6. t \in Seq({0, 1, kLarge}) /\ Len(t) = Len(s) /\ \A i \in 1 .. Len(s) : t[i] = q[i]
  BY <1>4, <1>5
<1>7. \A i \in 1 .. Len(s) : t[i] = s[i]
  <2>1. Len(s) \in Nat
    OBVIOUS
  <2>2. \A i \in 1 .. Len(s) : q[i] = s[i]
    <3>1. TAKE i \in 1 .. Len(s)
    <3>2. i \in 1 .. n /\ i <= Len(s)
      BY <2>1
    <3>3. QED
      BY <1>2, <3>2
  <2>3. QED
    BY <1>6, <2>2
<1>8. t = s
  BY <1>6, <1>7, SameSequence
<1>9. QED
  BY <1>1, <1>4, <1>5, <1>8

LEMMA WholeSequence ==
    ASSUME NEW s \in Seq({0, 1, kLarge})
    PROVE  SubSeq(s, 1, Len(s)) = s
<1>1. PICK t : t = SubSeq(s, 1, Len(s))
  OBVIOUS
<1>2. t \in Seq({0, 1, kLarge}) /\ Len(t) = Len(s) /\ \A i \in 1 .. Len(s) : t[i] = s[i]
  BY <1>1
<1>3. QED
  BY <1>1, <1>2, SameSequence

\* What is known of a chunk that is not empty, by its parts.
LEMMA ChunkParts ==
    ASSUME NEW c, ChunkOK(c), c.size > 0
    PROVE  \E z \in Seq({0, 1, kLarge}), n \in Nat :
               /\ z = c.sizes /\ n = c.size /\ n > 0 /\ n <= MaxRunLength
               /\ Len(z) = Least(n, MaxOneBit) /\ Len(z) \in Nat
               /\ c.same \/ (n <= MaxOneBit /\ Len(z) = n)
<1>1. PICK z \in Seq({0, 1, kLarge}), n \in Nat :
          /\ z = c.sizes /\ n = c.size /\ n > 0 /\ n <= MaxRunLength
          /\ Len(z) = Least(n, MaxOneBit) /\ Len(z) \in Nat
  <2>1. /\ c.sizes \in Seq({0, 1, kLarge}) /\ c.size \in 0 .. MaxRunLength
        /\ Len(c.sizes) = Least(c.size, MaxOneBit)
    BY Zenon DEF ChunkOK
  <2>2. Len(c.sizes) \in Nat
    BY <2>1
  <2>3. c.size \in Nat /\ c.size <= MaxRunLength
    BY <2>1, Capacities
  <2>4. QED
    BY <2>1, <2>2, <2>3, Zenon
<1>2. c.same \/ ~(n > MaxOneBit)
  BY <1>1, Zenon DEF ChunkOK
<1>3. ~(n > MaxOneBit) => n <= MaxOneBit /\ Len(z) = n
  BY <1>1, Capacities DEF Least
<1>4. QED
  BY <1>1, <1>2, <1>3

\* The last chunk of a message (EncodeLast, then Decode): it is read back as
\* the sizes it stands for, whichever of the three encodings it got, and the one
\* bit each of a vector of MaxOneBit is enough for its sizes.
THEOREM LastChunkSurvivesWire ==
    ASSUME NEW c, ChunkOK(c), c.size > 0
    PROVE  /\ Listed(Decode(EncodeLast(c), c.size)) = Listed(c)
           /\ EncodeLast(c).kind = "one" => \A i \in 1 .. c.size : c.sizes[i] # kLarge
<1>1. PICK z \in Seq({0, 1, kLarge}), n \in Nat :
          /\ z = c.sizes /\ n = c.size /\ n > 0 /\ n <= MaxRunLength
          /\ Len(z) = Least(n, MaxOneBit) /\ Len(z) \in Nat
          /\ c.same \/ (n <= MaxOneBit /\ Len(z) = n)
  BY ChunkParts
<1>2. CASE c.same
  <2>1. EncodeLast(c) = EncodeRunLength(c)
    BY <1>2, Zenon DEF EncodeLast
  <2>2. EncodeRunLength(c) = [kind |-> "run", symbol |-> z[1], length |-> n]
    BY <1>1, Zenon DEF EncodeRunLength
  <2>3. Listed(Decode(EncodeLast(c), n)) = [i \in 1 .. n |-> z[1]]
    <3>1. Listed(Decode([kind |-> "run", symbol |-> z[1], length |-> n], n)) = [i \in 1 .. n |-> z[1]]
      BY <1>1, DecodedRun
    <3>2. QED
      BY <2>1, <2>2, <3>1, Zenon
  <2>4. Listed(c) = [i \in 1 .. n |-> z[1]]
    BY <1>1, <1>2, Zenon DEF Listed
  <2>5. EncodeLast(c).kind = "run"
    BY <2>1, <2>2
  <2>6. QED
    BY <1>1, <2>3, <2>4, <2>5
<1>3. CASE ~c.same
  <2>1. n <= MaxOneBit /\ Len(z) = n
    BY <1>1, <1>3
  <2>2. Listed(c) = z
    <3>1. Listed(c) = SubSeq(z, 1, n)
      BY <1>1, <1>3, Zenon DEF Listed
    <3>2. QED
      BY <2>1, <3>1, WholeSequence
  <2>3. CASE n <= MaxTwoBit
    <3>1. EncodeLast(c) = EncodeTwoBit(c, n)
      BY <1>1, <1>3, <2>3, Zenon DEF EncodeLast
    <3>2. SubSeq(z, 1, n) = z
      BY <2>1, WholeSequence
    <3>3. PICK y : y = Padded(z, MaxTwoBit)
      OBVIOUS
    <3>4. EncodeLast(c) = [kind |-> "two", symbols |-> y]
      BY <1>1, <3>1, <3>2, <3>3, Zenon DEF EncodeTwoBit
    <3>5. Len(y) = MaxTwoBit /\ SubSeq(y, 1, n) = z
      BY <2>1, <2>3, <3>3, PaddedFront, Capacities
    <3>6. n = Least(Len(y), n)
      BY <2>3, <3>5, Capacities DEF Least
    <3>7. Listed(Decode(EncodeLast(c), n)) = SubSeq(SubSeq(y, 1, n), 1, n)
      <4>1. Listed(Decode([kind |-> "two", symbols |-> y], n))
            = SubSeq(SubSeq(y, 1, Least(Len(y), n)), 1, Least(Len(y), n))
        BY DecodedVector
      <4>2. QED
        BY <3>4, <3>6, <4>1, Zenon
    <3>8. EncodeLast(c).kind = "two"
      BY <3>4
    <3>9. QED
      BY <1>1, <2>2, <3>2, <3>5, <3>7, <3>8
  <2>4. CASE ~(n <= MaxTwoBit)
    <3>1. EncodeLast(c) = EncodeOneBit(c)
      BY <1>1, <1>3, <2>4, Zenon DEF EncodeLast
    <3>2. SubSeq(z, 1, n) = z
      BY <2>1, WholeSequence
    <3>3. PICK y : y = Padded(z, MaxOneBit)
      OBVIOUS
    <3>4. EncodeLast(c) = [kind |-> "one", symbols |-> y]
      BY <1>1, <3>1, <3>3, Zenon DEF EncodeOneBit
    <3>5. Len(y) = MaxOneBit /\ SubSeq(y, 1, n) = z
      BY <2>1, <3>3, PaddedFront, Capacities
    <3>6. n = Least(Len(y), n)
      BY <2>1, <3>5, Capacities DEF Least
    <3>7. Listed(Decode(EncodeLast(c), n)) = SubSeq(SubSeq(y, 1, n), 1, n)
      <4>1. Listed(Decode([kind |-> "one", symbols |-> y], n))
            = SubSeq(SubSeq(y, 1, Least(Len(y), n)), 1, Least(Len(y), n))
        BY DecodedVector
      <4>2. QED
        BY <3>4, <3>6, <4>1, Zenon
    <3>8. ~c.large
      <4>1. n > MaxTwoBit
        BY <2>4, Capacities
      <4>2. QED
        BY <1>1, <1>3, <4>1, Zenon DEF ChunkOK
    <3>9. \A i \in 1 .. n : z[i] # kLarge
      BY <1>1, <2>1, <3>8, Zenon DEF ChunkOK
    <3>10. QED
      BY <1>1, <2>2, <3>2, <3>5, <3>7, <3>9
  <2>5. QED
    BY <2>3, <2>4
<1>4. QED
  BY <1>2, <1>3

\* A chunk that is full (Emit, when CanAdd refuses a size): what is written is
\* read back as the first of its sizes, and the others open the next chunk, so
\* that none is lost or written twice.
THEOREM FullChunkSurvivesWire ==
    ASSUME NEW c, ChunkOK(c), NEW d, ~CanAdd(c, d), NEW max \in Nat, c.size <= max
    PROVE  \E n \in 1 .. c.size :
               /\ Listed(Decode(Emit(c).code, max)) = SubSeq(Listed(c), 1, n)
               /\ \/ n = c.size /\ Emit(c).chunk = NewChunk
                  \/ Emit(c).chunk = FoldLeft(Add, NewChunk, SubSeq(Listed(c), n + 1, c.size))
<1>0. c.size > 0
  BY Capacities DEF CanAdd, ChunkOK
<1>1. PICK z \in Seq({0, 1, kLarge}), n \in Nat :
          /\ z = c.sizes /\ n = c.size /\ n > 0 /\ n <= MaxRunLength
          /\ Len(z) = Least(n, MaxOneBit) /\ Len(z) \in Nat
          /\ c.same \/ (n <= MaxOneBit /\ Len(z) = n)
  BY <1>0, ChunkParts
<1>2. CASE c.same
  <2>1. Emit(c) = [code |-> EncodeRunLength(c), chunk |-> NewChunk]
    BY <1>2, Zenon DEF Emit
  <2>2. Emit(c).code = EncodeRunLength(c) /\ Emit(c).chunk = NewChunk
    BY <2>1
  <2>3. EncodeRunLength(c) = [kind |-> "run", symbol |-> z[1], length |-> n]
    BY <1>1, Zenon DEF EncodeRunLength
  <2>4. Listed(Decode(Emit(c).code, max)) = [i \in 1 .. n |-> z[1]]
    <3>1. n <= max
      BY <1>1
    <3>2. Listed(Decode([kind |-> "run", symbol |-> z[1], length |-> n], max)) = [i \in 1 .. n |-> z[1]]
      BY <1>1, <3>1, DecodedRun
    <3>3. QED
      BY <2>2, <2>3, <3>2, Zenon
  <2>5. Listed(c) = [i \in 1 .. n |-> z[1]]
    BY <1>1, <1>2, Zenon DEF Listed
  <2>6. z[1] \in {0, 1, kLarge}
    BY <1>1, Capacities DEF Least
  <2>7. PICK y \in Seq({0, 1, kLarge}) : y = [i \in 1 .. n |-> z[1]] /\ Len(y) = n
    <3>1. PICK y : y = [i \in 1 .. n |-> z[1]]
      OBVIOUS
    <3>2. y \in Seq({0, 1, kLarge}) /\ Len(y) = n
      BY <2>6, <3>1
    <3>3. QED
      BY <3>1, <3>2, Zenon
  <2>8. SubSeq(y, 1, n) = y
    BY <2>7, WholeSequence
  <2>9. n \in 1 .. c.size
    BY <1>1
  <2>10. QED
    BY <1>1, <2>2, <2>4, <2>5, <2>7, <2>8, <2>9, Zenon
<1>3. CASE ~c.same
  <2>1. n <= MaxOneBit /\ Len(z) = n
    BY <1>1, <1>3
  <2>2. Listed(c) = z /\ SubSeq(z, 1, n) = z
    <3>1. Listed(c) = SubSeq(z, 1, n)
      BY <1>1, <1>3, Zenon DEF Listed
    <3>2. QED
      BY <2>1, <3>1, WholeSequence
  <2>3. CASE n = MaxOneBit
    <3>1. Emit(c) = [code |-> EncodeOneBit(c), chunk |-> NewChunk]
      BY <1>1, <1>3, <2>3, Zenon DEF Emit
    <3>2. Emit(c).code = EncodeOneBit(c) /\ Emit(c).chunk = NewChunk
      BY <3>1
    <3>3. PICK y : y = Padded(z, MaxOneBit)
      OBVIOUS
    <3>4. Emit(c).code = [kind |-> "one", symbols |-> y]
      BY <1>1, <3>2, <3>3, Zenon DEF EncodeOneBit
    <3>5. Len(y) = n /\ SubSeq(y, 1, n) = z
      BY <2>1, <2>3, <3>3, PaddedFront, Capacities
    <3>6. n = Least(Len(y), max)
      BY <1>1, <3>5 DEF Least
    <3>7. Listed(Decode(Emit(c).code, max)) = SubSeq(SubSeq(y, 1, n), 1, n)
      <4>1. Listed(Decode([kind |-> "one", symbols |-> y], max))
            = SubSeq(SubSeq(y, 1, Least(Len(y), max)), 1, Least(Len(y), max))
        BY DecodedVector
      <4>2. QED
        BY <3>4, <3>6, <4>1, Zenon
    <3>8. n \in 1 .. c.size
      BY <1>1
    <3>9. QED
      BY <1>1, <2>2, <3>2, <3>5, <3>7, <3>8, Zenon
  <2>4. CASE n # MaxOneBit
    <3>1. PICK m \in Nat : m = MaxTwoBit /\ m > 0 /\ m <= n
      BY <1>1, <2>1, <2>4, Capacities DEF CanAdd
    <3>2. Emit(c) = [code |-> EncodeTwoBit(c, m),
                     chunk |-> FoldLeft(Add, NewChunk, SubSeq(z, m + 1, n))]
      BY <1>1, <1>3, <2>4, <3>1, Zenon DEF Emit
    <3>3. /\ Emit(c).code = EncodeTwoBit(c, m)
          /\ Emit(c).chunk = FoldLeft(Add, NewChunk, SubSeq(z, m + 1, n))
      BY <3>2
    <3>4. PICK x \in Seq({0, 1, kLarge}) : x = SubSeq(z, 1, m) /\ Len(x) = m
      <4>1. PICK x : x = SubSeq(z, 1, m)
        OBVIOUS
      <4>2. x \in Seq({0, 1, kLarge}) /\ Len(x) = m
        BY <2>1, <3>1, <4>1
      <4>3. QED
        BY <4>1, <4>2, Zenon
    <3>5. PICK y : y = Padded(x, m)
      OBVIOUS
    <3>6. Emit(c).code = [kind |-> "two", symbols |-> y]
      BY <1>1, <3>1, <3>3, <3>4, <3>5, Zenon DEF EncodeTwoBit
    <3>7. Len(y) = m /\ SubSeq(y, 1, m) = x
      <4>1. Len(x) <= m
        BY <3>4
      <4>2. Len(Padded(x, m)) = m /\ SubSeq(Padded(x, m), 1, Len(x)) = x
        BY <4>1, PaddedFront
      <4>3. QED
        BY <3>4, <3>5, <4>2, Zenon
    <3>8. m = Least(Len(y), max)
      BY <1>1, <3>1, <3>7 DEF Least
    <3>9. Listed(Decode(Emit(c).code, max)) = SubSeq(SubSeq(y, 1, m), 1, m)
      <4>1. Listed(Decode([kind |-> "two", symbols |-> y], max))
            = SubSeq(SubSeq(y, 1, Least(Len(y), max)), 1, Least(Len(y), max))
        BY DecodedVector
      <4>2. QED
        BY <3>6, <3>8, <4>1, Zenon
    <3>10. SubSeq(x, 1, m) = x
      BY <3>4, WholeSequence
    <3>11. m \in 1 .. c.size
      BY <1>1, <3>1
    <3>12. QED
      BY <1>1, <2>2, <3>3, <3>4, <3>7, <3>9, <3>10, <3>11, Zenon
  <2>5. QED
    BY <2>3, <2>4
<1>4. QED
  BY <1>2, <1>3

=============================================================================
