--------------------------- MODULE FramingProofs ----------------------------
(***************************************************************************)
(* Theorems about the bytes of the protocol, for all messages, all places  *)
(* where reads and writes may be cut, and every size of the kernels'       *)
(* buffers.                                                                *)
(***************************************************************************)
EXTENDS Framing, SequenceTheorems, TLAPS

Bytes == Seq(Byte)

LEMMA ConcatBytes ==
    /\ \A a, b \in Bytes : a \o b \in Bytes
    /\ \A a \in Bytes : a \o <<>> = a /\ <<>> \o a = a
    /\ \A a, b, c \in Bytes : (a \o b) \o c = a \o (b \o c)
<1>1. \A a, b \in Bytes : a \o b \in Bytes  BY ConcatProperties DEF Bytes
<1>2. \A a \in Bytes : a \o <<>> = a /\ <<>> \o a = a  BY ConcatEmptySeq DEF Bytes
<1>3. ASSUME NEW a \in Seq(Byte), NEW b \in Seq(Byte), NEW c \in Seq(Byte)
      PROVE  (a \o b) \o c = a \o (b \o c)
  BY ConcatAssociative
<1> QED  BY <1>1, <1>2, <1>3 DEF Bytes

(* A message as the parser returns it.                                      *)
Parsed == [type : Byte, payload : Bytes]

-----------------------------------------------------------------------------
(* One frame.                                                               *)

LEMMA ByteRange == \A x : x \in Byte <=> x \in Int /\ 0 <= x /\ x <= 255
  BY DEF Byte

(* The length of a legal payload fits into its four bytes and is read back. *)
LEMMA LengthRoundTrip ==
    ASSUME NEW n \in Nat, protocol_payload_length_is_legal(n)
    PROVE  /\ LengthBytes(n) \in Bytes /\ Len(LengthBytes(n)) = 4
           /\ 16777216 * LengthBytes(n)[1] + 65536 * LengthBytes(n)[2]
                + 256 * LengthBytes(n)[3] + LengthBytes(n)[4] = n
<1>1. n <= 65536
  BY SMT DEF protocol_payload_length_is_legal, MAX_PAYLOAD_SIZE
<1>2. /\ n \div 16777216 = 0
      /\ (n \div 65536) % 256 \in Byte
      /\ (n \div 256) % 256 \in Byte
      /\ n % 256 \in Byte
      /\ 0 \in Byte
  BY <1>1, ByteRange, SMT
<1>3. 65536 * ((n \div 65536) % 256) + 256 * ((n \div 256) % 256) + (n % 256) = n
  <2>1. CASE n = 65536  BY <2>1, SMT
  <2>2. CASE n # 65536
    <3>1. n <= 65535  BY <1>1, <2>2, SMT
    <3>2. n \div 65536 = 0  BY <3>1, SMT
    <3>3. (n \div 256) % 256 = n \div 256  BY <3>1, SMT
    <3>4. 256 * (n \div 256) + (n % 256) = n  BY <3>1, SMT
    <3> QED  BY <3>2, <3>3, <3>4, SMT
  <2> QED  BY <2>1, <2>2
<1> DEFINE b == (n \div 65536) % 256
           c == (n \div 256) % 256
           d == n % 256
<1>4. LengthBytes(n) = <<0, b, c, d>>
  BY <1>2, SMT DEF LengthBytes
<1> HIDE DEF b, c, d
<1>5. b \in Byte /\ c \in Byte /\ d \in Byte /\ 65536 * b + 256 * c + d = n
  BY <1>2, <1>3 DEF b, c, d
<1>6. LengthBytes(n) \in Bytes /\ Len(LengthBytes(n)) = 4
  BY <1>2, <1>4, <1>5, SMT DEF Bytes
<1>7. 16777216 * 0 + 65536 * b + 256 * c + d = n
  BY <1>5, ByteRange, SMT
<1> QED  BY <1>4, <1>6, <1>7, SMT

(* What a frame looks like.                                                 *)
LEMMA EncodeShape ==
    ASSUME NEW m \in Messages
    PROVE  /\ m \in Parsed
           /\ Encode(m) \in Bytes
           /\ Len(Encode(m)) = FRAME_HEADER_SIZE + Len(m.payload)
           /\ Encode(m)[1] = m.type
           /\ PayloadLength(Encode(m)) = Len(m.payload)
           /\ \A i \in 1 .. Len(m.payload) :
                Encode(m)[FRAME_HEADER_SIZE + i] = m.payload[i]
<1> DEFINE n == Len(m.payload)
           l == LengthBytes(n)
           t == <<m.type>>
           h == t \o l
<1>1. m \in Parsed  BY FramingAssumption DEF Parsed, Bytes
<1>2. m.type \in Byte /\ m.payload \in Bytes  BY <1>1 DEF Parsed
<1>3. n \in Nat /\ protocol_payload_length_is_legal(n)
  BY <1>2, FramingAssumption, LenProperties DEF Bytes
<1>4. l \in Bytes /\ Len(l) = 4  BY <1>3, LengthRoundTrip
<1>5. t \in Bytes /\ Len(t) = 1 /\ t[1] = m.type
  BY <1>2 DEF Bytes
<1>6. /\ h \in Bytes /\ Len(h) = 5
      /\ h[1] = m.type /\ h[2] = l[1] /\ h[3] = l[2] /\ h[4] = l[3] /\ h[5] = l[4]
  <2> HIDE DEF l, t
  <2>1. /\ h \in Bytes /\ Len(h) = Len(t) + Len(l)
        /\ \A i \in 1 .. Len(t) + Len(l) : h[i] = IF i <= Len(t) THEN t[i] ELSE l[i - Len(t)]
    BY <1>4, <1>5, ConcatProperties DEF Bytes
  <2>2. /\ h[1] = IF 1 <= 1 THEN t[1] ELSE l[1 - 1]
        /\ h[2] = IF 2 <= 1 THEN t[2] ELSE l[2 - 1]
        /\ h[3] = IF 3 <= 1 THEN t[3] ELSE l[3 - 1]
        /\ h[4] = IF 4 <= 1 THEN t[4] ELSE l[4 - 1]
        /\ h[5] = IF 5 <= 1 THEN t[5] ELSE l[5 - 1]
    <3> HIDE DEF h
    <3> QED  BY <1>4, <1>5, <2>1
  <2> HIDE DEF h
  <2> QED  BY <1>4, <1>5, <2>1, <2>2
<1>7. Encode(m) = h \o m.payload  BY DEF Encode
<1> HIDE DEF h, l
<1>8. /\ Encode(m) \in Bytes /\ Len(Encode(m)) = 5 + n
      /\ \A i \in 1 .. 5 + n : Encode(m)[i] = IF i <= 5 THEN h[i] ELSE m.payload[i - 5]
  <2>1. /\ h \o m.payload \in Bytes /\ Len(h \o m.payload) = Len(h) + n
        /\ \A i \in 1 .. Len(h) + n :
             (h \o m.payload)[i] = IF i <= Len(h) THEN h[i] ELSE m.payload[i - Len(h)]
    BY <1>2, <1>6, ConcatProperties DEF Bytes
  <2> QED  BY <1>6, <1>7, <2>1
<1>9. /\ Encode(m)[1] = m.type /\ Encode(m)[2] = l[1] /\ Encode(m)[3] = l[2]
      /\ Encode(m)[4] = l[3] /\ Encode(m)[5] = l[4]
  BY <1>3, <1>6, <1>8
<1>10. PayloadLength(Encode(m)) = n
  <2>1. PayloadLength(Encode(m)) = 16777216 * l[1] + 65536 * l[2] + 256 * l[3] + l[4]
    BY <1>9, SMT DEF PayloadLength
  <2> QED  BY <1>3, <2>1, LengthRoundTrip, SMT DEF l
<1>11. \A i \in 1 .. n : Encode(m)[5 + i] = m.payload[i]
  BY <1>3, <1>8
<1> QED  BY <1>1, <1>8, <1>9, <1>10, <1>11 DEF FRAME_HEADER_SIZE

(* The length in a header is a number.                                      *)
LEMMA PayloadLengthType ==
    ASSUME NEW b \in Bytes, HasHeader(b)
    PROVE  PayloadLength(b) \in Nat
<1>1. b[2] \in Byte /\ b[3] \in Byte /\ b[4] \in Byte /\ b[5] \in Byte
  BY ElementOfSeq, LenProperties DEF HasHeader, FRAME_HEADER_SIZE, Bytes
<1> QED  BY <1>1, ByteRange, SMT DEF PayloadLength

(* A frame that is there: its message and what follows it.                  *)
LEMMA FrameType ==
    ASSUME NEW b \in Bytes, HasFrame(b)
    PROVE  /\ FrameSize(b) \in FRAME_HEADER_SIZE .. Len(b)
           /\ FirstMessage(b) \in Parsed
           /\ Len(FirstMessage(b).payload) = PayloadLength(b)
           /\ \A i \in 1 .. PayloadLength(b) :
                FirstMessage(b).payload[i] = b[FRAME_HEADER_SIZE + i]
           /\ WithoutFirst(b) \in Bytes
           /\ Len(WithoutFirst(b)) = Len(b) - FrameSize(b)
           /\ \A i \in 1 .. Len(b) - FrameSize(b) : WithoutFirst(b)[i] = b[FrameSize(b) + i]
<1>1. Len(b) \in Nat  BY LenProperties DEF Bytes
<1>2. PayloadLength(b) \in Nat  BY PayloadLengthType DEF HasFrame
<1>3. FrameSize(b) \in 5 .. Len(b) /\ FrameSize(b) = 5 + PayloadLength(b)
  BY <1>1, <1>2 DEF HasFrame, FrameSize, FRAME_HEADER_SIZE
<1>4. \A i \in 1 .. Len(b) : b[i] \in Byte  BY ElementOfSeq DEF Bytes
<1> DEFINE payload == SubSeq(b, 6, FrameSize(b))
           tail == SubSeq(b, FrameSize(b) + 1, Len(b))
<1>5. /\ payload \in Bytes
      /\ Len(payload) = IF 6 <= FrameSize(b) THEN FrameSize(b) - 6 + 1 ELSE 0
      /\ \A i \in 1 .. FrameSize(b) - 6 + 1 : payload[i] = b[6 + i - 1]
  <2>1. 6 \in Int /\ FrameSize(b) \in Int /\ \A i \in 6 .. FrameSize(b) : b[i] \in Byte
    BY <1>1, <1>3, <1>4
  <2> QED  BY <2>1, SubSeqProperties DEF Bytes
<1>6. /\ tail \in Bytes
      /\ Len(tail) = IF FrameSize(b) + 1 <= Len(b) THEN Len(b) - (FrameSize(b) + 1) + 1 ELSE 0
      /\ \A i \in 1 .. Len(b) - (FrameSize(b) + 1) + 1 : tail[i] = b[FrameSize(b) + 1 + i - 1]
  <2>1. /\ FrameSize(b) + 1 \in Int /\ Len(b) \in Int
        /\ \A i \in FrameSize(b) + 1 .. Len(b) : b[i] \in Byte
    BY <1>1, <1>3, <1>4
  <2> QED  BY <2>1, SubSeqProperties DEF Bytes
<1>7. FirstMessage(b) = [type |-> b[1], payload |-> payload] /\ WithoutFirst(b) = tail
  BY DEF FirstMessage, WithoutFirst, FRAME_HEADER_SIZE
<1> HIDE DEF payload, tail
<1>8. b[1] \in Byte  BY <1>1, <1>3, <1>4
<1>9. FirstMessage(b) \in Parsed /\ FirstMessage(b).payload = payload
  BY <1>5, <1>7, <1>8 DEF Parsed
<1>10. /\ Len(payload) = PayloadLength(b)
       /\ \A i \in 1 .. PayloadLength(b) : payload[i] = b[5 + i]
  BY <1>1, <1>2, <1>3, <1>5
<1>11. /\ Len(tail) = Len(b) - FrameSize(b)
       /\ \A i \in 1 .. Len(b) - FrameSize(b) : tail[i] = b[FrameSize(b) + i]
  BY <1>1, <1>3, <1>6
<1> QED  BY <1>3, <1>6, <1>7, <1>9, <1>10, <1>11 DEF FRAME_HEADER_SIZE

(* A frame at the beginning of b is the same frame however b goes on.       *)
LEMMA FramePrefix ==
    ASSUME NEW b \in Bytes, NEW t \in Bytes
    PROVE  /\ b \o t \in Bytes
           /\ HasFrame(b) => /\ HasFrame(b \o t)
                             /\ FirstMessage(b \o t) = FirstMessage(b)
                             /\ WithoutFirst(b \o t) = WithoutFirst(b) \o t
           /\ Oversized(b) => Oversized(b \o t)
<1> DEFINE s == b \o t
<1>1. Len(b) \in Nat /\ Len(t) \in Nat  BY LenProperties DEF Bytes
<1>2. /\ s \in Bytes /\ Len(s) = Len(b) + Len(t)
      /\ \A i \in 1 .. Len(b) + Len(t) : s[i] = IF i <= Len(b) THEN b[i] ELSE t[i - Len(b)]
  BY ConcatProperties DEF Bytes
<1> HIDE DEF s
<1>3. HasHeader(b) => HasHeader(s) /\ PayloadLength(s) = PayloadLength(b)
  <2> SUFFICES ASSUME HasHeader(b)  PROVE HasHeader(s) /\ PayloadLength(s) = PayloadLength(b)
    OBVIOUS
  <2>1. Len(b) >= 5 /\ Len(s) >= 5
    BY <1>1, <1>2 DEF HasHeader, FRAME_HEADER_SIZE
  <2>2. s[2] = b[2] /\ s[3] = b[3] /\ s[4] = b[4] /\ s[5] = b[5]
    BY <1>1, <1>2, <2>1
  <2>3. PayloadLength(s) = PayloadLength(b)  BY <2>2, SMT DEF PayloadLength
  <2> QED  BY <2>1, <2>3 DEF HasHeader, FRAME_HEADER_SIZE
<1>4. Oversized(b) => Oversized(s)
  BY <1>3 DEF Oversized
<1>5. ASSUME HasFrame(b)
      PROVE  /\ HasFrame(s)
             /\ FirstMessage(s) = FirstMessage(b)
             /\ WithoutFirst(s) = WithoutFirst(b) \o t
  <2>1. PayloadLength(s) = PayloadLength(b) /\ FrameSize(s) = FrameSize(b)
    BY <1>3, <1>5 DEF HasFrame, FrameSize
  <2>2. FrameSize(b) \in 5 .. Len(b) /\ FrameSize(b) = 5 + PayloadLength(b)
    BY <1>5, FrameType DEF FRAME_HEADER_SIZE, FrameSize
  <2>3. HasFrame(s)
    BY <1>1, <1>2, <1>3, <1>5, <2>1, <2>2 DEF HasFrame, Oversized
  <2>4. PayloadLength(b) \in Nat  BY <1>5, PayloadLengthType DEF HasFrame
  <2>5. s[1] = b[1]  BY <1>1, <1>2, <2>2
  <2>6. FirstMessage(s).payload = FirstMessage(b).payload
    <3> DEFINE p == FirstMessage(b).payload
               q == FirstMessage(s).payload
    <3>1. /\ p \in Bytes /\ q \in Bytes
          /\ Len(p) = PayloadLength(b) /\ Len(q) = PayloadLength(b)
          /\ \A i \in 1 .. PayloadLength(b) : p[i] = b[5 + i] /\ q[i] = s[5 + i]
      BY <1>2, <1>5, <2>1, <2>3, FrameType DEF Parsed, FRAME_HEADER_SIZE
    <3> HIDE DEF p, q
    <3>2. \A i \in 1 .. PayloadLength(b) : s[5 + i] = b[5 + i]
      BY <1>1, <1>2, <2>2, <2>4
    <3>3. \A i \in 1 .. Len(q) : q[i] = p[i]  BY <3>1, <3>2
    <3>4. q = p  BY <3>1, <3>3, SeqEqual DEF Bytes
    <3> QED  BY <3>4 DEF p, q
  <2>7. FirstMessage(s) = FirstMessage(b)
    BY <2>5, <2>6 DEF FirstMessage
  <2>8. WithoutFirst(s) = WithoutFirst(b) \o t
    <3> DEFINE u == WithoutFirst(s)
               v == WithoutFirst(b)
               w == v \o t
    <3>1. /\ v \in Bytes /\ Len(v) = Len(b) - FrameSize(b)
          /\ \A i \in 1 .. Len(b) - FrameSize(b) : v[i] = b[FrameSize(b) + i]
      BY <1>5, FrameType
    <3>2. /\ u \in Bytes /\ Len(u) = Len(s) - FrameSize(b)
          /\ \A i \in 1 .. Len(s) - FrameSize(b) : u[i] = s[FrameSize(b) + i]
      BY <1>2, <2>1, <2>3, FrameType
    <3> HIDE DEF u, v
    <3>3. /\ w \in Bytes /\ Len(w) = Len(v) + Len(t)
          /\ \A i \in 1 .. Len(v) + Len(t) : w[i] = IF i <= Len(v) THEN v[i] ELSE t[i - Len(v)]
      BY <3>1, ConcatProperties DEF Bytes
    <3> HIDE DEF w
    <3>4. Len(u) = Len(w)  BY <1>1, <1>2, <2>2, <3>1, <3>2, <3>3
    <3>5. ASSUME NEW i \in 1 .. Len(u)  PROVE u[i] = w[i]
      <4>1. i \in 1 .. Len(b) - FrameSize(b) + Len(t)
        BY <1>1, <1>2, <2>2, <3>2
      <4>2. u[i] = s[FrameSize(b) + i]  BY <3>2
      <4>3. CASE i <= Len(b) - FrameSize(b)
        <5>1. w[i] = b[FrameSize(b) + i]
          BY <1>1, <2>2, <3>1, <3>3, <4>1, <4>3
        <5>2. s[FrameSize(b) + i] = b[FrameSize(b) + i]
          BY <1>1, <1>2, <2>2, <4>1, <4>3
        <5> QED  BY <4>2, <5>1, <5>2
      <4>4. CASE ~(i <= Len(b) - FrameSize(b))
        <5>1. w[i] = t[i - (Len(b) - FrameSize(b))]
          BY <1>1, <2>2, <3>1, <3>3, <4>1, <4>4
        <5>2. s[FrameSize(b) + i] = t[FrameSize(b) + i - Len(b)]
          BY <1>1, <1>2, <2>2, <4>1, <4>4, SMTT(30)
        <5>3. FrameSize(b) + i - Len(b) = i - (Len(b) - FrameSize(b))
          BY <1>1, <2>2, <4>1
        <5> QED  BY <4>2, <5>1, <5>2, <5>3
      <4> QED  BY <4>3, <4>4
    <3>6. u = w  BY <3>2, <3>3, <3>4, <3>5, SeqEqual DEF Bytes
    <3> QED  BY <3>6 DEF u, w, v
  <2> QED  BY <2>3, <2>7, <2>8
<1> QED  BY <1>2, <1>4, <1>5 DEF s

(* The parser takes the message that was encoded, and leaves what follows.  *)
LEMMA RoundTrip ==
    ASSUME NEW m \in Messages, NEW t \in Bytes
    PROVE  /\ HasFrame(Encode(m) \o t) /\ ~Oversized(Encode(m) \o t)
           /\ FirstMessage(Encode(m) \o t) = m
           /\ WithoutFirst(Encode(m) \o t) = t
<1> DEFINE b == Encode(m)
<1>1. /\ m \in Parsed /\ b \in Bytes
      /\ Len(b) = 5 + Len(m.payload) /\ PayloadLength(b) = Len(m.payload)
      /\ b[1] = m.type
      /\ \A i \in 1 .. Len(m.payload) : b[5 + i] = m.payload[i]
  BY EncodeShape DEF FRAME_HEADER_SIZE
<1> HIDE DEF b
<1>2. m.payload \in Bytes /\ Len(m.payload) \in Nat
  BY <1>1, LenProperties DEF Parsed, Bytes
<1>3. protocol_payload_length_is_legal(PayloadLength(b))
  BY <1>1, FramingAssumption
<1>4. HasFrame(b) /\ FrameSize(b) = Len(b)
  BY <1>1, <1>2, <1>3 DEF HasFrame, HasHeader, Oversized, FrameSize, FRAME_HEADER_SIZE
<1>5. FirstMessage(b).payload = m.payload
  <2> DEFINE p == FirstMessage(b).payload
  <2>1. /\ p \in Bytes /\ Len(p) = Len(m.payload)
        /\ \A i \in 1 .. Len(m.payload) : p[i] = b[5 + i]
    BY <1>1, <1>4, FrameType DEF Parsed, FRAME_HEADER_SIZE
  <2> HIDE DEF p
  <2>2. \A i \in 1 .. Len(p) : p[i] = m.payload[i]  BY <1>1, <2>1
  <2>3. p = m.payload  BY <1>2, <2>1, <2>2, SeqEqual DEF Bytes
  <2> QED  BY <2>3 DEF p
<1>6. FirstMessage(b) = m
  BY <1>1, <1>5 DEF FirstMessage, Parsed
<1>7. WithoutFirst(b) = <<>>
  <2>1. WithoutFirst(b) \in Bytes /\ Len(WithoutFirst(b)) = Len(b) - FrameSize(b)
    BY <1>1, <1>4, FrameType
  <2>2. Len(WithoutFirst(b)) = 0  BY <1>1, <1>2, <1>4, <2>1
  <2> QED  BY <2>1, <2>2, EmptySeq DEF Bytes
<1>8. <<>> \o t = t  BY ConcatEmptySeq DEF Bytes
<1>9. /\ HasFrame(b \o t) /\ FirstMessage(b \o t) = m /\ WithoutFirst(b \o t) = t
  BY <1>1, <1>4, <1>6, <1>7, <1>8, FramePrefix
<1> QED  BY <1>9 DEF b, HasFrame

-----------------------------------------------------------------------------
(* The types.                                                               *)

LEMMA UnsentType ==
    ASSUME FramingTypeOK
    PROVE  /\ Unsent \in Bytes /\ Len(Unsent) = Len(out_buffer) - bytes_written
           /\ Len(out_buffer) \in Nat /\ bytes_written \in 0 .. Len(out_buffer)
<1>1. out_buffer \in Bytes /\ Len(out_buffer) \in Nat /\ bytes_written \in 0 .. Len(out_buffer)
  BY LenProperties DEF FramingTypeOK, Bytes
<1>2. \A i \in bytes_written + 1 .. Len(out_buffer) : out_buffer[i] \in Byte
  BY <1>1, ElementOfSeq DEF Bytes
<1>3. /\ SubSeq(out_buffer, bytes_written + 1, Len(out_buffer)) \in Bytes
      /\ Len(SubSeq(out_buffer, bytes_written + 1, Len(out_buffer)))
           = IF bytes_written + 1 <= Len(out_buffer)
             THEN Len(out_buffer) - (bytes_written + 1) + 1 ELSE 0
  <2>1. bytes_written + 1 \in Int /\ Len(out_buffer) \in Int  BY <1>1
  <2> QED  BY <1>2, <2>1, SubSeqProperties DEF Bytes
<1> QED  BY <1>1, <1>3 DEF Unsent

(* Cutting a byte sequence in two.                                          *)
LEMMA Cut ==
    ASSUME NEW b \in Bytes, NEW k \in 0 .. Len(b)
    PROVE  /\ SubSeq(b, 1, k) \in Bytes /\ Len(SubSeq(b, 1, k)) = k
           /\ SubSeq(b, k + 1, Len(b)) \in Bytes
           /\ SubSeq(b, 1, k) \o SubSeq(b, k + 1, Len(b)) = b
<1>1. Len(b) \in Nat  BY LenProperties DEF Bytes
<1>2. \A i \in 1 .. Len(b) : b[i] \in Byte  BY ElementOfSeq DEF Bytes
<1>3. \A i \in 1 .. k : b[i] \in Byte  BY <1>1, <1>2
<1>4. /\ SubSeq(b, 1, k) \in Bytes
      /\ Len(SubSeq(b, 1, k)) = IF 1 <= k THEN k - 1 + 1 ELSE 0
  BY <1>1, <1>3, SubSeqProperties DEF Bytes
<1>5. SubSeq(b, k + 1, Len(b)) \in Bytes
  <2>1. k + 1 \in Int /\ Len(b) \in Int  BY <1>1
  <2>2. \A i \in k + 1 .. Len(b) : b[i] \in Byte  BY <1>1, <1>2
  <2> QED  BY <2>1, <2>2, SubSeqProperties DEF Bytes
<1>6. SubSeq(b, 1, k) \o SubSeq(b, k + 1, Len(b)) = SubSeq(b, 1, Len(b))
  <2>1. 1 \in 1 .. Len(b) + 1 /\ k \in 1 - 1 .. Len(b) /\ Len(b) \in k .. Len(b)
    BY <1>1
  <2> QED  BY <2>1, ConcatAdjacentSubSeq DEF Bytes
<1>7. SubSeq(b, 1, Len(b)) = b  BY SubSeqFull DEF Bytes
<1>8. Len(SubSeq(b, 1, k)) = k  BY <1>1, <1>4
<1> QED  BY <1>4, <1>5, <1>6, <1>7, <1>8

LEMMA FramingTypeInit == Init => FramingTypeOK
<1> SUFFICES ASSUME Init PROVE FramingTypeOK  OBVIOUS
<1>1. /\ <<>> \in Seq(Byte) /\ Len(<<>>) = 0
      /\ <<>> \in Seq(Messages) /\ <<>> \in Seq([type : Byte, payload : Seq(Byte)])
  BY EmptySeq
<1>2. 0 \in 0 .. 0  OBVIOUS
<1> QED  BY <1>1, <1>2 DEF Init, FramingTypeOK

LEMMA FramingTypeStep == FramingTypeOK /\ [Next]_vars => FramingTypeOK'
<1> SUFFICES ASSUME FramingTypeOK, [Next]_vars PROVE FramingTypeOK'  OBVIOUS
<1> USE DEF FramingTypeOK
<1>1. ASSUME NEW m \in Messages, protocol_queue_message(m) PROVE FramingTypeOK'
  <2>1. Encode(m) \in Seq(Byte)  BY EncodeShape DEF Bytes
  <2>2. /\ out_buffer' \in Seq(Byte)
        /\ Len(out_buffer') = Len(out_buffer) + Len(Encode(m))
    BY <1>1, <2>1, ConcatProperties DEF protocol_queue_message
  <2>3. bytes_written' \in 0 .. Len(out_buffer')
    BY <1>1, <2>1, <2>2, LenProperties DEF protocol_queue_message
  <2>4. queued' \in Seq(Messages)
    BY <1>1, AppendProperties DEF protocol_queue_message
  <2> QED  BY <1>1, <2>2, <2>3, <2>4 DEF protocol_queue_message, receiverVars
<1>2. CASE ForeignHeader
  <2>1. PICK h \in Headers : out_buffer' = out_buffer \o h  BY <1>2 DEF ForeignHeader
  <2>2. h \in Seq(Byte)  BY FramingAssumption
  <2>3. out_buffer' \in Seq(Byte) /\ Len(out_buffer') = Len(out_buffer) + Len(h)
    BY <2>1, <2>2, ConcatProperties
  <2>4. bytes_written' \in 0 .. Len(out_buffer')
    BY <1>2, <2>2, <2>3, LenProperties DEF ForeignHeader
  <2> QED  BY <1>2, <2>3, <2>4 DEF ForeignHeader, receiverVars
<1>3. CASE connection_flush_out_buffer
  <2>1. PICK k \in 1 .. Len(Unsent) :
          /\ link' = link \o SubSeq(Unsent, 1, k)
          /\ IF k = Len(Unsent) THEN Flushed
             ELSE bytes_written' = bytes_written + k /\ UNCHANGED out_buffer
    BY <1>3 DEF connection_flush_out_buffer
  <2>2. /\ Unsent \in Bytes /\ Len(Unsent) = Len(out_buffer) - bytes_written
        /\ Len(out_buffer) \in Nat /\ bytes_written \in 0 .. Len(out_buffer)
    BY UnsentType
  <2>3. SubSeq(Unsent, 1, k) \in Seq(Byte)
    BY <2>2, Cut DEF Bytes
  <2>4. link' \in Seq(Byte)  BY <2>1, <2>3, ConcatProperties
  <2>5. out_buffer' \in Seq(Byte) /\ bytes_written' \in 0 .. Len(out_buffer')
    <3>1. CASE k = Len(Unsent)
      <4>1. out_buffer' = <<>> /\ bytes_written' = 0  BY <2>1, <3>1 DEF Flushed
      <4> QED  BY <4>1, EmptySeq
    <3>2. CASE k # Len(Unsent)
      BY <2>1, <2>2, <3>2
    <3> QED  BY <3>1, <3>2
  <2> QED  BY <1>3, <2>4, <2>5 DEF connection_flush_out_buffer, receiverVars
<1>4. CASE connection_cleanup
  BY <1>4 DEF connection_cleanup, receiverVars
<1>5. CASE connection_read_into_in_buffer
  <2>1. PICK k \in 0 .. Len(link) :
          /\ in_buffer' = in_buffer \o SubSeq(link, 1, k)
          /\ link' = SubSeq(link, k + 1, Len(link))
          /\ state' = IF ended /\ k = Len(link) THEN "CLOSED" ELSE state
    BY <1>5 DEF connection_read_into_in_buffer
  <2>2. link \in Bytes  BY DEF Bytes
  <2>3. SubSeq(link, 1, k) \in Seq(Byte) /\ link' \in Seq(Byte)
    BY <2>1, <2>2, Cut DEF Bytes
  <2>4. in_buffer' \in Seq(Byte)  BY <2>1, <2>3, ConcatProperties
  <2>5. state' \in {"ACTIVE", "CLOSED", "CONNECTION_ERROR"}  BY <2>1
  <2> QED  BY <1>5, <2>3, <2>4, <2>5 DEF connection_read_into_in_buffer, senderVars
<1>6. CASE ParseMessage
  <2>1. in_buffer \in Bytes /\ HasFrame(in_buffer)  BY <1>6 DEF ParseMessage, Bytes
  <2>2. FirstMessage(in_buffer) \in Parsed /\ WithoutFirst(in_buffer) \in Bytes
    BY <2>1, FrameType
  <2>3. in_buffer' \in Seq(Byte)  BY <1>6, <2>2 DEF ParseMessage, Bytes
  <2>4. parsed' \in Seq([type : Byte, payload : Seq(Byte)])
    BY <1>6, <2>2, AppendProperties DEF ParseMessage, Parsed, Bytes
  <2> QED  BY <1>6, <2>3, <2>4 DEF ParseMessage, Parsing, senderVars
<1>7. CASE ParseOversized
  BY <1>7 DEF ParseOversized, Parsing, senderVars
<1>8. CASE ParseIncomplete
  BY <1>8 DEF ParseIncomplete, Parsing, senderVars
<1>9. CASE UNCHANGED vars
  BY <1>9 DEF vars, senderVars, receiverVars
<1> QED
  BY <1>1, <1>2, <1>3, <1>4, <1>5, <1>6, <1>7, <1>8, <1>9
     DEF Next, ReceiverNext, protocol_parse_message

(* Every variable keeps its type; in particular bytes_written never passes  *)
(* the end of out_buffer (connection_flush_out_buffer).                     *)
THEOREM FramingTypeCorrect == Spec => []FramingTypeOK
  BY FramingTypeInit, FramingTypeStep, PTL DEF Spec

-----------------------------------------------------------------------------
(* The bytes on their way.                                                  *)

(* s[i] is what follows the first i messages of the stream: the frames of   *)
(* the others, and what a foreign program sent at the end.  What is behind  *)
(* the messages already parsed lies in the three buffers.                   *)
Stream(s) ==
    /\ s \in [0 .. Len(queued) -> Bytes]
    /\ \A i \in 0 .. Len(queued) - 1 : s[i] = Encode(queued[i + 1]) \o s[i + 1]
    /\ s[Len(queued)] = foreign
    /\ s[Len(parsed)] = in_buffer \o (link \o Unsent)

ParsedAreQueued ==
    /\ Len(parsed) <= Len(queued)
    /\ \A i \in 1 .. Len(parsed) : parsed[i] = queued[i]

Waits  == pc = "wait" => ~HasFrame(in_buffer) /\ ~Oversized(in_buffer)
Broken ==
    state = "CONNECTION_ERROR" =>
      pc = "gone" /\ Oversized(foreign) /\ Len(parsed) = Len(queued)
Refused == pc = "gone" /\ Oversized(in_buffer) => state = "CONNECTION_ERROR"

FramingInv ==
    /\ FramingTypeOK
    /\ \E s : Stream(s)
    /\ ParsedAreQueued
    /\ Waits /\ Broken /\ Refused

(* Lengths, and the buffers joined.                                         *)
LEMMA Lengths ==
    ASSUME FramingTypeOK
    PROVE  /\ Len(queued) \in Nat /\ Len(parsed) \in Nat
           /\ in_buffer \in Bytes /\ link \in Bytes /\ Unsent \in Bytes
           /\ link \o Unsent \in Bytes
           /\ \A i \in 1 .. Len(queued) : queued[i] \in Messages
<1>1. in_buffer \in Bytes /\ link \in Bytes /\ Unsent \in Bytes
  BY UnsentType DEF FramingTypeOK, Bytes
<1>2. link \o Unsent \in Bytes  BY <1>1, ConcatProperties DEF Bytes
<1>3. Len(queued) \in Nat /\ Len(parsed) \in Nat
  BY LenProperties DEF FramingTypeOK
<1>4. \A i \in 1 .. Len(queued) : queued[i] \in Messages
  BY ElementOfSeq DEF FramingTypeOK
<1> QED  BY <1>1, <1>2, <1>3, <1>4

LEMMA StreamNext ==
    ASSUME FramingTypeOK, NEW s, Stream(s), NEW i \in 0 .. Len(queued) - 1
    PROVE  /\ s[i] = Encode(queued[i + 1]) \o s[i + 1]
           /\ s[i + 1] \in Bytes /\ queued[i + 1] \in Messages
<1>1. Len(queued) \in Nat  BY Lengths
<1>2. i + 1 \in 0 .. Len(queued) /\ i + 1 \in 1 .. Len(queued)  BY <1>1
<1>3. s[i + 1] \in Bytes  BY <1>2 DEF Stream
<1>4. queued[i + 1] \in Messages  BY <1>2, Lengths
<1>5. s[i] = Encode(queued[i + 1]) \o s[i + 1]  BY DEF Stream
<1> QED  BY <1>3, <1>4, <1>5

(* A frame at the front of in_buffer is the first message not yet parsed.   *)
LEMMA NextFrame ==
    ASSUME FramingTypeOK, ParsedAreQueued, NEW s, Stream(s), HasFrame(in_buffer)
    PROVE  /\ Len(parsed) < Len(queued)
           /\ FirstMessage(in_buffer) = queued[Len(parsed) + 1]
           /\ s[Len(parsed) + 1] = WithoutFirst(in_buffer) \o (link \o Unsent)
<1> DEFINE p == Len(parsed)
           t == link \o Unsent
<1>1. /\ Len(queued) \in Nat /\ p \in Nat /\ p <= Len(queued)
      /\ in_buffer \in Bytes /\ t \in Bytes
  BY Lengths DEF ParsedAreQueued
<1>2. s[p] = in_buffer \o t  BY DEF Stream
<1> HIDE DEF p, t
<1>3. /\ HasFrame(s[p])
      /\ FirstMessage(s[p]) = FirstMessage(in_buffer)
      /\ WithoutFirst(s[p]) = WithoutFirst(in_buffer) \o t
  BY <1>1, <1>2, FramePrefix
<1>4. p < Len(queued)
  <2> SUFFICES ASSUME p = Len(queued) PROVE FALSE
    BY <1>1
  <2>1. s[p] = foreign  BY DEF Stream
  <2>2. CASE foreign \in Headers
    BY <1>3, <2>1, <2>2, FramingAssumption
  <2>3. CASE foreign = <<>>
    <3>1. Len(<<>>) = 0  OBVIOUS
    <3> QED  BY <1>3, <2>1, <2>3, <3>1 DEF HasFrame, HasHeader, FRAME_HEADER_SIZE
  <2> QED  BY <2>2, <2>3 DEF FramingTypeOK
<1>5. p \in 0 .. Len(queued) - 1  BY <1>1, <1>4
<1>6. /\ s[p] = Encode(queued[p + 1]) \o s[p + 1] /\ s[p + 1] \in Bytes
      /\ queued[p + 1] \in Messages
  BY <1>5, StreamNext
<1>7. /\ FirstMessage(s[p]) = queued[p + 1]
      /\ WithoutFirst(s[p]) = s[p + 1]
  BY <1>6, RoundTrip
<1> QED  BY <1>3, <1>4, <1>7 DEF p, t

(* An over-long header is not part of a message: a foreign program sent it. *)
LEMMA NextOversized ==
    ASSUME FramingTypeOK, ParsedAreQueued, NEW s, Stream(s), Oversized(in_buffer)
    PROVE  Oversized(foreign) /\ Len(parsed) = Len(queued)
<1> DEFINE p == Len(parsed)
           t == link \o Unsent
<1>1. /\ Len(queued) \in Nat /\ p \in Nat /\ p <= Len(queued)
      /\ in_buffer \in Bytes /\ t \in Bytes
  BY Lengths DEF ParsedAreQueued
<1>2. s[p] = in_buffer \o t  BY DEF Stream
<1> HIDE DEF p, t
<1>3. Oversized(s[p])  BY <1>1, <1>2, FramePrefix
<1>4. p = Len(queued)
  <2> SUFFICES ASSUME p < Len(queued) PROVE FALSE
    BY <1>1
  <2>1. p \in 0 .. Len(queued) - 1  BY <1>1
  <2>2. /\ s[p] = Encode(queued[p + 1]) \o s[p + 1] /\ s[p + 1] \in Bytes
        /\ queued[p + 1] \in Messages
    BY <2>1, StreamNext
  <2> QED  BY <1>3, <2>2, RoundTrip
<1>5. Oversized(foreign)
  <2>1. s[p] = foreign  BY <1>4 DEF Stream
  <2> QED  BY <1>3, <2>1
<1> QED  BY <1>4, <1>5 DEF p

(* What is queued comes behind what is not yet sent.                        *)
LEMMA UnsentGrows ==
    ASSUME FramingTypeOK, NEW x \in Bytes,
           out_buffer' = out_buffer \o x, bytes_written' = bytes_written
    PROVE  Unsent' = Unsent \o x
<1> DEFINE b == out_buffer \o x
           k == bytes_written
           n == Len(out_buffer)
<1>1. out_buffer \in Bytes /\ n \in Nat /\ k \in 0 .. n /\ Len(x) \in Nat
  BY UnsentType, LenProperties DEF FramingTypeOK, Bytes
<1>2. /\ b \in Bytes /\ Len(b) = n + Len(x)
      /\ \A i \in 1 .. n + Len(x) : b[i] = IF i <= n THEN out_buffer[i] ELSE x[i - n]
  BY <1>1, ConcatProperties DEF Bytes
<1> DEFINE u == SubSeq(out_buffer, k + 1, n)
           v == SubSeq(b, k + 1, Len(b))
           w == u \o x
<1> HIDE DEF b
<1>3. /\ u \in Bytes /\ Len(u) = IF k + 1 <= n THEN n - (k + 1) + 1 ELSE 0
      /\ \A i \in 1 .. n - (k + 1) + 1 : u[i] = out_buffer[k + 1 + i - 1]
  <2>1. k + 1 \in Int /\ n \in Int  BY <1>1
  <2>2. \A i \in k + 1 .. n : out_buffer[i] \in Byte
    BY <1>1, ElementOfSeq DEF Bytes
  <2> QED  BY <2>1, <2>2, SubSeqProperties DEF Bytes
<1>4. /\ v \in Bytes /\ Len(v) = IF k + 1 <= Len(b) THEN Len(b) - (k + 1) + 1 ELSE 0
      /\ \A i \in 1 .. Len(b) - (k + 1) + 1 : v[i] = b[k + 1 + i - 1]
  <2>1. k + 1 \in Int /\ Len(b) \in Int  BY <1>1, <1>2
  <2>2. \A i \in k + 1 .. Len(b) : b[i] \in Byte
    BY <1>1, <1>2, ElementOfSeq DEF Bytes
  <2> QED  BY <2>1, <2>2, SubSeqProperties DEF Bytes
<1> HIDE DEF u, v
<1>5. /\ w \in Bytes /\ Len(w) = Len(u) + Len(x)
      /\ \A i \in 1 .. Len(u) + Len(x) : w[i] = IF i <= Len(u) THEN u[i] ELSE x[i - Len(u)]
  BY <1>3, ConcatProperties DEF Bytes
<1> HIDE DEF w
<1>6. Len(u) = n - k /\ Len(v) = n - k + Len(x) /\ Len(w) = n - k + Len(x)
  <2>1. Len(u) = n - k  BY <1>1, <1>3
  <2>2. Len(v) = n - k + Len(x)  BY <1>1, <1>2, <1>4
  <2>3. Len(w) = n - k + Len(x)  BY <1>5, <2>1
  <2> QED  BY <2>1, <2>2, <2>3
<1>7. ASSUME NEW i \in 1 .. Len(v)  PROVE v[i] = w[i]
  <2>1. v[i] = b[k + i]
    <3>1. i \in 1 .. Len(b) - (k + 1) + 1  BY <1>1, <1>2, <1>6
    <3>2. k + 1 + i - 1 = k + i  BY <1>1, <3>1
    <3> QED  BY <1>4, <3>1, <3>2
  <2>2. CASE i <= n - k
    <3>1. b[k + i] = out_buffer[k + i]  BY <1>1, <1>2, <1>6, <2>2
    <3>2. w[i] = u[i]  BY <1>1, <1>5, <1>6, <2>2
    <3>3. i \in 1 .. n - (k + 1) + 1 /\ k + 1 + i - 1 = k + i  BY <1>1, <1>6, <2>2
    <3>4. u[i] = out_buffer[k + i]  BY <1>3, <3>3
    <3> QED  BY <2>1, <3>1, <3>2, <3>4
  <2>3. CASE ~(i <= n - k)
    <3>1. b[k + i] = x[k + i - n]  BY <1>1, <1>2, <1>6, <2>3
    <3>2. w[i] = x[i - (n - k)]  BY <1>1, <1>5, <1>6, <2>3
    <3>3. k + i - n = i - (n - k)  BY <1>1, <1>6
    <3> QED  BY <2>1, <3>1, <3>2, <3>3
  <2> QED  BY <2>2, <2>3
<1>8. v = w  BY <1>4, <1>5, <1>6, <1>7, SeqEqual DEF Bytes
<1>9. Unsent = u  BY DEF Unsent, u
<1>10. Unsent' = v  BY DEF Unsent, v, b
<1> QED  BY <1>8, <1>9, <1>10 DEF w

(* A flush moves bytes from the sender to the kernels.                      *)
LEMMA FlushMoves ==
    ASSUME FramingTypeOK, connection_flush_out_buffer
    PROVE  link' \o Unsent' = link \o Unsent
<1>1. PICK k \in 1 .. Len(Unsent) :
        /\ link' = link \o SubSeq(Unsent, 1, k)
        /\ IF k = Len(Unsent) THEN Flushed
           ELSE bytes_written' = bytes_written + k /\ UNCHANGED out_buffer
  BY DEF connection_flush_out_buffer
<1> DEFINE n == Len(out_buffer)
           w == bytes_written
<1>2. /\ Unsent \in Bytes /\ Len(Unsent) = n - w /\ n \in Nat /\ w \in 0 .. n
      /\ link \in Bytes /\ out_buffer \in Bytes
  BY UnsentType DEF FramingTypeOK, Bytes
<1>3. /\ SubSeq(Unsent, 1, k) \in Bytes /\ SubSeq(Unsent, k + 1, Len(Unsent)) \in Bytes
      /\ SubSeq(Unsent, 1, k) \o SubSeq(Unsent, k + 1, Len(Unsent)) = Unsent
  <2>1. k \in 0 .. Len(Unsent)  BY <1>2
  <2> QED  BY <1>2, <2>1, Cut
<1>4. Unsent' = SubSeq(Unsent, k + 1, Len(Unsent))
  <2>1. CASE k = Len(Unsent)
    <3>1. out_buffer' = <<>> /\ bytes_written' = 0 /\ Len(<<>>) = 0
      BY <1>1, <2>1 DEF Flushed
    <3>2. Unsent' = SubSeq(<<>>, 0 + 1, 0)  BY <3>1 DEF Unsent
    <3>3. SubSeq(<<>>, 0 + 1, 0) = <<>>  BY SubSeqEmpty
    <3>4. SubSeq(Unsent, k + 1, Len(Unsent)) = <<>>
      BY <1>2, <2>1, SubSeqEmpty
    <3> QED  BY <3>2, <3>3, <3>4
  <2>2. CASE k # Len(Unsent)
    <3>1. out_buffer' = out_buffer /\ bytes_written' = w + k
      BY <1>1, <2>2
    <3>2. Unsent' = SubSeq(out_buffer, w + k + 1, n)
      BY <3>1 DEF Unsent
    <3>3. /\ w + 1 \in 1 .. n /\ n \in 1 .. n
          /\ k + 1 \in 1 .. n - (w + 1) + 1 /\ n - w \in 1 .. n - (w + 1) + 1
      BY <1>2, <2>2
    <3>4. SubSeq(SubSeq(out_buffer, w + 1, n), k + 1, n - w)
            = SubSeq(out_buffer, w + 1 + (k + 1) - 1, w + 1 + (n - w) - 1)
      BY <1>2, <3>3, SubSeqOfSubSeq DEF Bytes
    <3>5. w + 1 + (k + 1) - 1 = w + k + 1 /\ w + 1 + (n - w) - 1 = n
      BY <1>2
    <3> QED  BY <1>2, <3>2, <3>4, <3>5 DEF Unsent
  <2> QED  BY <2>1, <2>2
<1>5. ASSUME NEW a \in Bytes, NEW b \in Bytes, a \o b = Unsent
      PROVE  (link \o a) \o b = link \o Unsent
  BY <1>2, <1>5, ConcatBytes
<1>6. (link \o SubSeq(Unsent, 1, k)) \o SubSeq(Unsent, k + 1, Len(Unsent))
        = link \o Unsent
  BY <1>3, <1>5
<1> QED  BY <1>1, <1>4, <1>6

(* A read moves bytes from the kernels to the receiver.                     *)
LEMMA ReadMoves ==
    ASSUME FramingTypeOK, connection_read_into_in_buffer
    PROVE  in_buffer' \o (link' \o Unsent') = in_buffer \o (link \o Unsent)
<1>1. PICK k \in 0 .. Len(link) :
        /\ in_buffer' = in_buffer \o SubSeq(link, 1, k)
        /\ link' = SubSeq(link, k + 1, Len(link))
  BY DEF connection_read_into_in_buffer
<1>2. in_buffer \in Bytes /\ link \in Bytes /\ Unsent \in Bytes  BY Lengths
<1>3. Unsent' = Unsent
  BY DEF connection_read_into_in_buffer, senderVars, Unsent
<1> DEFINE a == SubSeq(link, 1, k)
           b == SubSeq(link, k + 1, Len(link))
<1>4. a \in Bytes /\ b \in Bytes /\ a \o b = link  BY <1>2, Cut
<1> HIDE DEF a, b
<1>5. b \o Unsent \in Bytes  BY <1>2, <1>4, ConcatProperties DEF Bytes
<1>6. (in_buffer \o a) \o (b \o Unsent) = in_buffer \o (a \o (b \o Unsent))
  BY <1>2, <1>4, <1>5, ConcatBytes, SMTT(30)
<1>7. a \o (b \o Unsent) = link \o Unsent
  BY <1>2, <1>4, ConcatBytes
<1>8. in_buffer' = in_buffer \o a /\ link' = b  BY <1>1 DEF a, b
<1> QED  BY <1>3, <1>6, <1>7, <1>8

-----------------------------------------------------------------------------
(* The invariant.                                                           *)

LEMMA FramingInvInit == Init => FramingInv
<1> SUFFICES ASSUME Init PROVE FramingInv  OBVIOUS
<1>1. FramingTypeOK  BY FramingTypeInit
<1>2. queued = <<>> /\ parsed = <<>> /\ Len(<<>>) = 0  BY DEF Init
<1>3. \E s : Stream(s)
  <2> DEFINE s == [i \in 0 .. 0 |-> <<>>]
  <2>1. <<>> \in Bytes  BY EmptySeq DEF Bytes
  <2>2. s \in [0 .. 0 -> Bytes] /\ s[0] = <<>>  BY <2>1
  <2>3. Unsent = <<>>
    <3>1. Unsent = SubSeq(<<>>, 0 + 1, 0)  BY <1>2 DEF Init, Unsent
    <3> QED  BY <3>1, SubSeqEmpty
  <2>4. in_buffer \o (link \o Unsent) = <<>>
    BY <2>1, <2>3, ConcatBytes DEF Init
  <2> HIDE DEF s
  <2>5. Stream(s)  BY <1>2, <2>2, <2>4 DEF Stream, Init
  <2> QED  BY <2>5
<1>4. ParsedAreQueued /\ Broken /\ Refused
  BY <1>2 DEF ParsedAreQueued, Broken, Refused, Init
<1>5. Waits
  BY <1>2 DEF Waits, Init, HasFrame, Oversized, HasHeader, FRAME_HEADER_SIZE
<1> QED  BY <1>1, <1>3, <1>4, <1>5 DEF FramingInv

(* Every remainder of the stream goes on with x, and then another ends it.  *)
LEMMA Extend ==
    ASSUME NEW n \in Nat, NEW s \in [0 .. n -> Bytes], NEW x \in Bytes
    PROVE  \E r : /\ r \in [0 .. n + 1 -> Bytes]
                  /\ \A i \in 0 .. n : r[i] = s[i] \o x
                  /\ r[n + 1] = <<>>
<1> DEFINE r == [i \in 0 .. n + 1 |-> IF i <= n THEN s[i] \o x ELSE <<>>]
<1>1. <<>> \in Bytes  BY EmptySeq DEF Bytes
<1>2. \A i \in 0 .. n : s[i] \o x \in Bytes  BY ConcatBytes
<1>3. r \in [0 .. n + 1 -> Bytes]  BY <1>1, <1>2
<1>4. r[n + 1] = <<>> /\ \A i \in 0 .. n : r[i] = s[i] \o x  OBVIOUS
<1> QED  BY <1>3, <1>4

(* The sender's steps.                                                      *)
LEMMA QueueKeepsStream ==
    ASSUME FramingInv, NEW m \in Messages, protocol_queue_message(m)
    PROVE  (\E s : Stream(s))'
<1> DEFINE n == Len(queued)
           p == Len(parsed)
           x == Encode(m)
<1>1. FramingTypeOK /\ p <= n  BY DEF FramingInv, ParsedAreQueued
<1>2. PICK s : Stream(s)  BY DEF FramingInv
<1>3. /\ n \in Nat /\ p \in Nat /\ in_buffer \in Bytes /\ link \in Bytes
      /\ Unsent \in Bytes /\ link \o Unsent \in Bytes /\ x \in Bytes
      /\ s \in [0 .. n -> Bytes] /\ <<>> \in Bytes
  BY <1>1, <1>2, Lengths, EncodeShape, EmptySeq DEF Stream, Bytes
<1>4. /\ queued' = Append(queued, m) /\ Len(queued') = n + 1
      /\ \A i \in 1 .. n : queued'[i] = queued[i]
      /\ queued'[n + 1] = m
  BY <1>1, AppendProperties DEF protocol_queue_message, FramingTypeOK
<1>5. /\ foreign = <<>> /\ foreign' = foreign /\ parsed' = parsed
      /\ in_buffer' = in_buffer /\ link' = link
  BY DEF protocol_queue_message, receiverVars
<1>6. Unsent' = Unsent \o x
  BY <1>1, <1>3, UnsentGrows DEF protocol_queue_message
<1>7. PICK r : /\ r \in [0 .. n + 1 -> Bytes]
               /\ \A i \in 0 .. n : r[i] = s[i] \o x
               /\ r[n + 1] = <<>>
  <2> HIDE DEF x, n
  <2> QED  BY <1>3, Extend
<1> HIDE DEF x
<1>a. x \in Bytes /\ <<>> \o x = x /\ x \o <<>> = x  BY <1>3, ConcatBytes
<1>b. p \in 0 .. n /\ n \in 0 .. n  BY <1>1, <1>3
<1>8. ASSUME NEW i \in 0 .. n
      PROVE  r[i] = Encode(queued'[i + 1]) \o r[i + 1]
  <2>1. CASE i < n
    <3>1. i \in 0 .. n - 1 /\ i + 1 \in 0 .. n /\ i + 1 \in 1 .. n  BY <1>3, <2>1
    <3>2. /\ s[i] = Encode(queued[i + 1]) \o s[i + 1]
          /\ s[i + 1] \in Bytes /\ queued[i + 1] \in Messages
      BY <1>1, <1>2, <3>1, StreamNext
    <3>3. Encode(queued[i + 1]) \in Bytes  BY <3>2, EncodeShape
    <3>4. r[i] = (Encode(queued[i + 1]) \o s[i + 1]) \o x  BY <1>7, <3>2
    <3>5. r[i + 1] = s[i + 1] \o x  BY <1>7, <3>1
    <3>6. (Encode(queued[i + 1]) \o s[i + 1]) \o x
            = Encode(queued[i + 1]) \o (s[i + 1] \o x)
      BY <1>a, <3>2, <3>3, ConcatBytes
    <3>7. queued'[i + 1] = queued[i + 1]  BY <1>4, <3>1
    <3> QED  BY <3>4, <3>5, <3>6, <3>7
  <2>2. CASE i = n
    <3>1. s[n] = <<>>  BY <1>2, <1>5 DEF Stream
    <3>2. r[n] = x  BY <1>7, <1>a, <1>b, <3>1
    <3>3. Encode(queued'[n + 1]) \o r[n + 1] = x
      BY <1>4, <1>7, <1>a DEF x
    <3>4. r[i] = x  BY <2>2, <3>2
    <3>5. Encode(queued'[i + 1]) \o r[i + 1] = x
      <4> HIDE DEF n
      <4> QED  BY <2>2, <3>3
    <3> QED  BY <3>4, <3>5
  <2>3. i < n \/ i = n  BY <1>3
  <2> QED  BY <2>1, <2>2, <2>3
<1>9. r[p] = in_buffer \o (link \o (Unsent \o x))
  <2>1. r[p] = s[p] \o x  BY <1>7, <1>b
  <2>4. s[p] = in_buffer \o (link \o Unsent)  BY <1>2 DEF Stream
  <2>2. (in_buffer \o (link \o Unsent)) \o x = in_buffer \o ((link \o Unsent) \o x)
    BY <1>3, ConcatBytes
  <2>3. (link \o Unsent) \o x = link \o (Unsent \o x)
    BY <1>3, ConcatBytes
  <2> QED  BY <2>1, <2>2, <2>3, <2>4
<1>10. Stream(r)'
  <2>1. (r \in [0 .. Len(queued) -> Bytes])'  BY <1>4, <1>7
  <2>2. (\A i \in 0 .. Len(queued) - 1 : r[i] = Encode(queued[i + 1]) \o r[i + 1])'
    <3>1. Len(queued') - 1 = n  BY <1>3, <1>4
    <3> QED  BY <1>8, <3>1
  <2>3. r[Len(queued')] = foreign'  BY <1>4, <1>5, <1>7
  <2>4. (r[Len(parsed)] = in_buffer \o (link \o Unsent))'  BY <1>5, <1>6, <1>9
  <2> QED  BY <2>1, <2>2, <2>3, <2>4 DEF Stream
<1> QED  BY <1>10

LEMMA HeaderKeepsStream ==
    ASSUME FramingInv, ForeignHeader
    PROVE  (\E s : Stream(s))'
<1> DEFINE n == Len(queued)
           p == Len(parsed)
<1>1. FramingTypeOK /\ p <= n  BY DEF FramingInv, ParsedAreQueued
<1>2. PICK s : Stream(s)  BY DEF FramingInv
<1>3. PICK x \in Headers : out_buffer' = out_buffer \o x /\ foreign' = x
  BY DEF ForeignHeader
<1>4. /\ n \in Nat /\ p \in 0 .. n /\ n \in 0 .. n
      /\ in_buffer \in Bytes /\ link \in Bytes /\ Unsent \in Bytes
      /\ link \o Unsent \in Bytes /\ s \in [0 .. n -> Bytes]
  BY <1>1, <1>2, Lengths DEF Stream
<1>5. x \in Bytes /\ <<>> \o x = x  BY FramingAssumption, ConcatBytes DEF Bytes
<1>6. /\ foreign = <<>> /\ queued' = queued /\ parsed' = parsed
      /\ in_buffer' = in_buffer /\ link' = link
  BY DEF ForeignHeader, receiverVars
<1>7. Unsent' = Unsent \o x
  BY <1>1, <1>3, <1>5, UnsentGrows DEF ForeignHeader
<1>8. PICK r : r \in [0 .. n -> Bytes] /\ \A i \in 0 .. n : r[i] = s[i] \o x
  <2> DEFINE r == [i \in 0 .. n |-> s[i] \o x]
  <2>1. \A i \in 0 .. n : s[i] \o x \in Bytes  BY <1>4, <1>5, ConcatBytes
  <2>2. r \in [0 .. n -> Bytes] /\ \A i \in 0 .. n : r[i] = s[i] \o x  BY <2>1
  <2> QED  BY <2>2
<1>9. ASSUME NEW i \in 0 .. n - 1
      PROVE  r[i] = Encode(queued[i + 1]) \o r[i + 1]
  <2>1. i \in 0 .. n /\ i + 1 \in 0 .. n  BY <1>4
  <2>2. /\ s[i] = Encode(queued[i + 1]) \o s[i + 1]
        /\ s[i + 1] \in Bytes /\ queued[i + 1] \in Messages
    BY <1>1, <1>2, StreamNext
  <2>3. Encode(queued[i + 1]) \in Bytes  BY <2>2, EncodeShape
  <2>4. (Encode(queued[i + 1]) \o s[i + 1]) \o x
          = Encode(queued[i + 1]) \o (s[i + 1] \o x)
    BY <1>5, <2>2, <2>3, ConcatBytes
  <2> QED  BY <1>8, <2>1, <2>2, <2>4
<1>10. r[p] = in_buffer \o (link \o (Unsent \o x))
  <2>1. r[p] = s[p] \o x  BY <1>4, <1>8
  <2>2. s[p] = in_buffer \o (link \o Unsent)  BY <1>2 DEF Stream
  <2>3. (in_buffer \o (link \o Unsent)) \o x = in_buffer \o ((link \o Unsent) \o x)
    BY <1>4, <1>5, ConcatBytes
  <2>4. (link \o Unsent) \o x = link \o (Unsent \o x)
    BY <1>4, <1>5, ConcatBytes
  <2> QED  BY <2>1, <2>2, <2>3, <2>4
<1>11. r[n] = foreign'
  <2>1. s[n] = <<>>  BY <1>2, <1>6 DEF Stream
  <2> QED  BY <1>3, <1>4, <1>5, <1>8, <2>1
<1>12. Stream(r)'
  BY <1>6, <1>7, <1>8, <1>9, <1>10, <1>11 DEF Stream
<1> QED  BY <1>12

(* The steps that leave the joined buffers alone.                           *)
LEMMA StreamUnchanged ==
    ASSUME FramingInv, UNCHANGED <<queued, parsed, foreign>>,
           in_buffer' \o (link' \o Unsent') = in_buffer \o (link \o Unsent)
    PROVE  (\E s : Stream(s))'
<1>1. PICK s : Stream(s)  BY DEF FramingInv
<1>2. Stream(s)'  BY <1>1 DEF Stream
<1> QED  BY <1>2

(* One message is parsed.                                                   *)
LEMMA ParseKeepsStream ==
    ASSUME FramingInv, ParseMessage
    PROVE  /\ (\E s : Stream(s))'
           /\ Len(parsed) < Len(queued)
           /\ parsed' = Append(parsed, queued[Len(parsed) + 1])
           /\ ParsedAreQueued'
<1> DEFINE p == Len(parsed)
           n == Len(queued)
<1>1. FramingTypeOK /\ ParsedAreQueued  BY DEF FramingInv
<1>2. PICK s : Stream(s)  BY DEF FramingInv
<1>3. /\ p < n
      /\ FirstMessage(in_buffer) = queued[p + 1]
      /\ s[p + 1] = WithoutFirst(in_buffer) \o (link \o Unsent)
  BY <1>1, <1>2, NextFrame DEF ParseMessage
<1>4. n \in Nat /\ p \in Nat /\ p + 1 \in 1 .. n  BY <1>1, <1>3, Lengths
<1>5. /\ parsed' = Append(parsed, queued[p + 1]) /\ in_buffer' = WithoutFirst(in_buffer)
      /\ queued' = queued /\ foreign' = foreign /\ link' = link
      /\ out_buffer' = out_buffer /\ bytes_written' = bytes_written
  BY <1>3 DEF ParseMessage, Parsing, senderVars
<1>6. FirstMessage(in_buffer) \in Parsed
  BY <1>1, Lengths, FrameType DEF ParseMessage
<1>7. /\ Len(parsed') = p + 1
      /\ \A i \in 1 .. p : parsed'[i] = parsed[i]
      /\ parsed'[p + 1] = queued[p + 1]
  <2>1. parsed \in Seq(Parsed) /\ queued[p + 1] \in Parsed
    BY <1>1, <1>3, <1>6 DEF FramingTypeOK, Parsed, Bytes
  <2> QED  BY <1>5, <2>1, AppendProperties
<1>8. ParsedAreQueued'
  <2>1. Len(parsed') <= Len(queued')  BY <1>3, <1>4, <1>5, <1>7
  <2>2. ASSUME NEW i \in 1 .. p + 1  PROVE parsed'[i] = queued[i]
    <3>1. CASE i = p + 1  BY <1>7, <3>1
    <3>2. CASE i # p + 1
      <4>1. i \in 1 .. p  BY <1>4, <3>2
      <4> QED  BY <1>1, <1>7, <4>1 DEF ParsedAreQueued
    <3> QED  BY <3>1, <3>2
  <2> QED  BY <1>5, <1>7, <2>1, <2>2 DEF ParsedAreQueued
<1>9. Unsent' = Unsent  BY <1>5 DEF Unsent
<1>10. Stream(s)'  BY <1>2, <1>3, <1>5, <1>7, <1>9 DEF Stream
<1> QED  BY <1>3, <1>5, <1>8, <1>10

(* Nothing is not an over-long header.                                      *)
LEMMA NoHeaderYet ==
    ~Oversized(<<>>)
<1>1. Len(<<>>) = 0  OBVIOUS
<1> QED  BY <1>1 DEF Oversized, HasHeader, FRAME_HEADER_SIZE

LEMMA FramingInvStep == FramingInv /\ [Next]_vars => FramingInv'
<1> SUFFICES ASSUME FramingInv, [Next]_vars PROVE FramingInv'  OBVIOUS
<1>1. FramingTypeOK /\ ParsedAreQueued /\ Waits /\ Broken /\ Refused  BY DEF FramingInv
<1>2. FramingTypeOK'  BY <1>1, FramingTypeStep
<1>3. ASSUME UNCHANGED <<queued, parsed>> PROVE ParsedAreQueued'
  BY <1>1, <1>3 DEF ParsedAreQueued
<1>4. ASSUME NEW m \in Messages, protocol_queue_message(m) PROVE FramingInv'
  <2>1. (\E s : Stream(s))'  BY <1>4, QueueKeepsStream
  <2>2. /\ queued \in Seq(Messages) /\ queued' = Append(queued, m)
        /\ parsed' = parsed /\ pc' = pc /\ in_buffer' = in_buffer
        /\ UNCHANGED <<state, foreign>>
    BY <1>1, <1>4 DEF protocol_queue_message, receiverVars, FramingTypeOK
  <2>3. ParsedAreQueued'
    <3>1. /\ Len(queued') = Len(queued) + 1
          /\ \A i \in 1 .. Len(queued) : queued'[i] = queued[i]
      BY <2>2, AppendProperties
    <3>2. Len(queued) \in Nat /\ Len(parsed) \in Nat /\ Len(parsed) <= Len(queued)
      BY <1>1, Lengths DEF ParsedAreQueued
    <3>3. Len(parsed) <= Len(queued')  BY <3>1, <3>2
    <3>4. ASSUME NEW i \in 1 .. Len(parsed) PROVE parsed[i] = queued'[i]
      <4>1. i \in 1 .. Len(queued)  BY <3>2
      <4> QED  BY <1>1, <3>1, <4>1 DEF ParsedAreQueued
    <3> QED  BY <2>2, <3>3, <3>4 DEF ParsedAreQueued
  <2>4. state # "CONNECTION_ERROR"
    BY <1>1, <1>4, NoHeaderYet DEF protocol_queue_message, Broken
  <2>5. Waits' /\ Broken' /\ Refused'  BY <1>1, <2>2, <2>4 DEF Waits, Broken, Refused
  <2> QED  BY <1>2, <2>1, <2>3, <2>5 DEF FramingInv
<1>5. CASE ForeignHeader
  <2>1. (\E s : Stream(s))'  BY <1>5, HeaderKeepsStream
  <2>2. UNCHANGED <<queued, parsed, pc, in_buffer, state>>
    BY <1>5 DEF ForeignHeader, receiverVars
  <2>a. state # "CONNECTION_ERROR"
    BY <1>1, <1>5, NoHeaderYet DEF ForeignHeader, Broken
  <2>3. Waits' /\ Broken' /\ Refused'  BY <1>1, <2>2, <2>a DEF Waits, Broken, Refused
  <2> QED  BY <1>2, <1>3, <2>1, <2>2, <2>3 DEF FramingInv
<1>6. CASE connection_flush_out_buffer
  <2>1. UNCHANGED <<queued, parsed, foreign, pc, in_buffer, state>>
    BY <1>6 DEF connection_flush_out_buffer, receiverVars
  <2>2. in_buffer' \o (link' \o Unsent') = in_buffer \o (link \o Unsent)
    BY <1>1, <1>6, <2>1, FlushMoves
  <2>3. (\E s : Stream(s))'  BY <2>1, <2>2, StreamUnchanged
  <2>4. Waits' /\ Broken' /\ Refused'  BY <1>1, <2>1 DEF Waits, Broken, Refused
  <2> QED  BY <1>2, <1>3, <2>1, <2>3, <2>4 DEF FramingInv
<1>7. ASSUME UNCHANGED <<queued, parsed, foreign, in_buffer, link, out_buffer, bytes_written>>
      PROVE  (\E s : Stream(s))' /\ ParsedAreQueued'
  <2>1. Unsent' = Unsent  BY <1>7 DEF Unsent
  <2>2. in_buffer' \o (link' \o Unsent') = in_buffer \o (link \o Unsent)
    BY <1>7, <2>1
  <2> QED  BY <1>3, <1>7, <2>2, StreamUnchanged
<1>8. CASE connection_cleanup
  <2>1. /\ UNCHANGED <<queued, parsed, foreign, in_buffer, link, out_buffer, bytes_written>>
        /\ UNCHANGED <<pc, state>>
    BY <1>8 DEF connection_cleanup, receiverVars
  <2>2. Waits' /\ Broken' /\ Refused'  BY <1>1, <2>1 DEF Waits, Broken, Refused
  <2> QED  BY <1>2, <1>7, <2>1, <2>2 DEF FramingInv
<1>9. CASE connection_read_into_in_buffer
  <2>1. UNCHANGED <<queued, parsed, foreign>> /\ pc = "wait" /\ pc' = "parse"
    BY <1>9 DEF connection_read_into_in_buffer, senderVars
  <2>2. in_buffer' \o (link' \o Unsent') = in_buffer \o (link \o Unsent)
    BY <1>1, <1>9, ReadMoves
  <2>3. (\E s : Stream(s))'  BY <2>1, <2>2, StreamUnchanged
  <2>4. Waits' /\ Refused'  BY <2>1 DEF Waits, Refused
  <2>5. Broken'
    <3>1. state # "CONNECTION_ERROR"  BY <1>1, <2>1 DEF Broken
    <3>2. state' # "CONNECTION_ERROR"
      BY <1>9, <3>1 DEF connection_read_into_in_buffer
    <3> QED  BY <3>2 DEF Broken
  <2> QED  BY <1>2, <1>3, <2>1, <2>3, <2>4, <2>5 DEF FramingInv
<1>10. CASE ParseMessage
  <2>1. (\E s : Stream(s))' /\ ParsedAreQueued'  BY <1>10, ParseKeepsStream
  <2>2. pc = "parse" /\ UNCHANGED <<state, pc>>  BY <1>10 DEF ParseMessage, Parsing
  <2>3. Waits' /\ Broken' /\ Refused'  BY <1>1, <2>2 DEF Waits, Broken, Refused
  <2> QED  BY <1>2, <2>1, <2>3 DEF FramingInv
<1>11. CASE ParseOversized
  <2>1. /\ UNCHANGED <<queued, parsed, foreign, in_buffer, link, out_buffer, bytes_written>>
        /\ pc' = "gone" /\ state' = "CONNECTION_ERROR"
    BY <1>11 DEF ParseOversized, Parsing, senderVars
  <2>2. Oversized(foreign) /\ Len(parsed) = Len(queued)
    <3>1. PICK s : Stream(s)  BY DEF FramingInv
    <3> QED  BY <1>1, <1>11, <3>1, NextOversized DEF ParseOversized
  <2>3. Waits' /\ Broken' /\ Refused'  BY <2>1, <2>2 DEF Waits, Broken, Refused
  <2> QED  BY <1>2, <1>7, <2>1, <2>3 DEF FramingInv
<1>12. CASE ParseIncomplete
  <2>1. /\ UNCHANGED <<queued, parsed, foreign, in_buffer, link, out_buffer, bytes_written>>
        /\ state' = state /\ pc = "parse"
        /\ ~HasFrame(in_buffer) /\ ~Oversized(in_buffer)
    BY <1>12 DEF ParseIncomplete, Parsing, senderVars
  <2>2. Waits' /\ Refused'  BY <2>1 DEF Waits, Refused
  <2>3. Broken'  BY <1>1, <2>1 DEF Broken
  <2> QED  BY <1>2, <1>7, <2>1, <2>2, <2>3 DEF FramingInv
<1>13. CASE UNCHANGED vars
  <2>1. /\ UNCHANGED <<queued, parsed, foreign, in_buffer, link, out_buffer, bytes_written>>
        /\ UNCHANGED <<pc, state>>
    BY <1>13 DEF vars, senderVars, receiverVars
  <2>2. Waits' /\ Broken' /\ Refused'  BY <1>1, <2>1 DEF Waits, Broken, Refused
  <2> QED  BY <1>2, <1>7, <2>1, <2>2 DEF FramingInv
<1> QED
  BY <1>4, <1>5, <1>6, <1>8, <1>9, <1>10, <1>11, <1>12, <1>13
     DEF Next, ReceiverNext, protocol_parse_message

(* What lies in the three buffers is, byte for byte, the frames of the      *)
(* messages not yet parsed and what a foreign program sent behind them      *)
(* (connection_flush_out_buffer, connection_read_into_in_buffer,            *)
(* protocol_parse_message), whatever is in flight.                          *)
THEOREM FramingInvariant == Spec => []FramingInv
  BY FramingInvInit, FramingInvStep, PTL DEF Spec

-----------------------------------------------------------------------------
(* What follows from it.                                                    *)

(* parsed and queued as sequences of one set.                               *)
LEMMA SameSet ==
    ASSUME FramingTypeOK
    PROVE  parsed \in Seq(Parsed) /\ queued \in Seq(Parsed)
<1>1. queued \in Seq(Messages) /\ Messages \subseteq Parsed
  BY FramingAssumption DEF FramingTypeOK, Parsed, Bytes
<1>2. queued \in Seq(Parsed)  BY <1>1, SeqMonotonic
<1> QED  BY <1>2 DEF FramingTypeOK, Parsed, Bytes

(* The parser's test of a length (protocol_payload_length_is_legal) is the  *)
(* limit of 64 KiB itself.                                                  *)
LEMMA OversizedIsTooLong ==
    ASSUME NEW b \in Bytes
    PROVE  Oversized(b) <=> TooLong(b)
<1>1. CASE HasHeader(b)
  <2>1. PayloadLength(b) \in Nat  BY <1>1, PayloadLengthType
  <2> QED
    BY <1>1, <2>1 DEF Oversized, TooLong, protocol_payload_length_is_legal, MAX_PAYLOAD_SIZE
<1>2. CASE ~HasHeader(b)
  BY <1>2 DEF Oversized, TooLong
<1> QED  BY <1>1, <1>2

(* A receiver gives up only on a header that announces more than 64 KiB,    *)
(* with all the messages in front of it parsed as they were queued, and on  *)
(* every such header it has looked at (INSR.md:674).                        *)
THEOREM TooLongIsRefused == Spec => []RefusesExactlyTooLong
<1>1. FramingInv => RefusesExactlyTooLong
  <2> SUFFICES ASSUME FramingInv PROVE RefusesExactlyTooLong  OBVIOUS
  <2>1. FramingTypeOK /\ Waits /\ Broken /\ Refused /\ ParsedAreQueued
    BY DEF FramingInv
  <2>2. foreign \in Bytes /\ in_buffer \in Bytes
    <3>1. <<>> \in Bytes  BY EmptySeq DEF Bytes
    <3> QED  BY <2>1, <3>1, FramingAssumption DEF FramingTypeOK, Bytes
  <2>3. ASSUME state = "CONNECTION_ERROR" PROVE TooLong(foreign) /\ parsed = queued
    <3>1. /\ Oversized(foreign) /\ Len(parsed) = Len(queued)
          /\ \A i \in 1 .. Len(parsed) : parsed[i] = queued[i]
      BY <2>1, <2>3 DEF Broken, ParsedAreQueued
    <3>2. parsed \in Seq(Parsed) /\ queued \in Seq(Parsed)  BY <2>1, SameSet
    <3>3. parsed = queued  BY <3>1, <3>2, SeqEqual
    <3> QED  BY <2>2, <3>1, <3>3, OversizedIsTooLong
  <2>4. ASSUME TooLong(in_buffer), pc # "parse" PROVE state = "CONNECTION_ERROR"
    <3>1. Oversized(in_buffer)  BY <2>2, <2>4, OversizedIsTooLong
    <3>2. pc = "gone"  BY <2>1, <2>4, <3>1 DEF Waits, FramingTypeOK
    <3> QED  BY <2>1, <3>1, <3>2 DEF Refused
  <2> QED  BY <2>3, <2>4 DEF RefusesExactlyTooLong
<1> QED  BY <1>1, FramingInvariant, PTL

(* Two ways to cut the same bytes agree as far as both first parts go.      *)
LEMMA SamePrefix ==
    ASSUME NEW a \in Bytes, NEW b \in Bytes, NEW c \in Bytes, NEW d \in Bytes,
           a \o b = c \o d, NEW k \in Nat, k <= Len(a), k <= Len(c)
    PROVE  SubSeq(a, 1, k) = SubSeq(c, 1, k)
<1>1. Len(a) \in Nat /\ Len(b) \in Nat /\ Len(c) \in Nat /\ Len(d) \in Nat
  BY LenProperties DEF Bytes
<1>2. \A i \in 1 .. k : a[i] = (a \o b)[i]
  <2>1. \A i \in 1 .. Len(a) + Len(b) :
          (a \o b)[i] = IF i <= Len(a) THEN a[i] ELSE b[i - Len(a)]
    BY ConcatProperties DEF Bytes
  <2> QED  BY <1>1, <2>1
<1>3. \A i \in 1 .. k : c[i] = (c \o d)[i]
  <2>1. \A i \in 1 .. Len(c) + Len(d) :
          (c \o d)[i] = IF i <= Len(c) THEN c[i] ELSE d[i - Len(c)]
    BY ConcatProperties DEF Bytes
  <2> QED  BY <1>1, <2>1
<1>4. ASSUME NEW e \in Bytes, k <= Len(e)
      PROVE  /\ SubSeq(e, 1, k) \in Bytes /\ Len(SubSeq(e, 1, k)) = k
             /\ \A i \in 1 .. k : SubSeq(e, 1, k)[i] = e[i]
  <2>1. k \in 0 .. Len(e)  BY <1>4, LenProperties DEF Bytes
  <2>2. \A i \in 1 .. k : e[i] \in Byte
    BY <1>4, ElementOfSeq, LenProperties DEF Bytes
  <2>3. \A i \in 1 .. k - 1 + 1 : SubSeq(e, 1, k)[i] = e[1 + i - 1]
    BY <2>2, SubSeqProperties DEF Bytes
  <2>4. \A i \in 1 .. k : SubSeq(e, 1, k)[i] = e[i]  BY <2>3
  <2> QED  BY <2>1, <2>4, Cut
<1>5. /\ SubSeq(a, 1, k) \in Bytes /\ Len(SubSeq(a, 1, k)) = k
      /\ \A i \in 1 .. k : SubSeq(a, 1, k)[i] = a[i]
  BY <1>4
<1>6. /\ SubSeq(c, 1, k) \in Bytes /\ Len(SubSeq(c, 1, k)) = k
      /\ \A i \in 1 .. k : SubSeq(c, 1, k)[i] = c[i]
  BY <1>4
<1>7. \A i \in 1 .. k : SubSeq(a, 1, k)[i] = SubSeq(c, 1, k)[i]
  BY <1>2, <1>3, <1>5, <1>6
<1> QED  BY <1>5, <1>6, <1>7, SeqEqual DEF Bytes

(* A receiver that waits for input has parsed all it can                    *)
(* (protocol_parse_message): what is left is the beginning of the next      *)
(* message, short of its last byte, or of what a foreign program sent.      *)
THEOREM WaitsForMore == Spec => []NoFrameWaits
<1>1. FramingInv => NoFrameWaits
  <2> SUFFICES ASSUME FramingInv, pc = "wait" PROVE NoFrameWaits
    BY DEF NoFrameWaits
  <2> DEFINE p == Len(parsed)
             n == Len(queued)
             t == link \o Unsent
  <2>1. FramingTypeOK /\ ~HasFrame(in_buffer) /\ ~Oversized(in_buffer)
    BY DEF FramingInv, Waits
  <2>2. PICK s : Stream(s)  BY DEF FramingInv
  <2>3. /\ n \in Nat /\ p \in Nat /\ in_buffer \in Bytes /\ t \in Bytes
        /\ Len(in_buffer) \in Nat
    BY <2>1, Lengths, LenProperties DEF Bytes
  <2>4. s[p] = in_buffer \o t  BY <2>2 DEF Stream
  <2>5. ASSUME p < n
        PROVE  LET next == Encode(queued[p + 1])
               IN  \E k \in 0 .. Len(next) - 1 : in_buffer = SubSeq(next, 1, k)
    <3> DEFINE next == Encode(queued[p + 1])
               l == Len(in_buffer)
    <3>1. p \in 0 .. n - 1  BY <2>3, <2>5
    <3>2. /\ s[p] = next \o s[p + 1] /\ s[p + 1] \in Bytes
          /\ queued[p + 1] \in Messages
      BY <2>1, <2>2, <3>1, StreamNext
    <3>3. next \in Bytes /\ Len(next) \in Nat
      BY <3>2, EncodeShape, LenProperties DEF Bytes
    <3>4. in_buffer \o t = next \o s[p + 1]  BY <2>4, <3>2
    <3>a. ASSUME NEW k \in Nat, k <= Len(in_buffer), k <= Len(next)
          PROVE  SubSeq(in_buffer, 1, k) = SubSeq(next, 1, k)
      <4>1. PICK d \in Bytes : in_buffer \o t = next \o d  BY <3>2, <3>4
      <4>2. in_buffer \in Bytes /\ t \in Bytes /\ next \in Bytes  BY <2>3, <3>3
      <4> HIDE DEF t, next
      <4> QED  BY <3>a, <4>1, <4>2, SamePrefix
    <3>5. l < Len(next)
      <4> SUFFICES ASSUME Len(next) <= l PROVE FALSE  BY <2>3, <3>3
      <4>1. SubSeq(in_buffer, 1, Len(next)) = SubSeq(next, 1, Len(next))
        BY <3>3, <3>a
      <4>2. SubSeq(next, 1, Len(next)) = next  BY <3>3, SubSeqFull DEF Bytes
      <4> DEFINE rest == SubSeq(in_buffer, Len(next) + 1, l)
      <4>3. /\ SubSeq(in_buffer, 1, Len(next)) \o rest = in_buffer
            /\ rest \in Bytes
        <5>1. Len(next) \in 0 .. l  BY <2>3, <3>3
        <5> HIDE DEF next
        <5> QED  BY <2>3, <5>1, Cut
      <4> HIDE DEF rest
      <4>4. in_buffer = next \o rest  BY <4>1, <4>2, <4>3
      <4>5. HasFrame(next \o rest)  BY <3>2, <4>3, RoundTrip
      <4> QED  BY <2>1, <4>4, <4>5
    <3>6. SubSeq(in_buffer, 1, l) = SubSeq(next, 1, l)
      <4>1. l \in Nat /\ l <= Len(in_buffer) /\ l <= Len(next)  BY <2>3, <3>3, <3>5
      <4> QED  BY <3>a, <4>1
    <3>7. SubSeq(in_buffer, 1, l) = in_buffer  BY <2>3, SubSeqFull DEF Bytes
    <3>8. l \in 0 .. Len(next) - 1  BY <2>3, <3>3, <3>5
    <3>9. in_buffer = SubSeq(next, 1, l)  BY <3>6, <3>7
    <3> HIDE DEF next
    <3>10. \E k \in 0 .. Len(next) - 1 : in_buffer = SubSeq(next, 1, k)
      BY <3>8, <3>9
    <3> QED  BY <3>10 DEF next
  <2>6. ASSUME p = n, foreign = <<>> PROVE in_buffer = <<>>
    <3>1. in_buffer \o t = <<>>  BY <2>2, <2>4, <2>6 DEF Stream
    <3>2. <<>> \in Seq(Byte)  BY EmptySeq
    <3>3. Len(in_buffer \o t) = Len(in_buffer) + Len(t) /\ Len(t) \in Nat /\ Len(<<>>) = 0
      BY <2>3, ConcatProperties, LenProperties, EmptySeq DEF Bytes
    <3>4. Len(in_buffer) = 0
      <4> HIDE DEF t
      <4> QED  BY <2>3, <3>1, <3>3
    <3> QED  BY <2>3, <3>4, EmptySeq DEF Bytes
  <2> QED  BY <2>1, <2>5, <2>6 DEF NoFrameWaits
<1> QED  BY <1>1, FramingInvariant, PTL

-----------------------------------------------------------------------------
(* The refinement.                                                          *)

(* The messages still waiting: those queued behind the first k.             *)
Behind(q, k) == SubSeq(q, k + 1, Len(q))

LEMMA BehindShape ==
    ASSUME NEW q \in Seq(Parsed), NEW k \in 0 .. Len(q)
    PROVE  /\ Behind(q, k) \in Seq(Parsed) /\ Len(Behind(q, k)) = Len(q) - k
           /\ \A i \in 1 .. Len(q) - k : Behind(q, k)[i] = q[k + i]
<1>1. Len(q) \in Nat  BY LenProperties
<1>2. \A i \in k + 1 .. Len(q) : q[i] \in Parsed  BY <1>1, ElementOfSeq
<1>3. k + 1 \in Int /\ Len(q) \in Int  BY <1>1
<1>4. /\ SubSeq(q, k + 1, Len(q)) \in Seq(Parsed)
      /\ Len(SubSeq(q, k + 1, Len(q))) = IF k + 1 <= Len(q) THEN Len(q) - (k + 1) + 1 ELSE 0
      /\ \A i \in 1 .. Len(q) - (k + 1) + 1 : SubSeq(q, k + 1, Len(q))[i] = q[k + 1 + i - 1]
  BY <1>2, <1>3, SubSeqProperties
<1> DEFINE w == SubSeq(q, k + 1, Len(q))
<1> HIDE DEF w
<1>5. w \in Seq(Parsed) /\ Len(w) = Len(q) - k
  BY <1>1, <1>4 DEF w
<1>6. ASSUME NEW i \in 1 .. Len(q) - k PROVE w[i] = q[k + i]
  <2>1. i \in 1 .. Len(q) - (k + 1) + 1 /\ k + 1 + i - 1 = k + i  BY <1>1
  <2> QED  BY <1>4, <2>1 DEF w
<1>7. Behind(q, k) = w  BY DEF Behind, w
<1> QED  BY <1>5, <1>6, <1>7

LEMMA BehindGrows ==
    ASSUME NEW q \in Seq(Parsed), NEW k \in 0 .. Len(q), NEW m \in Parsed
    PROVE  Behind(Append(q, m), k) = Append(Behind(q, k), m)
<1> DEFINE r == Append(q, m)
           w == Behind(q, k)
           u == Behind(r, k)
           v == Append(w, m)
<1>1. Len(q) \in Nat  BY LenProperties
<1>2. /\ r \in Seq(Parsed) /\ Len(r) = Len(q) + 1
      /\ \A i \in 1 .. Len(q) : r[i] = q[i]
      /\ r[Len(q) + 1] = m
  BY AppendProperties
<1>3. /\ w \in Seq(Parsed) /\ Len(w) = Len(q) - k
      /\ \A i \in 1 .. Len(q) - k : w[i] = q[k + i]
  BY BehindShape
<1> HIDE DEF r, w
<1>4. k \in 0 .. Len(r)  BY <1>1, <1>2
<1>5. /\ u \in Seq(Parsed) /\ Len(u) = Len(r) - k
      /\ \A i \in 1 .. Len(r) - k : u[i] = r[k + i]
  BY <1>2, <1>4, BehindShape
<1>6. /\ v \in Seq(Parsed) /\ Len(v) = Len(w) + 1
      /\ \A i \in 1 .. Len(w) : v[i] = w[i]
      /\ v[Len(w) + 1] = m
  BY <1>3, AppendProperties
<1> HIDE DEF u, v
<1>7. Len(u) = Len(v)  BY <1>1, <1>2, <1>3, <1>5, <1>6
<1>8. ASSUME NEW i \in 1 .. Len(u) PROVE u[i] = v[i]
  <2>1. i \in 1 .. Len(q) - k + 1 /\ u[i] = r[k + i]  BY <1>1, <1>2, <1>5
  <2>2. CASE i <= Len(q) - k
    <3>1. k + i \in 1 .. Len(q) /\ i \in 1 .. Len(q) - k  BY <1>1, <2>1, <2>2
    <3>2. r[k + i] = q[k + i]  BY <1>2, <3>1
    <3>3. v[i] = w[i] /\ w[i] = q[k + i]  BY <1>3, <1>6, <3>1
    <3> QED  BY <2>1, <3>2, <3>3
  <2>3. CASE ~(i <= Len(q) - k)
    <3>a. i = Len(q) - k + 1  BY <1>1, <2>1, <2>3
    <3>1. k + i = Len(q) + 1 /\ i = Len(w) + 1  BY <1>1, <1>3, <3>a
    <3>2. r[k + i] = m  BY <1>2, <3>1
    <3>3. v[i] = m  BY <1>6, <3>1
    <3> QED  BY <2>1, <3>2, <3>3
  <2> QED  BY <2>2, <2>3
<1>9. u = v  BY <1>5, <1>6, <1>7, <1>8, SeqEqual
<1> QED  BY <1>9 DEF u, v, r, w

LEMMA BehindShrinks ==
    ASSUME NEW q \in Seq(Parsed), NEW k \in 0 .. Len(q) - 1
    PROVE  /\ Behind(q, k) # <<>>
           /\ Head(Behind(q, k)) = q[k + 1]
           /\ Tail(Behind(q, k)) = Behind(q, k + 1)
<1> DEFINE w == Behind(q, k)
           u == Tail(w)
           v == Behind(q, k + 1)
<1>1. Len(q) \in Nat /\ k \in 0 .. Len(q) /\ k + 1 \in 0 .. Len(q)  BY LenProperties
<1>2. /\ w \in Seq(Parsed) /\ Len(w) = Len(q) - k
      /\ \A i \in 1 .. Len(q) - k : w[i] = q[k + i]
  BY <1>1, BehindShape
<1>3. /\ v \in Seq(Parsed) /\ Len(v) = Len(q) - (k + 1)
      /\ \A i \in 1 .. Len(q) - (k + 1) : v[i] = q[k + 1 + i]
  BY <1>1, BehindShape
<1> HIDE DEF v, w
<1>4. w # <<>>
  <2>1. Len(w) # 0  BY <1>1, <1>2
  <2> QED  BY <1>2, <2>1, EmptySeq
<1>5. /\ Head(w) = w[1]
      /\ u \in Seq(Parsed) /\ Len(u) = Len(w) - 1
      /\ \A i \in 1 .. Len(u) : u[i] = w[i + 1]
  BY <1>2, <1>4, HeadTailProperties
<1> HIDE DEF u
<1>6. w[1] = q[k + 1]  BY <1>1, <1>2
<1>7. Len(u) = Len(v)  BY <1>1, <1>2, <1>3, <1>5
<1>8. ASSUME NEW i \in 1 .. Len(u) PROVE u[i] = v[i]
  <2>1. i \in 1 .. Len(q) - (k + 1) /\ i + 1 \in 1 .. Len(q) - k
    BY <1>1, <1>2, <1>5
  <2>2. u[i] = w[i + 1]  BY <1>5
  <2>3. w[i + 1] = q[k + (i + 1)]  BY <1>2, <2>1
  <2>4. v[i] = q[k + 1 + i]  BY <1>3, <2>1
  <2>5. k + (i + 1) = k + 1 + i  BY <1>1, <2>1
  <2> QED  BY <2>2, <2>3, <2>4, <2>5
<1>9. u = v  BY <1>3, <1>5, <1>7, <1>8, SeqEqual
<1> QED  BY <1>4, <1>5, <1>6, <1>9 DEF u, v, w

LEMMA QueueInitially == Init => Queue!QueueInit
<1> SUFFICES ASSUME Init PROVE Queue!QueueInit  OBVIOUS
<1>1. queued = <<>> /\ parsed = <<>> /\ state = "ACTIVE"  BY DEF Init
<1>2. SubSeq(<<>>, 0 + 1, 0) = <<>> /\ Len(<<>>) = 0  BY SubSeqEmpty, EmptySeq
<1>3. SubSeq(queued, Len(parsed) + 1, Len(queued)) = <<>>  BY <1>1, <1>2
<1> QED  BY <1>1, <1>3 DEF Queue!QueueInit

(* Every step of the bytes is a step of the queue or none.                  *)
LEMMA QueueStep ==
    FramingInv /\ [Next]_vars => [Queue!Put \/ Queue!Get \/ Queue!Break]_(Queue!queueVars)
<1> SUFFICES ASSUME FramingInv, [Next]_vars
             PROVE  Queue!Put \/ Queue!Get \/ Queue!Break \/ UNCHANGED Queue!queueVars
  OBVIOUS
<1> DEFINE p == Len(parsed)
           n == Len(queued)
<1>1. /\ FramingTypeOK /\ Broken /\ n \in Nat /\ p \in 0 .. n
      /\ parsed \in Seq(Parsed) /\ queued \in Seq(Parsed)
  BY Lengths, SameSet DEF FramingInv, ParsedAreQueued
<1>2. SubSeq(queued, p + 1, n) = Behind(queued, p)  BY DEF Behind
<1>3. ASSUME UNCHANGED <<queued, parsed>>,
             (state' = "CONNECTION_ERROR") = (state = "CONNECTION_ERROR")
      PROVE  UNCHANGED Queue!queueVars
  BY <1>3 DEF Queue!queueVars
<1>4. ASSUME NEW m \in Messages, protocol_queue_message(m) PROVE Queue!Put
  <2>1. queued' = Append(queued, m) /\ parsed' = parsed /\ state' = state
    BY <1>4 DEF protocol_queue_message, receiverVars
  <2>2. m \in Parsed  BY EncodeShape
  <2>3. Behind(Append(queued, m), p) = Append(Behind(queued, p), m)
    BY <1>1, <2>2, BehindGrows
  <2>4. SubSeq(queued', Len(parsed') + 1, Len(queued'))
          = Append(SubSeq(queued, p + 1, n), m)
    BY <2>1, <2>3 DEF Behind
  <2> QED  BY <2>1, <2>4 DEF Queue!Put
<1>5. CASE ForeignHeader
  BY <1>3, <1>5 DEF ForeignHeader, receiverVars
<1>6. CASE connection_flush_out_buffer
  BY <1>3, <1>6 DEF connection_flush_out_buffer, receiverVars
<1>7. CASE connection_cleanup
  BY <1>3, <1>7 DEF connection_cleanup, receiverVars
<1>8. CASE connection_read_into_in_buffer
  <2>1. queued' = queued /\ parsed' = parsed /\ pc = "wait"
    BY <1>8 DEF connection_read_into_in_buffer, senderVars
  <2>2. state # "CONNECTION_ERROR"  BY <1>1, <2>1 DEF Broken
  <2>3. state' # "CONNECTION_ERROR"
    BY <1>8, <2>2 DEF connection_read_into_in_buffer
  <2> QED  BY <1>3, <2>1, <2>2, <2>3
<1>9. CASE ParseMessage
  <2>1. p < n /\ parsed' = Append(parsed, queued[p + 1])
    BY <1>9, ParseKeepsStream
  <2>2. queued' = queued /\ state' = state /\ pc = "parse"
    BY <1>9 DEF ParseMessage, Parsing, senderVars
  <2>3. state # "CONNECTION_ERROR"  BY <1>1, <2>2 DEF Broken
  <2>4. p \in 0 .. n - 1  BY <1>1, <2>1
  <2>5. /\ Behind(queued, p) # <<>>
        /\ Head(Behind(queued, p)) = queued[p + 1]
        /\ Tail(Behind(queued, p)) = Behind(queued, p + 1)
    BY <1>1, <2>4, BehindShrinks
  <2>6. Len(parsed') = p + 1
    <3>1. queued[p + 1] \in Parsed  BY <1>1, <2>4, ElementOfSeq
    <3> QED  BY <1>1, <2>1, <3>1, AppendProperties
  <2>7. SubSeq(queued', Len(parsed') + 1, Len(queued')) = Behind(queued, p + 1)
    BY <2>2, <2>6 DEF Behind
  <2> QED  BY <1>2, <2>1, <2>2, <2>3, <2>5, <2>7 DEF Queue!Get
<1>10. CASE ParseOversized
  <2>1. queued' = queued /\ parsed' = parsed /\ pc = "parse" /\ state' = "CONNECTION_ERROR"
    BY <1>10 DEF ParseOversized, Parsing, senderVars
  <2>2. state # "CONNECTION_ERROR"  BY <1>1, <2>1 DEF Broken
  <2> QED  BY <2>1, <2>2 DEF Queue!Break
<1>11. CASE ParseIncomplete
  BY <1>3, <1>11 DEF ParseIncomplete, Parsing, senderVars
<1>12. CASE UNCHANGED vars
  BY <1>3, <1>12 DEF vars, senderVars, receiverVars
<1> QED
  BY <1>4, <1>5, <1>6, <1>7, <1>8, <1>9, <1>10, <1>11, <1>12
     DEF Next, ReceiverNext, protocol_parse_message

(* However the reads and writes cut the bytes, the messages come out whole, *)
(* once and in order (INSR.md:665).                                         *)
THEOREM BytesAreAQueue == Spec => ImplementsFrameQueue
  BY QueueInitially, QueueStep, FramingInvariant, PTL
     DEF Spec, ImplementsFrameQueue, Queue!QueueSpec
=============================================================================
