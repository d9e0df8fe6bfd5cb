--------------------------- MODULE KalFrameProofs ---------------------------
(* What the frame layer promises the session layer, for every length,      *)
(* profile and window, and what it promises of the bytes on the air.       *)
EXTENDS KalWire, TLAPS

Constants ==
  /\ KAL_PAYLOAD_BYTES = 44 /\ KAL_DIGEST_BYTES = 32 /\ KAL_MAX_SEGMENTS = 94
  /\ KAL_MAX_MESSAGE_BYTES = 4096

\* The wire constants.
LEMMA ConstantsHold == Constants
  BY DEF Constants, KAL_PAYLOAD_BYTES, KAL_DIGEST_BYTES, KAL_MAX_SEGMENTS, KAL_MAX_MESSAGE_BYTES

\* Rounding up a division by 44.
LEMMA RoundUp ==
  ASSUME NEW n \in Nat
  PROVE  LET q == (n + 43) \div 44 IN q \in Nat /\ n =< q * 44 /\ (q - 1) * 44 < n
  OBVIOUS

\* kal_segment_count: a message of any legal length and its digest fill all segments but
\* the last, which is never empty, and there are never more than 94 of them: the range
\* check behind the division is unreachable.
THEOREM SegmentsExact ==
  ASSUME NEW bytes \in 0 .. KAL_MAX_MESSAGE_BYTES
  PROVE  LET n == kal_segment_count(bytes) IN
         /\ n \in 1 .. KAL_MAX_SEGMENTS
         /\ bytes + KAL_DIGEST_BYTES =< n * KAL_PAYLOAD_BYTES
         /\ (n - 1) * KAL_PAYLOAD_BYTES < bytes + KAL_DIGEST_BYTES
<1> DEFINE n == (bytes + KAL_DIGEST_BYTES + KAL_PAYLOAD_BYTES - 1) \div KAL_PAYLOAD_BYTES
<1>1. bytes \in 0 .. 4096  BY ConstantsHold DEF Constants
<1>2. n = (bytes + 32 + 43) \div 44  BY <1>1, ConstantsHold DEF Constants
<1>3. n \in Nat /\ bytes + 32 =< n * 44 /\ (n - 1) * 44 < bytes + 32
  BY <1>1, <1>2, RoundUp
<1> HIDE DEF n
<1>4. n \in 1 .. 94  BY <1>1, <1>3
<1>5. kal_segment_count(bytes) = n
  BY <1>1, <1>4, ConstantsHold DEF kal_segment_count, n, Constants
<1> QED BY <1>3, <1>4, <1>5, ConstantsHold DEF Constants

\* A longer message has no segment count: kal_send refuses it.
THEOREM TooLongRefused ==
  ASSUME NEW bytes \in Nat, bytes > KAL_MAX_MESSAGE_BYTES PROVE kal_segment_count(bytes) = 0
  BY DEF kal_segment_count

\* Of the n segments of t bytes, 44 to each, only the last may be short, and none is empty.
LEMMA OnlyLastShort ==
  ASSUME NEW t \in Nat, NEW n \in 1 .. 94, t =< n * 44, (n - 1) * 44 < t, NEW s \in 0 .. n - 1
  PROVE  t - s * 44 > 0 /\ (s # n - 1 => t - s * 44 > 44)
  OBVIOUS

\* ValidData in numbers.
LEMMA DataValid ==
  ASSUME NEW n \in 1 .. 94, NEW s \in 0 .. n - 1, NEW length \in 1 .. 44,
         s # n - 1 => length = 44
  PROVE  validate([type |-> "DATA", sequence |-> s, value |-> n, flag |-> (s = n - 1),
                   length |-> length])
<1> DEFINE f == [type |-> "DATA", sequence |-> s, value |-> n, flag |-> (s = n - 1),
                 length |-> length]
<1>1. /\ f.type = "DATA" /\ f.sequence = s /\ f.value = n /\ f.length = length
      /\ f.flag <=> s = n - 1
  OBVIOUS
<1> HIDE DEF f
<1>2. ValidData(f)  BY <1>1, ConstantsHold DEF ValidData, Constants
<1>3. f.length =< KAL_PAYLOAD_BYTES  BY <1>1, ConstantsHold DEF Constants
<1>4. validate(f)  BY <1>1, <1>2, <1>3 DEF validate
<1> QED BY <1>4 DEF f

\* Every segment kal_send cuts from a message and queue_window queues is a DATA frame
\* the codec accepts at both ends, the shorter last one included.
THEOREM SegmentsValidate ==
  ASSUME NEW bytes \in 0 .. KAL_MAX_MESSAGE_BYTES,
         NEW n, n = kal_segment_count(bytes),
         NEW s \in 0 .. n - 1,
         NEW rest, rest = bytes + KAL_DIGEST_BYTES - s * KAL_PAYLOAD_BYTES
  PROVE  validate([type |-> "DATA", sequence |-> s, value |-> n, flag |-> (s = n - 1),
                   length |-> IF rest < KAL_PAYLOAD_BYTES THEN rest ELSE KAL_PAYLOAD_BYTES])
<1>1. /\ n \in 1 .. KAL_MAX_SEGMENTS
      /\ bytes + KAL_DIGEST_BYTES =< n * KAL_PAYLOAD_BYTES
      /\ (n - 1) * KAL_PAYLOAD_BYTES < bytes + KAL_DIGEST_BYTES
  BY SegmentsExact
<1>2. bytes \in Nat /\ n \in 1 .. 94 /\ bytes + 32 =< n * 44 /\ (n - 1) * 44 < bytes + 32
  BY <1>1, ConstantsHold DEF Constants
<1>3. bytes + 32 \in Nat /\ rest = bytes + 32 - s * 44  BY <1>2, ConstantsHold DEF Constants
<1>4. rest \in Int /\ rest > 0 /\ (s # n - 1 => rest > 44)  BY <1>2, <1>3, OnlyLastShort
<1> DEFINE length == IF rest < KAL_PAYLOAD_BYTES THEN rest ELSE KAL_PAYLOAD_BYTES
<1>5. length \in 1 .. 44 /\ (s # n - 1 => length = 44)
  BY <1>4, ConstantsHold DEF Constants
<1> QED BY <1>2, <1>5, DataValid

\* What is packed into a capability word comes out of it: the ends compare profiles and
\* take the smaller window of what was meant.
THEOREM CapabilityRoundTrip ==
  ASSUME NEW profile \in 0 .. 255, NEW window \in 0 .. 255
  PROVE  /\ kal_capability_profile(kal_capability_pack(profile, window)) = profile
         /\ kal_capability_window(kal_capability_pack(profile, window)) = window
<1>1. PICK high \in Int : high = profile * 256  OBVIOUS
<1>2. PICK word \in Int : word = high + window  BY <1>1
<1>3. word \div 256 = profile /\ word % 256 = window  BY <1>1, <1>2
<1>4. window % 256 = window  OBVIOUS
<1>5. 0 =< word /\ word < 65536  BY <1>1, <1>2
<1>6. word % 65536 = word  BY <1>5
<1>7. kal_capability_pack(profile, window) = (high + window) % 65536
  BY <1>1, <1>4 DEF kal_capability_pack
<1>8. kal_capability_pack(profile, window) = word  BY <1>2, <1>6, <1>7
<1> QED BY <1>3, <1>8 DEF kal_capability_profile, kal_capability_window

----------------------------------------------------------------------------
(* The bytes of a frame.                                                   *)

\* A number is what is above its lowest byte, and that byte.
LEMMA SplitByte ==
  ASSUME NEW v \in Nat
  PROVE  /\ low_byte(v) \in Byte /\ high_bytes(v) \in Nat /\ v = high_bytes(v) * 256 + low_byte(v)
  BY DEF low_byte, high_bytes, Byte

\* A byte put below a number comes off again.
LEMMA JoinByte ==
  ASSUME NEW a \in Nat, NEW b \in Byte
  PROVE  /\ a * 256 + b \in Nat /\ high_bytes(a * 256 + b) = a /\ low_byte(a * 256 + b) = b
<1>1. PICK high \in Nat : high = a * 256  OBVIOUS
<1>2. b \in Nat /\ b < 256  BY DEF Byte
<1>3. (high + b) \div 256 = a /\ (high + b) % 256 = b  BY <1>1, <1>2
<1> QED BY <1>1, <1>2, <1>3 DEF low_byte, high_bytes

\* A byte is its own lowest byte.
LEMMA ByteLow ==
  ASSUME NEW b \in Byte
  PROVE  b \in Nat /\ low_byte(b) = b
  BY DEF low_byte, Byte

\* The two bytes of a uint16.
LEMMA Put16 ==
  ASSUME NEW v \in Uint16
  PROVE  /\ low_byte(v) \in Byte /\ high_bytes(v) \in Byte
         /\ low_byte(high_bytes(v)) = high_bytes(v)
         /\ v = high_bytes(v) * 256 + low_byte(v)
<1>1. v \in Nat /\ high_bytes(v) \in Byte  BY DEF Uint16, high_bytes
<1> QED BY <1>1, SplitByte, ByteLow

\* put_u32_be writes four bytes that stand for its number.
LEMMA Put32 ==
  ASSUME NEW v \in Uint32
  PROVE  LET p == put_u32_be(v) IN
         /\ \A i \in 1 .. 4 : p[i] \in Byte
         /\ v = ((p[1] * 256 + p[2]) * 256 + p[3]) * 256 + p[4]
<1>1. v \in Nat /\ high_bytes(high_bytes(v)) \in Uint16  BY DEF Uint32, high_bytes
<1>2. /\ high_bytes(v) \in Nat /\ low_byte(v) \in Byte /\ v = high_bytes(v) * 256 + low_byte(v)
      /\ high_bytes(high_bytes(v)) \in Nat /\ low_byte(high_bytes(v)) \in Byte
      /\ high_bytes(v) = high_bytes(high_bytes(v)) * 256 + low_byte(high_bytes(v))
  BY <1>1, SplitByte
<1> DEFINE h == high_bytes(high_bytes(v))
<1>3. /\ low_byte(high_bytes(h)) \in Byte /\ low_byte(h) \in Byte
      /\ h = low_byte(high_bytes(h)) * 256 + low_byte(h)
  BY <1>1, Put16
<1> QED BY <1>2, <1>3 DEF put_u32_be

\* Two bytes are those of the number they stand for.
LEMMA Get16 ==
  ASSUME NEW a \in Byte, NEW b \in Byte
  PROVE  LET v == a * 256 + b
         IN  v \in Uint16 /\ low_byte(high_bytes(v)) = a /\ low_byte(v) = b
<1> DEFINE v == a * 256 + b
<1>1. a \in Nat /\ v \in Nat /\ high_bytes(v) = a /\ low_byte(v) = b  BY JoinByte, ByteLow
<1>2. low_byte(high_bytes(v)) = a  BY <1>1, ByteLow
<1>3. v \in Uint16  BY <1>1 DEF Uint16, high_bytes
<1> QED BY <1>1, <1>2, <1>3

\* So are four: what get_u32_be reads, put_u32_be writes.
LEMMA Get32 ==
  ASSUME NEW w, NEW i,
         w[i] \in Byte, w[i + 1] \in Byte, w[i + 2] \in Byte, w[i + 3] \in Byte
  PROVE  /\ get_u32_be(w, i) \in Uint32
         /\ put_u32_be(get_u32_be(w, i)) = <<w[i], w[i + 1], w[i + 2], w[i + 3]>>
<1> DEFINE h == w[i] * 256 + w[i + 1]
           m == h * 256 + w[i + 2]
           v == get_u32_be(w, i)
<1>1. h \in Uint16 /\ low_byte(high_bytes(h)) = w[i] /\ low_byte(h) = w[i + 1]  BY Get16
<1>2. h \in Nat  BY <1>1 DEF Uint16
<1>3. v = m * 256 + w[i + 3]  BY DEF get_u32_be
<1> HIDE DEF h
<1>4. m \in Nat /\ high_bytes(m) = h /\ low_byte(m) = w[i + 2]  BY <1>2, JoinByte
<1> HIDE DEF m, v
<1>5. v \in Nat /\ high_bytes(v) = m /\ low_byte(v) = w[i + 3]  BY <1>3, <1>4, JoinByte
<1>6. v \in Uint32  BY <1>1, <1>4, <1>5 DEF Uint32, high_bytes
<1>7. put_u32_be(v) = <<w[i], w[i + 1], w[i + 2], w[i + 3]>>
  BY <1>1, <1>4, <1>5 DEF put_u32_be
<1> QED BY <1>6, <1>7 DEF v

WireSizes ==
  /\ KAL_HEADER_BYTES = 16 /\ KAL_BODY_BYTES = 60
  /\ KAL_FRAME_BYTES = 64 /\ KAL_PAYLOAD_BYTES = 44

\* The parts of a frame.
LEMMA WireSizesHold == WireSizes
  BY DEF WireSizes, KAL_HEADER_BYTES, KAL_BODY_BYTES, KAL_FRAME_BYTES, KAL_PAYLOAD_BYTES

\* Types and type bytes correspond one to one.
LEMMA TypeBytes ==
  /\ DOMAIN TypeOf = 1 .. 6
  /\ \A b \in 1 .. 6 : TypeOf[b] \in FrameTypes /\ TypeByte(TypeOf[b]) = b
  /\ \A t \in FrameTypes : TypeByte(t) \in 1 .. 6 /\ TypeOf[TypeByte(t)] = t
<1>1. DOMAIN TypeOf = 1 .. 6  BY DEF TypeOf
<1>2. \A b \in 1 .. 6 : TypeOf[b] \in FrameTypes  BY DEF TypeOf, FrameTypes
<1>3. \A t \in FrameTypes : \E b \in 1 .. 6 : TypeOf[b] = t
  <2> TAKE t \in FrameTypes
  <2>1. TypeOf[1] = "HELLO" /\ TypeOf[2] = "HELLO_ACK" /\ TypeOf[3] = "DATA"
        /\ TypeOf[4] = "ACK" /\ TypeOf[5] = "CANCEL" /\ TypeOf[6] = "BEACON"  BY DEF TypeOf
  <2>2. /\ 1 \in 1 .. 6 /\ 2 \in 1 .. 6 /\ 3 \in 1 .. 6
        /\ 4 \in 1 .. 6 /\ 5 \in 1 .. 6 /\ 6 \in 1 .. 6
    OBVIOUS
  <2> QED BY <2>1, <2>2, Zenon DEF FrameTypes
<1>4. \A b, c \in 1 .. 6 : TypeOf[b] = TypeOf[c] => b = c  BY DEF TypeOf
<1>5. \A t \in FrameTypes : TypeByte(t) \in 1 .. 6 /\ TypeOf[TypeByte(t)] = t
  BY <1>3 DEF TypeByte
<1>6. \A b \in 1 .. 6 : TypeByte(TypeOf[b]) = b  BY <1>2, <1>4, <1>5
<1> QED BY <1>1, <1>2, <1>5, <1>6

\* The fields of a frame and their widths.
LEMMA FrameFields ==
  ASSUME NEW f \in WireFrame
  PROVE  /\ f.type \in FrameTypes /\ f.session_id \in Uint32 /\ f.message_id \in Uint16
         /\ f.sequence \in Uint16 /\ f.value \in Uint16 /\ f.length \in 0 .. 44
         /\ f.flag \in BOOLEAN /\ f.payload \in [0 .. f.length - 1 -> Byte] /\ validate(f)
         /\ f = [type |-> f.type, session_id |-> f.session_id, message_id |-> f.message_id,
                 sequence |-> f.sequence, value |-> f.value, length |-> f.length,
                 flag |-> f.flag, payload |-> f.payload]
<1>1. PICK n \in 0 .. 44 :
        /\ f \in [type : FrameTypes, session_id : Uint32, message_id : Uint16,
                 sequence : Uint16, value : Uint16, length : {n}, flag : BOOLEAN,
                 payload : [0 .. n - 1 -> Byte]]
        /\ validate(f)
  BY WireSizesHold DEF WireFrame, WireSizes
<1>2. f.length = n  BY <1>1
<1> QED BY <1>1, <1>2

\* Where kal_frame_encode puts them.
LEMMA HeaderBytes ==
  ASSUME NEW f \in WireFrame
  PROVE  LET h == header_bytes(f) IN
         /\ h[0] = 75 /\ h[1] = 65 /\ h[2] = 1 /\ h[3] = TypeByte(f.type)
         /\ \A i \in 1 .. 4 : h[i + 3] = put_u32_be(f.session_id)[i]
         /\ h[8] = put_u16_be(f.message_id)[1] /\ h[9] = put_u16_be(f.message_id)[2]
         /\ h[10] = put_u16_be(f.sequence)[1] /\ h[11] = put_u16_be(f.sequence)[2]
         /\ h[12] = put_u16_be(f.value)[1] /\ h[13] = put_u16_be(f.value)[2]
         /\ h[14] = f.length /\ h[15] = IF f.flag THEN 1 ELSE 0
  BY WireSizesHold DEF header_bytes, WireSizes

\* The 64 bytes kal_frame_encode writes.
LEMMA EncodedBytes ==
  ASSUME NEW f \in WireFrame
  PROVE  LET w == kal_frame_encode(f) IN
         /\ w = [i \in 0 .. 63 |-> w[i]]
         /\ \A i \in 0 .. 15 : w[i] = header_bytes(f)[i]
         /\ \A i \in 0 .. f.length - 1 : w[i + 16] = f.payload[i]
         /\ \A i \in 16 + f.length .. 59 : w[i] = 0
         /\ [i \in 0 .. 59 |-> w[i]] = covered_bytes(f)
         /\ \A i \in 1 .. 4 : w[i + 59] = put_u32_be(kal_crc32c(covered_bytes(f)))[i]
<1> DEFINE w == kal_frame_encode(f)
<1>1. f.length \in 0 .. 44 /\ validate(f)  BY FrameFields
<1>2. w = [i \in 0 .. 63 |-> IF i < 60 THEN covered_bytes(f)[i]
                             ELSE put_u32_be(kal_crc32c(covered_bytes(f)))[i - 59]]
  BY <1>1, WireSizesHold, \A i \in 0 .. 63 : i - 60 + 1 = i - 59 DEF kal_frame_encode, WireSizes
<1>3. covered_bytes(f) = [i \in 0 .. 59 |-> IF i < 16 THEN header_bytes(f)[i]
                                  ELSE IF i < 16 + f.length THEN f.payload[i - 16] ELSE 0]
  BY WireSizesHold DEF covered_bytes, WireSizes
<1> HIDE DEF w
<1>4. \A i \in 0 .. 59 : w[i] = covered_bytes(f)[i]  BY <1>2
<1>5. \A i \in 0 .. 15 : w[i] = header_bytes(f)[i]  BY <1>3, <1>4
<1>6. \A i \in 0 .. f.length - 1 : w[i + 16] = f.payload[i]
  <2> TAKE i \in 0 .. f.length - 1
  <2>1. i + 16 \in 0 .. 59 /\ i + 16 < 16 + f.length /\ ~(i + 16 < 16) /\ i + 16 - 16 = i  BY <1>1
  <2> QED BY <1>3, <1>4, <2>1
<1>7. \A i \in 16 + f.length .. 59 : w[i] = 0
  <2> TAKE i \in 16 + f.length .. 59
  <2>1. i \in 0 .. 59 /\ ~(i < 16 + f.length) /\ ~(i < 16)  BY <1>1
  <2> QED BY <1>3, <1>4, <2>1
<1>8. [i \in 0 .. 59 |-> w[i]] = covered_bytes(f)  BY <1>3, <1>4
<1>9. \A i \in 1 .. 4 : w[i + 59] = put_u32_be(kal_crc32c(covered_bytes(f)))[i]
  <2> TAKE i \in 1 .. 4
  <2>1. i + 59 \in 0 .. 63 /\ ~(i + 59 < 60) /\ i + 59 - 59 = i  OBVIOUS
  <2> QED BY <1>2, <2>1
<1> QED BY <1>2, <1>5, <1>6, <1>7, <1>8, <1>9 DEF w

\* kal_crc32c returns a uint32_t.
CrcInRange == \A s \in CoveredBytes : kal_crc32c(s) \in Uint32

\* What the CRC is computed from are 60 bytes.
LEMMA BodyBytes ==
  ASSUME NEW f \in WireFrame
  PROVE  covered_bytes(f) \in CoveredBytes
<1> DEFINE h == header_bytes(f)
<1>0. f.length \in 0 .. 44  BY FrameFields
<1>1. /\ f.type \in FrameTypes /\ f.session_id \in Uint32 /\ f.message_id \in Uint16
      /\ f.sequence \in Uint16 /\ f.value \in Uint16 /\ f.length \in 0 .. 44
      /\ f.payload \in [0 .. f.length - 1 -> Byte]
  BY FrameFields
<1>2. \A i \in 1 .. 4 : put_u32_be(f.session_id)[i] \in Byte  BY <1>1, Put32
<1>3. \A v \in Uint16 : put_u16_be(v)[1] \in Byte /\ put_u16_be(v)[2] \in Byte
  BY Put16 DEF put_u16_be
<1>4. TypeByte(f.type) \in 1 .. 6  BY <1>1, TypeBytes
<1>5. h[0] \in Byte /\ h[1] \in Byte /\ h[2] \in Byte /\ h[3] \in Byte
  BY <1>4, HeaderBytes DEF Byte
<1>6. h[4] \in Byte /\ h[5] \in Byte /\ h[6] \in Byte /\ h[7] \in Byte
  <2>1. \A i \in 1 .. 4 : h[i + 3] \in Byte  BY <1>2, HeaderBytes
  <2>2. h[1 + 3] \in Byte /\ h[2 + 3] \in Byte /\ h[3 + 3] \in Byte /\ h[4 + 3] \in Byte  BY <2>1
  <2> QED BY <2>2
<1>7. /\ h[8] \in Byte /\ h[9] \in Byte /\ h[10] \in Byte
      /\ h[11] \in Byte /\ h[12] \in Byte /\ h[13] \in Byte
  BY <1>1, <1>3, HeaderBytes
<1>8. h[14] \in Byte /\ h[15] \in Byte
  <2>1. f.length \in 0 .. 44  BY <1>1
  <2>2. h[14] = f.length /\ h[15] = IF f.flag THEN 1 ELSE 0  BY HeaderBytes
  <2> HIDE DEF h
  <2> QED BY <2>1, <2>2 DEF Byte
<1> HIDE DEF h
<1>9. \A i \in 0 .. 15 : h[i] \in Byte
  <2> TAKE i \in 0 .. 15
  <2>1. i = 0 \/ i = 1 \/ i = 2 \/ i = 3 \/ i = 4 \/ i = 5 \/ i = 6 \/ i = 7 \/ i = 8 \/ i = 9
        \/ i = 10 \/ i = 11 \/ i = 12 \/ i = 13 \/ i = 14 \/ i = 15  OBVIOUS
  <2> QED BY <2>1, <1>5, <1>6, <1>7, <1>8
<1>10. \A i \in 0 .. 59 : (IF i < 16 THEN h[i]
                           ELSE IF i < 16 + f.length THEN f.payload[i - 16] ELSE 0) \in Byte
  <2> TAKE i \in 0 .. 59
  <2>1. CASE i < 16  BY <2>1, <1>9
  <2>2. CASE ~(i < 16) /\ i < 16 + f.length
    <3>1. f.length \in Nat  BY <1>0
    <3>2. i - 16 \in 0 .. f.length - 1  BY <2>2, <3>1
    <3> QED BY <1>1, <2>2, <3>2
  <2>3. CASE ~(i < 16) /\ ~(i < 16 + f.length)  BY <2>3 DEF Byte
  <2> QED BY <2>1, <2>2, <2>3
<1> QED BY <1>10, WireSizesHold DEF CoveredBytes, covered_bytes, h, WireSizes

\* kal_frame_decode returns the frame kal_frame_encode was given, every field and every
\* byte of the payload, for every canonical frame.
THEOREM DecodesWhatWasEncoded ==
  ASSUME CrcInRange, NEW f \in WireFrame
  PROVE  kal_frame_decode(kal_frame_encode(f)) = f
<1> DEFINE w == kal_frame_encode(f)
           crc == kal_crc32c(covered_bytes(f))
<1>1. /\ f.type \in FrameTypes /\ f.session_id \in Uint32 /\ f.message_id \in Uint16
      /\ f.sequence \in Uint16 /\ f.value \in Uint16 /\ f.length \in 0 .. 44
      /\ f.flag \in BOOLEAN /\ f.payload \in [0 .. f.length - 1 -> Byte] /\ validate(f)
  BY FrameFields
<1>2. /\ \A i \in 0 .. 15 : w[i] = header_bytes(f)[i]
      /\ \A i \in 0 .. f.length - 1 : w[i + 16] = f.payload[i]
      /\ \A i \in 16 + f.length .. 59 : w[i] = 0
      /\ [i \in 0 .. 59 |-> w[i]] = covered_bytes(f)
      /\ \A i \in 1 .. 4 : w[i + 59] = put_u32_be(crc)[i]
  BY EncodedBytes
<1> HIDE DEF w
<1>3. /\ w[0] = 75 /\ w[1] = 65 /\ w[2] = 1 /\ w[3] = TypeByte(f.type)
      /\ w[8] = put_u16_be(f.message_id)[1] /\ w[9] = put_u16_be(f.message_id)[2]
      /\ w[10] = put_u16_be(f.sequence)[1] /\ w[11] = put_u16_be(f.sequence)[2]
      /\ w[12] = put_u16_be(f.value)[1] /\ w[13] = put_u16_be(f.value)[2]
      /\ w[14] = f.length /\ w[15] = IF f.flag THEN 1 ELSE 0
  BY <1>2, HeaderBytes
<1>4. \A i \in 1 .. 4 : w[i + 3] = put_u32_be(f.session_id)[i]
  BY <1>2, HeaderBytes, \A i \in 1 .. 4 : i + 3 \in 0 .. 15
<1>5. get_u32_be(w, 4) = f.session_id
  <2>1. /\ w[1 + 3] = put_u32_be(f.session_id)[1] /\ w[2 + 3] = put_u32_be(f.session_id)[2]
        /\ w[3 + 3] = put_u32_be(f.session_id)[3] /\ w[4 + 3] = put_u32_be(f.session_id)[4]
    BY <1>4
  <2>2. 1 + 3 = 4 /\ 2 + 3 = 4 + 1 /\ 3 + 3 = 4 + 2 /\ 4 + 3 = 4 + 3  OBVIOUS
  <2> QED BY <1>1, <2>1, <2>2, Put32 DEF get_u32_be
<1>6. crc \in Uint32  BY BodyBytes DEF CrcInRange
<1>7. get_u32_be(w, 60) = crc
  <2>1. /\ w[1 + 59] = put_u32_be(crc)[1] /\ w[2 + 59] = put_u32_be(crc)[2]
        /\ w[3 + 59] = put_u32_be(crc)[3] /\ w[4 + 59] = put_u32_be(crc)[4]
    BY <1>2
  <2>2. 1 + 59 = 60 /\ 2 + 59 = 60 + 1 /\ 3 + 59 = 60 + 2 /\ 4 + 59 = 60 + 3  OBVIOUS
  <2> QED BY <1>6, <2>1, <2>2, Put32 DEF get_u32_be
<1>8. \A v \in Uint16 : v = put_u16_be(v)[1] * 256 + put_u16_be(v)[2]  BY Put16 DEF put_u16_be
<1>9. /\ get_u16_be(w, 8) = f.message_id /\ get_u16_be(w, 10) = f.sequence
      /\ get_u16_be(w, 12) = f.value
  <2>1. 8 + 1 = 9 /\ 10 + 1 = 11 /\ 12 + 1 = 13  OBVIOUS
  <2> QED BY <1>1, <1>3, <1>8, <2>1 DEF get_u16_be
<1>10. w[3] \in DOMAIN TypeOf /\ TypeOf[w[3]] = f.type  BY <1>1, <1>3, TypeBytes
<1>11. w[15] \in {0, 1} /\ (w[15] = 1) = f.flag  BY <1>1, <1>3
<1>12. [i \in 0 .. f.length - 1 |-> w[i + 16]] = f.payload  BY <1>1, <1>2
<1>13. candidate(w) = f
  <2>1. candidate(w) = [type |-> f.type, session_id |-> f.session_id, message_id |-> f.message_id,
                        sequence |-> f.sequence, value |-> f.value, length |-> f.length,
                        flag |-> f.flag, payload |-> f.payload]
    <3>1. w[14] = f.length /\ TypeOf[w[3]] = f.type  BY <1>3, <1>10
    <3>2. [i \in 0 .. f.length - 1 |-> w[i + KAL_HEADER_BYTES]] = f.payload
      BY <1>12, WireSizesHold DEF WireSizes
    <3> QED BY <1>5, <1>9, <1>11, <3>1, <3>2, Zenon DEF candidate
  <2> QED BY <2>1, FrameFields
<1>14. padding_is_zero(w, w[14])  BY <1>2, <1>3, WireSizesHold DEF padding_is_zero, WireSizes
<1>15. kal_crc32c([i \in 0 .. KAL_BODY_BYTES - 1 |-> w[i]]) = get_u32_be(w, KAL_BODY_BYTES)
  BY <1>2, <1>7, WireSizesHold DEF WireSizes
<1>16. w[14] =< KAL_PAYLOAD_BYTES
  <2>1. f.length \in 0 .. 44 /\ w[14] = f.length  BY <1>1, <1>3
  <2> QED BY <2>1, WireSizesHold DEF WireSizes
<1>17. kal_frame_decode(w) = f
  BY <1>1, <1>3, <1>10, <1>11, <1>13, <1>14, <1>15, <1>16 DEF kal_frame_decode
<1> QED BY <1>17 DEF w

\* The comment on validate, "one application state has exactly one legal encoding": 64
\* bytes that are decoded are canonical and the ones kal_frame_encode writes for that
\* frame, so no two inputs are decoded as the same frame.
THEOREM OneEncoding ==
  ASSUME NEW w \in WireBytes, kal_frame_decode(w) # Rejected
  PROVE  /\ kal_frame_decode(w) \in WireFrame
         /\ kal_frame_encode(kal_frame_decode(w)) = w
<1> DEFINE f == candidate(w)
           crc == kal_crc32c([i \in 0 .. 59 |-> w[i]])
<1>1. /\ w[0] = 75 /\ w[1] = 65 /\ w[2] = 1
      /\ crc = get_u32_be(w, 60)
      /\ w[14] =< KAL_PAYLOAD_BYTES
      /\ padding_is_zero(w, w[14])
      /\ w[3] \in DOMAIN TypeOf
      /\ w[15] \in {0, 1}
      /\ validate(f)
      /\ kal_frame_decode(w) = f
  BY WireSizesHold DEF kal_frame_decode, WireSizes
<1>2. \A i \in 0 .. 63 : w[i] \in Byte  BY WireSizesHold DEF WireBytes, WireSizes
<1>3. w[14] \in 0 .. 44
  <2>1. w[14] \in Byte  BY <1>2
  <2> QED BY <1>1, <2>1, WireSizesHold DEF WireSizes, Byte
<1>4. /\ f.type = TypeOf[w[3]] /\ f.session_id = get_u32_be(w, 4)
      /\ f.message_id = get_u16_be(w, 8) /\ f.sequence = get_u16_be(w, 10)
      /\ f.value = get_u16_be(w, 12) /\ f.length = w[14] /\ f.flag = (w[15] = 1)
      /\ f.payload = [i \in 0 .. w[14] - 1 |-> w[i + KAL_HEADER_BYTES]]
  BY DEF candidate
<1>5. f = [type |-> f.type, session_id |-> f.session_id, message_id |-> f.message_id,
           sequence |-> f.sequence, value |-> f.value, length |-> f.length,
           flag |-> f.flag, payload |-> f.payload]
  BY DEF candidate
<1>6. f.type \in FrameTypes /\ TypeByte(f.type) = w[3]
  <2>1. w[3] \in 1 .. 6  BY <1>1, TypeBytes
  <2> QED BY <1>4, <2>1, TypeBytes
<1>7. /\ f.session_id \in Uint32
      /\ put_u32_be(f.session_id) = <<w[4], w[5], w[6], w[7]>>
  <2>1. w[4] \in Byte /\ w[5] \in Byte /\ w[6] \in Byte /\ w[7] \in Byte  BY <1>2
  <2>2. 4 + 1 = 5 /\ 4 + 2 = 6 /\ 4 + 3 = 7  OBVIOUS
  <2>3. /\ get_u32_be(w, 4) \in Uint32
        /\ put_u32_be(get_u32_be(w, 4)) = <<w[4], w[5], w[6], w[7]>>
    BY <2>1, <2>2, Get32
  <2> QED BY <1>4, <2>3
<1>8. put_u32_be(crc) = <<w[60], w[61], w[62], w[63]>>
  <2>1. w[60] \in Byte /\ w[61] \in Byte /\ w[62] \in Byte /\ w[63] \in Byte  BY <1>2
  <2>2. 60 + 1 = 61 /\ 60 + 2 = 62 /\ 60 + 3 = 63  OBVIOUS
  <2>3. put_u32_be(get_u32_be(w, 60)) = <<w[60], w[61], w[62], w[63]>>
    BY <2>1, <2>2, Get32
  <2> QED BY <1>1, <2>3
<1>9. /\ f.message_id \in Uint16 /\ put_u16_be(f.message_id) = <<w[8], w[9]>>
      /\ f.sequence \in Uint16 /\ put_u16_be(f.sequence) = <<w[10], w[11]>>
      /\ f.value \in Uint16 /\ put_u16_be(f.value) = <<w[12], w[13]>>
  <2>1. w[8] \in Byte /\ w[9] \in Byte /\ w[10] \in Byte /\ w[11] \in Byte
        /\ w[12] \in Byte /\ w[13] \in Byte  BY <1>2
  <2>2. /\ f.message_id = w[8] * 256 + w[9] /\ f.sequence = w[10] * 256 + w[11]
        /\ f.value = w[12] * 256 + w[13]
    BY <1>4, 8 + 1 = 9, 10 + 1 = 11, 12 + 1 = 13 DEF get_u16_be
  <2> QED BY <2>1, <2>2, Get16 DEF put_u16_be
<1>10. f.length \in 0 .. 44 /\ f.flag \in BOOLEAN  BY <1>3, <1>4
<1>11. /\ f.payload \in [0 .. w[14] - 1 -> Byte]
       /\ \A i \in 0 .. w[14] - 1 : f.payload[i] = w[i + 16]
  <2>1. \A i \in 0 .. w[14] - 1 : i + 16 \in 0 .. 63  BY <1>3
  <2> QED BY <1>2, <1>4, <2>1, WireSizesHold DEF WireSizes
<1> HIDE DEF f
<1>12. f \in WireFrame
  <2>1. f \in [type : FrameTypes, session_id : Uint32, message_id : Uint16,
                sequence : Uint16, value : Uint16, length : {w[14]}, flag : BOOLEAN,
                payload : [0 .. w[14] - 1 -> Byte]]
    BY <1>4, <1>5, <1>6, <1>7, <1>9, <1>10, <1>11
  <2>2. w[14] \in 0 .. KAL_PAYLOAD_BYTES  BY <1>3, WireSizesHold DEF WireSizes
  <2> QED BY <1>1, <2>1, <2>2 DEF WireFrame
<1> DEFINE v == kal_frame_encode(f)
<1>13. /\ v = [i \in 0 .. 63 |-> v[i]]
       /\ \A i \in 0 .. 15 : v[i] = header_bytes(f)[i]
       /\ \A i \in 0 .. f.length - 1 : v[i + 16] = f.payload[i]
       /\ \A i \in 16 + f.length .. 59 : v[i] = 0
       /\ [i \in 0 .. 59 |-> v[i]] = covered_bytes(f)
       /\ \A i \in 1 .. 4 : v[i + 59] = put_u32_be(kal_crc32c(covered_bytes(f)))[i]
  BY <1>12, EncodedBytes
<1> HIDE DEF v
<1>14. \A i \in 0 .. 15 : v[i] = w[i]
  <2> TAKE i \in 0 .. 15
  <2>1. /\ v[0] = 75 /\ v[1] = 65 /\ v[2] = 1 /\ v[3] = w[3]
        /\ v[8] = w[8] /\ v[9] = w[9] /\ v[10] = w[10] /\ v[11] = w[11] /\ v[12] = w[12]
        /\ v[13] = w[13] /\ v[14] = w[14] /\ v[15] = IF f.flag THEN 1 ELSE 0
    <3>1. /\ v[0] = 75 /\ v[1] = 65 /\ v[2] = 1 /\ v[3] = TypeByte(f.type)
          /\ v[8] = put_u16_be(f.message_id)[1] /\ v[9] = put_u16_be(f.message_id)[2]
          /\ v[10] = put_u16_be(f.sequence)[1] /\ v[11] = put_u16_be(f.sequence)[2]
          /\ v[12] = put_u16_be(f.value)[1] /\ v[13] = put_u16_be(f.value)[2]
          /\ v[14] = f.length /\ v[15] = IF f.flag THEN 1 ELSE 0
      BY <1>12, <1>13, HeaderBytes
    <3>2. v[3] = w[3] /\ v[14] = w[14]  BY <1>4, <1>6, <3>1
    <3>3. v[8] = w[8] /\ v[9] = w[9]  BY <1>9, <3>1
    <3>4. v[10] = w[10] /\ v[11] = w[11]  BY <1>9, <3>1
    <3>5. v[12] = w[12] /\ v[13] = w[13]  BY <1>9, <3>1
    <3> QED BY <3>1, <3>2, <3>3, <3>4, <3>5
  <2>2. \A j \in 1 .. 4 : v[j + 3] = put_u32_be(f.session_id)[j]
    BY <1>12, <1>13, HeaderBytes, \A j \in 1 .. 4 : j + 3 \in 0 .. 15
  <2>3. v[1 + 3] = w[4] /\ v[2 + 3] = w[5] /\ v[3 + 3] = w[6] /\ v[4 + 3] = w[7]  BY <1>7, <2>2
  <2>4. v[4] = w[4] /\ v[5] = w[5] /\ v[6] = w[6] /\ v[7] = w[7]  BY <2>3
  <2>5. v[15] = w[15]
    <3>1. CASE w[15] = 1
      <4>1. f.flag  BY <1>4, <3>1
      <4> QED BY <2>1, <3>1, <4>1
    <3>2. CASE w[15] = 0
      <4>1. ~(w[15] = 1)  BY <3>2
      <4>2. f.flag = (w[15] = 1)  BY <1>4
      <4>3. ~f.flag  BY <4>1, <4>2
      <4> QED BY <2>1, <3>2, <4>3
    <3> QED BY <1>1, <3>1, <3>2
  <2>6. i = 0 \/ i = 1 \/ i = 2 \/ i = 3 \/ i = 4 \/ i = 5 \/ i = 6 \/ i = 7 \/ i = 8 \/ i = 9
        \/ i = 10 \/ i = 11 \/ i = 12 \/ i = 13 \/ i = 14 \/ i = 15  OBVIOUS
  <2> QED BY <1>1, <2>1, <2>4, <2>5, <2>6
<1>15. \A i \in 16 .. 59 : v[i] = w[i]
  <2> TAKE i \in 16 .. 59
  <2>1. f.length \in 0 .. 44 /\ f.length = w[14]  BY <1>4, <1>10
  <2>2. CASE i < 16 + f.length
    <3>1. i - 16 \in 0 .. f.length - 1 /\ i - 16 + 16 = i  BY <2>1, <2>2
    <3>2. v[i - 16 + 16] = f.payload[i - 16] /\ f.payload[i - 16] = w[i - 16 + 16]
      BY <1>11, <1>13, <2>1, <3>1
    <3> QED BY <3>1, <3>2
  <2>3. CASE ~(i < 16 + f.length)
    <3>1. i \in 16 + f.length .. 59  BY <2>1, <2>3
    <3>2. v[i] = 0  BY <1>13, <3>1
    <3>3. w[i] = 0  BY <1>1, <2>1, <3>1, WireSizesHold DEF padding_is_zero, WireSizes
    <3> QED BY <3>2, <3>3
  <2> QED BY <2>2, <2>3
<1>16. \A i \in 0 .. 59 : v[i] = w[i]
  <2> TAKE i \in 0 .. 59
  <2>1. i \in 0 .. 15 \/ i \in 16 .. 59  OBVIOUS
  <2> QED BY <1>14, <1>15, <2>1
<1>17. kal_crc32c(covered_bytes(f)) = crc
  <2>1. covered_bytes(f) = [i \in 0 .. 59 |-> w[i]]  BY <1>13, <1>16
  <2> QED BY <2>1
<1> HIDE DEF crc
<1>18. \A i \in 60 .. 63 : v[i] = w[i]
  <2> TAKE i \in 60 .. 63
  <2>1. \A j \in 1 .. 4 : v[j + 59] = <<w[60], w[61], w[62], w[63]>>[j]  BY <1>8, <1>13, <1>17
  <2>2. v[1 + 59] = w[60] /\ v[2 + 59] = w[61] /\ v[3 + 59] = w[62] /\ v[4 + 59] = w[63]  BY <2>1
  <2>3. v[60] = w[60] /\ v[61] = w[61] /\ v[62] = w[62] /\ v[63] = w[63]  BY <2>2
  <2>4. i = 60 \/ i = 61 \/ i = 62 \/ i = 63  OBVIOUS
  <2> QED BY <2>3, <2>4
<1>19. \A i \in 0 .. 63 : v[i] = w[i]
  <2> TAKE i \in 0 .. 63
  <2>1. i \in 0 .. 59 \/ i \in 60 .. 63  OBVIOUS
  <2> QED BY <1>16, <1>18, <2>1
<1>20. w = [i \in 0 .. 63 |-> w[i]]  BY WireSizesHold DEF WireBytes, WireSizes
<1>21. v = w  BY <1>13, <1>19, <1>20
<1> QED BY <1>1, <1>12, <1>21 DEF v
=============================================================================
