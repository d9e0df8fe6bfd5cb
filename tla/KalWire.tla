------------------------------ MODULE KalWire -------------------------------
(***************************************************************************)
(* A KAL1 frame on the wire (src/kal_frame.c): 64 bytes, of which 16 are   *)
(* the header, up to 44 the payload, zeros up to the 60th, and the last    *)
(* four a CRC-32C of the 60 before.  A frame is a record with the fields   *)
(* KalFrame validates, the two ids and the bytes of its payload.           *)
(***************************************************************************)
EXTENDS KalFrame

CONSTANT kal_crc32c(_)  \* the CRC-32C of 60 bytes, as some function of them

KAL_HEADER_BYTES == 16
KAL_BODY_BYTES   == 60
KAL_FRAME_BYTES  == 64

Byte == 0 .. 255
Uint16 == {v \in Nat : v \div 256 \in Byte}
Uint32 == {v \in Nat : (v \div 256) \div 256 \in Uint16}

CoveredBytes == [0 .. KAL_BODY_BYTES - 1 -> Byte]
WireBytes == [0 .. KAL_FRAME_BYTES - 1 -> Byte]

\* KAL_TYPE_HELLO to KAL_TYPE_BEACON are the bytes 1 to 6.
TypeOf == <<"HELLO", "HELLO_ACK", "DATA", "ACK", "CANCEL", "BEACON">>
TypeByte(type) == CHOOSE b \in 1 .. 6 : TypeOf[b] = type

\* What is not a frame.
Rejected == [type |-> "NONE"]

\* Every frame kal_frame_encode takes.
WireFrame ==
  {f \in UNION {[type : FrameTypes, session_id : Uint32, message_id : Uint16,
                 sequence : Uint16, value : Uint16, length : {n}, flag : BOOLEAN,
                 payload : [0 .. n - 1 -> Byte]] : n \in 0 .. KAL_PAYLOAD_BYTES} : validate(f)}

----------------------------------------------------------------------------
(* Numbers, most significant byte first.                                   *)

low_byte(v) == v % 256
high_bytes(v) == v \div 256

put_u16_be(v) == <<low_byte(high_bytes(v)), low_byte(v)>>

put_u32_be(v) ==
  <<low_byte(high_bytes(high_bytes(high_bytes(v)))), low_byte(high_bytes(high_bytes(v))),
    low_byte(high_bytes(v)), low_byte(v)>>

get_u16_be(w, i) == w[i] * 256 + w[i + 1]

get_u32_be(w, i) == ((w[i] * 256 + w[i + 1]) * 256 + w[i + 2]) * 256 + w[i + 3]

----------------------------------------------------------------------------

header_bytes(f) ==
  [i \in 0 .. KAL_HEADER_BYTES - 1 |->
     CASE i = 0          -> 75  \* 'K'
       [] i = 1          -> 65  \* 'A'
       [] i = 2          -> 1   \* KAL_WIRE_VERSION
       [] i = 3          -> TypeByte(f.type)
       [] i \in 4 .. 7   -> put_u32_be(f.session_id)[i - 3]
       [] i \in 8 .. 9   -> put_u16_be(f.message_id)[i - 7]
       [] i \in 10 .. 11 -> put_u16_be(f.sequence)[i - 9]
       [] i \in 12 .. 13 -> put_u16_be(f.value)[i - 11]
       [] i = 14         -> f.length
       [] i = 15         -> IF f.flag THEN 1 ELSE 0]

\* What the CRC covers.
covered_bytes(f) ==
  [i \in 0 .. KAL_BODY_BYTES - 1 |->
     IF i < KAL_HEADER_BYTES THEN header_bytes(f)[i]
     ELSE IF i < KAL_HEADER_BYTES + f.length THEN f.payload[i - KAL_HEADER_BYTES]
     ELSE 0]

kal_frame_encode(f) ==
  IF ~validate(f) THEN Rejected
  ELSE [i \in 0 .. KAL_FRAME_BYTES - 1 |->
          IF i < KAL_BODY_BYTES THEN covered_bytes(f)[i]
          ELSE put_u32_be(kal_crc32c(covered_bytes(f)))[i - KAL_BODY_BYTES + 1]]

padding_is_zero(w, length) ==
  \A i \in KAL_HEADER_BYTES + length .. KAL_BODY_BYTES - 1 : w[i] = 0

candidate(w) ==
  [type |-> TypeOf[w[3]],
   session_id |-> get_u32_be(w, 4), message_id |-> get_u16_be(w, 8),
   sequence |-> get_u16_be(w, 10), value |-> get_u16_be(w, 12),
   length |-> w[14], flag |-> (w[15] = 1),
   payload |-> [i \in 0 .. w[14] - 1 |-> w[i + KAL_HEADER_BYTES]]]

\* 64 bytes came in.  A type that is none and a flag other than bit 0 fail validate.
kal_frame_decode(w) ==
  IF /\ w[0] = 75 /\ w[1] = 65 /\ w[2] = 1
     /\ kal_crc32c([i \in 0 .. KAL_BODY_BYTES - 1 |-> w[i]]) = get_u32_be(w, KAL_BODY_BYTES)
     /\ w[14] =< KAL_PAYLOAD_BYTES
     /\ padding_is_zero(w, w[14])
     /\ w[3] \in DOMAIN TypeOf
     /\ w[15] \in {0, 1}
     /\ validate(candidate(w))
  THEN candidate(w) ELSE Rejected
=============================================================================
