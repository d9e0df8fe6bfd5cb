------------------------------ MODULE KalFrame ------------------------------
(***************************************************************************)
(* The KAL1 frame as the protocol sees it (src/kal_frame.h, kal_frame.c):  *)
(* the wire constants, the capability word, the number of DATA segments of *)
(* a message, and the canonical-form rules every frame must satisfy before *)
(* it is queued and after it is decoded.  The bytes are in KalWire; to the *)
(* session layer a damaged frame is one the receiver never sees.           *)
(***************************************************************************)
EXTENDS Integers

KAL_PAYLOAD_BYTES     == 44
KAL_DIGEST_BYTES      == 32
KAL_CHALLENGE_BYTES   == 16
KAL_MAX_SEGMENTS      == 94
KAL_MAX_MESSAGE_BYTES == 4096
KAL_MAX_BEACON_BYTES  == 44
KAL_MIN_WINDOW_FRAMES == 1
KAL_MAX_WINDOW_FRAMES == 16
KAL_PROFILE_COUNT     == 6
KAL_CANCEL_REASON_MAX == 4
KAL_ACK_BITS          == 16

FrameTypes == {"HELLO", "HELLO_ACK", "DATA", "ACK", "CANCEL", "BEACON"}

----------------------------------------------------------------------------
(* The capability word: (profile << 8) | window_frames, a uint16.          *)

kal_capability_pack(profile, window) == (profile * 256 + (window % 256)) % 65536

kal_capability_profile(capability) == capability \div 256

kal_capability_window(capability) == capability % 256

clamp_window(requested) ==
  IF requested < KAL_MIN_WINDOW_FRAMES THEN KAL_MIN_WINDOW_FRAMES
  ELSE IF requested > KAL_MAX_WINDOW_FRAMES THEN KAL_MAX_WINDOW_FRAMES
  ELSE requested

----------------------------------------------------------------------------
(* The digest is segmented with the message: the transfer is message ||    *)
(* SHA-256(message).  0 stands for KAL_WIRE_ERR_RANGE.                     *)

kal_segment_count(bytes) ==
  IF bytes > KAL_MAX_MESSAGE_BYTES THEN 0
  ELSE LET n == (bytes + KAL_DIGEST_BYTES + KAL_PAYLOAD_BYTES - 1) \div KAL_PAYLOAD_BYTES
       IN  IF n > KAL_MAX_SEGMENTS THEN 0 ELSE n

----------------------------------------------------------------------------
(* validate: f has fields type, sequence, value, length (of the payload)   *)
(* and flag (bit 0, the only bit version 1 uses).                          *)

ValidHello(f) ==
  /\ ~f.flag
  /\ f.sequence = 0
  /\ f.length = KAL_CHALLENGE_BYTES
  /\ kal_capability_profile(f.value) < KAL_PROFILE_COUNT
  /\ kal_capability_window(f.value) \in KAL_MIN_WINDOW_FRAMES .. KAL_MAX_WINDOW_FRAMES

ValidData(f) ==
  /\ f.value \in 1 .. KAL_MAX_SEGMENTS
  /\ f.sequence < f.value
  /\ f.flag <=> f.sequence = f.value - 1
  /\ IF f.flag THEN f.length # 0 ELSE f.length = KAL_PAYLOAD_BYTES

ValidAck(f) ==
  /\ f.sequence =< KAL_MAX_SEGMENTS
  /\ f.length = 0
  /\ f.flag => f.sequence # 0 /\ f.value = 0

ValidCancel(f) ==
  /\ ~f.flag
  /\ f.sequence = 0
  /\ f.length = 0
  /\ f.value =< KAL_CANCEL_REASON_MAX

ValidBeacon(f) ==
  /\ ~f.flag
  /\ f.sequence = 0
  /\ f.value = 0
  /\ f.length \in 1 .. KAL_MAX_BEACON_BYTES

validate(f) ==
  /\ f.length =< KAL_PAYLOAD_BYTES
  /\ \/ f.type \in {"HELLO", "HELLO_ACK"} /\ ValidHello(f)
     \/ f.type = "DATA" /\ ValidData(f)
     \/ f.type = "ACK" /\ ValidAck(f)
     \/ f.type = "CANCEL" /\ ValidCancel(f)
     \/ f.type = "BEACON" /\ ValidBeacon(f)
=============================================================================
