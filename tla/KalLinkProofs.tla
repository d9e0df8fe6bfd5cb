--------------------------- MODULE KalLinkProofs ---------------------------
(***************************************************************************)
(* What every operator of KalLink preserves, and the invariants that follow*)
(* for every behavior of Spec and every value of the constants.            *)
(***************************************************************************)
EXTENDS KalLink, KalFrameProofs, FiniteSetTheorems, WellFoundedInduction, SequenceTheorems

----------------------------------------------------------------------------
(* Sets of natural numbers.                                                *)

\* A set of natural numbers that is not empty has a least member.
LEMMA LeastNat ==
  ASSUME NEW T, T \subseteq Nat, T # {}
  PROVE  \E x \in T : \A y \in T : x =< y
<1> DEFINE R == {ss \in Nat \X Nat : ss[1] < ss[2]}
<1>1. IsWellFoundedOn(R, Nat)  BY NatLessThanWellFounded DEF OpToRel
<1>2. \A x, y \in Nat : <<x, y>> \in R <=> x < y  OBVIOUS
<1> HIDE DEF R
<1>3. PICK x \in T : \A y \in T : <<y, x>> \notin R  BY <1>1, WFMin
<1>4. \A y \in T : ~(y < x)  BY <1>2, <1>3
<1>5. \A y \in T : x =< y  BY <1>4
<1> QED  BY <1>5

\* Subsets of an interval are finite, and their cardinalities natural numbers.
LEMMA BoundedFinite ==
  ASSUME NEW m \in Nat, NEW S, S \subseteq 0 .. m
  PROVE  IsFiniteSet(S) /\ Cardinality(S) \in Nat
<1>1. IsFiniteSet(0 .. m)  BY FS_Interval, 0 \in Int, m \in Int
<1>2. S \in SUBSET (0 .. m)  OBVIOUS
<1>3. IsFiniteSet(S)  BY <1>1, <1>2, FS_Subset
<1> QED  BY <1>3, FS_CardinalityType

----------------------------------------------------------------------------
(* The scan loops of first_missing and handle_ack, and the segments         *)
(* queue_window picks.                                                      *)

\* The scan loops of first_missing and handle_ack stop at the first segment that
\* is not in the bitmap, or at the end.
LEMMA FirstOutsideFound ==
  ASSUME NEW S, NEW from \in Nat, NEW to \in Nat, from =< to
  PROVE  LET n == FirstOutside(S, from, to) IN
         /\ n \in from .. to
         /\ n = to \/ n \notin S
         /\ \A s \in from .. n - 1 : s \in S
<1> DEFINE T == {n \in from .. to : n = to \/ n \notin S}
<1>1. T \subseteq Nat /\ to \in T  OBVIOUS
<1>2. PICK x \in T : \A y \in T : x =< y  BY <1>1, LeastNat
<1>3. \A s \in from .. x - 1 : s \in S  BY <1>2
<1> QED  BY <1>2, <1>3 DEF FirstOutside

\* A finite set of naturals has a member of every rank below its size.
LEMMA RankOnto ==
  ASSUME NEW m \in Nat, NEW S, S \subseteq 0 .. m, NEW n \in Nat, n < Cardinality(S)
  PROVE  \E s \in S : Rank(S, s) = n
<1> DEFINE below(t) == {x \in S : x < t}
           T == {t \in Nat : Cardinality(below(t)) > n}
<1>1. \A t \in Nat : IsFiniteSet(below(t)) /\ Cardinality(below(t)) \in Nat
  <2> SUFFICES ASSUME NEW t \in Nat PROVE IsFiniteSet(below(t)) /\ Cardinality(below(t)) \in Nat
    OBVIOUS
  <2>1. below(t) \subseteq 0 .. m  OBVIOUS
  <2> HIDE DEF below
  <2> QED  BY <2>1, BoundedFinite
<1>2. \A s \in S : Rank(S, s) = Cardinality(below(s))  BY DEF Rank
<1>3. /\ \A t \in Nat : below(t) \subseteq S
      /\ \A t, x \in Nat : x \in below(t) <=> x \in S /\ x < t
      /\ \A x \in Nat : x \in S => x =< m
      /\ S \subseteq Nat
  OBVIOUS
<1> HIDE DEF below
<1>4. below(m + 1) = S /\ below(0) = {}
  <2>1. \A x \in Nat : x \in S => x < m + 1  BY <1>3
  <2>2. S \subseteq below(m + 1)  BY <1>3, <2>1
  <2>3. \A x \in Nat : x \notin below(0)  BY <1>3
  <2>4. below(0) = {}  BY <1>3, <2>3
  <2>5. m + 1 \in Nat  OBVIOUS
  <2>6. below(m + 1) \subseteq S  BY <1>3, <2>5
  <2> QED  BY <2>2, <2>4, <2>6
<1>5. \A t, x \in Nat : x \in below(t + 1) <=> x \in S /\ (x < t \/ x = t)
  <2>1. \A t, x \in Nat : x < t + 1 <=> x < t \/ x = t  OBVIOUS
  <2>2. \A t, x \in Nat : x \in below(t + 1) <=> x \in S /\ x < t + 1  BY <1>3
  <2> QED  BY <2>1, <2>2
<1>6. \A t \in Nat : t \in S => below(t + 1) = below(t) \cup {t} /\ t \notin below(t)
  <2> SUFFICES ASSUME NEW t \in Nat, t \in S
               PROVE  below(t + 1) = below(t) \cup {t} /\ t \notin below(t)
    OBVIOUS
  <2>1. \A x \in Nat : x \in below(t + 1) <=> x \in below(t) \/ x = t  BY <1>3, <1>5
  <2>2. t + 1 \in Nat  OBVIOUS
  <2>3. below(t + 1) \subseteq S /\ below(t) \subseteq S  BY <1>3, <2>2
  <2>4. below(t + 1) \subseteq Nat /\ below(t) \subseteq Nat  BY <1>3, <2>3
  <2>5. below(t + 1) = below(t) \cup {t}  BY <2>1, <2>4
  <2> QED  BY <1>3, <2>5
<1>7. \A t \in Nat : t \notin S => below(t + 1) = below(t)
  <2> SUFFICES ASSUME NEW t \in Nat, t \notin S PROVE below(t + 1) = below(t)
    OBVIOUS
  <2>1. \A x \in Nat : x \in below(t + 1) <=> x \in below(t)  BY <1>3, <1>5
  <2>2. t + 1 \in Nat  OBVIOUS
  <2>3. below(t + 1) \subseteq S /\ below(t) \subseteq S  BY <1>3, <2>2
  <2>4. below(t + 1) \subseteq Nat /\ below(t) \subseteq Nat  BY <1>3, <2>3
  <2> QED  BY <2>1, <2>4
<1>8. m + 1 \in T  BY <1>4
<1>9. PICK t \in T : \A u \in T : t =< u
  <2>1. T \subseteq Nat /\ T # {}  BY <1>8
  <2> HIDE DEF T
  <2> QED  BY <2>1, LeastNat
<1>10. t # 0
  <2>1. Cardinality(below(0)) = 0  BY <1>4, FS_EmptySet
  <2> QED  BY <2>1
<1> DEFINE p == t - 1
<1>11. p \in Nat /\ t = p + 1 /\ p \notin T  BY <1>9, <1>10
<1>12. Cardinality(below(p)) =< n /\ Cardinality(below(p + 1)) > n  BY <1>1, <1>11
<1> HIDE DEF p
<1>13. p \in S  BY <1>7, <1>11, <1>12
<1>14. Cardinality(below(p + 1)) = Cardinality(below(p)) + 1
  <2>1. IsFiniteSet(below(p)) /\ p \notin below(p)  BY <1>1, <1>6, <1>11, <1>13
  <2>2. Cardinality(below(p) \cup {p}) = Cardinality(below(p)) + 1  BY <2>1, FS_AddElement
  <2> QED  BY <2>2, <1>6, <1>11, <1>13
<1>15. Cardinality(below(p)) = n  BY <1>1, <1>11, <1>12, <1>14
<1> QED  BY <1>2, <1>13, <1>15

\* The first k members of a set are at most k.
LEMMA FirstFew ==
  ASSUME NEW m \in Nat, NEW S, S \subseteq 0 .. m, NEW k \in Nat,
         NEW B, B \subseteq S, \A s \in B : Rank(S, s) < k
  PROVE  Cardinality(B) =< k
<1>1. IsFiniteSet(S)  BY BoundedFinite
<1>2. Cardinality(B) \in Nat
  <2>1. B \subseteq 0 .. m  OBVIOUS
  <2> QED  BY <2>1, BoundedFinite
<1>3. SUFFICES ASSUME k < Cardinality(B) PROVE FALSE  BY <1>2
<1>4. PICK s \in B : Rank(B, s) = k
  <2>1. B \subseteq 0 .. m  OBVIOUS
  <2> QED  BY <2>1, <1>3, RankOnto
<1> DEFINE inB == {t \in B : t < s}
           inS == {t \in S : t < s}
<1>5. inB \subseteq inS /\ inS \subseteq 0 .. m  OBVIOUS
<1>6. Rank(B, s) = Cardinality(inB) /\ Rank(S, s) = Cardinality(inS)  BY DEF Rank
<1> HIDE DEF inB, inS
<1>7. IsFiniteSet(inS) /\ Cardinality(inS) \in Nat  BY <1>5, BoundedFinite
<1>8. inB \in SUBSET inS  BY <1>5
<1>9. Cardinality(inB) =< Cardinality(inS)  BY <1>7, <1>8, FS_Subset
<1>10. Rank(S, s) < k  OBVIOUS
<1> QED  BY <1>4, <1>6, <1>7, <1>9, <1>10

----------------------------------------------------------------------------
(* What is proved of an end.                                               *)

\* What holds of the state of an end whose application has submitted n messages,
\* all of own, and whose peer's application has submitted messages of theirs.
\* While a reassembly is under way nothing of held waits to be collected: held is
\* Message between two steps, and {} in the middle of a delivery.  What waits, or
\* NoBody, is in stage.
Good(L, own, theirs, n, held, stage) ==
  /\ L \in EndState(own, theirs)
  /\ TxBooks(L.tx)
  /\ Len(L.out_frames) =< OutQueueFrames
  /\ Len(L.dup_cache) =< DupCacheEntries
  /\ L.rx.active => L.delivered \notin held
  /\ L.delivered \in stage
  /\ L.submitted = n

----------------------------------------------------------------------------
(* Frames.                                                                 *)

\* A HELLO or HELLO_ACK is canonical when the capability word it carries was packed
\* from a legal profile and window.
LEMMA HelloCanonical ==
  ASSUME NEW f, f.type \in {"HELLO", "HELLO_ACK"}, f.sequence = 0, ~f.flag,
         NEW p \in 0 .. KAL_PROFILE_COUNT - 1,
         NEW w \in KAL_MIN_WINDOW_FRAMES .. KAL_MAX_WINDOW_FRAMES,
         f.value = kal_capability_pack(p, w)
  PROVE  Canonical(f)
<1> DEFINE g == Wire(f)
<1>1. /\ g.type = f.type /\ g.sequence = 0 /\ ~g.flag /\ g.value = f.value
      /\ g.length = KAL_CHALLENGE_BYTES
  BY DEF Wire
<1>2. p \in 0 .. 255 /\ w \in 0 .. 255
  BY DEF KAL_PROFILE_COUNT, KAL_MIN_WINDOW_FRAMES, KAL_MAX_WINDOW_FRAMES
<1>3. kal_capability_profile(g.value) = p /\ kal_capability_window(g.value) = w
  <2>1. g.value = kal_capability_pack(p, w)  BY <1>1
  <2>2. /\ kal_capability_profile(kal_capability_pack(p, w)) = p
        /\ kal_capability_window(kal_capability_pack(p, w)) = w
    BY <1>2, CapabilityRoundTrip, Zenon
  <2> QED  BY <2>1, <2>2
<1> HIDE DEF g
<1>4. p < KAL_PROFILE_COUNT  BY DEF KAL_PROFILE_COUNT
<1>5. ValidHello(g)  BY <1>1, <1>3, <1>4 DEF ValidHello
<1>6. g.length =< KAL_PAYLOAD_BYTES  BY <1>1 DEF KAL_CHALLENGE_BYTES, KAL_PAYLOAD_BYTES
<1>7. validate(g)  BY <1>1, <1>5, <1>6 DEF validate
<1> QED  BY <1>7 DEF Canonical, g

\* A DATA frame is canonical when it is one of 1 to 94 segments and its flag marks
\* the last.
LEMMA DataCanonical ==
  ASSUME NEW f, f.type = "DATA", NEW n \in 1 .. KAL_MAX_SEGMENTS, NEW s \in 0 .. n - 1,
         f.value = n, f.sequence = s, f.flag <=> s = n - 1
  PROVE  Canonical(f)
<1> DEFINE g == Wire(f)
<1>1. /\ g.type = "DATA" /\ g.sequence = s /\ g.value = n /\ (g.flag <=> s = n - 1)
      /\ g.length = KAL_PAYLOAD_BYTES
  BY DEF Wire
<1> HIDE DEF g
<1>2. n \in 1 .. 94 /\ s < n /\ KAL_MAX_SEGMENTS = 94 /\ KAL_PAYLOAD_BYTES = 44
  BY ConstantsHold DEF Constants
<1>3. g.sequence < g.value /\ (g.flag <=> g.sequence = g.value - 1)  BY <1>1, <1>2
<1>4. g.value \in 1 .. KAL_MAX_SEGMENTS /\ g.length # 0  BY <1>1, <1>2
<1>5. ValidData(g)  BY <1>1, <1>3, <1>4 DEF ValidData
<1>6. g.length =< KAL_PAYLOAD_BYTES  BY <1>1, <1>2
<1>7. validate(g)  BY <1>1, <1>5, <1>6 DEF validate
<1> QED  BY <1>7 DEF Canonical, g

\* An ACK is canonical when its base is within the segments, and a delivered ACK
\* when it names at least one of them and carries no bitmap.
LEMMA AckCanonical ==
  ASSUME NEW f, f.type = "ACK", f.sequence \in 0 .. KAL_MAX_SEGMENTS, f.flag \in BOOLEAN,
         f.flag => f.sequence # 0 /\ f.bitmap = {}
  PROVE  Canonical(f)
<1> DEFINE g == Wire(f)
<1>1. /\ g.type = "ACK" /\ g.sequence = f.sequence /\ g.flag = f.flag
      /\ g.value = Cardinality(f.bitmap) /\ g.length = 0
  BY DEF Wire
<1>2. f.flag => Cardinality(f.bitmap) = 0  BY FS_EmptySet
<1> HIDE DEF g
<1>3. g.sequence =< KAL_MAX_SEGMENTS  BY <1>1
<1>4. g.flag => g.sequence # 0 /\ g.value = 0  BY <1>1, <1>2
<1>5. ValidAck(g)  BY <1>1, <1>3, <1>4 DEF ValidAck
<1>6. g.length =< KAL_PAYLOAD_BYTES  BY <1>1 DEF KAL_PAYLOAD_BYTES
<1>7. validate(g)  BY <1>1, <1>5, <1>6 DEF validate
<1> QED  BY <1>7 DEF Canonical, g

\* A CANCEL, or a BEACON of full length, with every other field zero.
LEMMA PlainCanonical ==
  ASSUME NEW f, f.type \in {"CANCEL", "BEACON"}, f.sequence = 0, ~f.flag, f.value = 0
  PROVE  Canonical(f)
<1> DEFINE g == Wire(f)
<1>1. /\ g.type = f.type /\ g.sequence = 0 /\ ~g.flag /\ g.value = 0
      /\ g.length = IF f.type = "BEACON" THEN KAL_PAYLOAD_BYTES ELSE 0
  BY DEF Wire
<1> HIDE DEF g
<1>2. CASE f.type = "CANCEL"
  <2>1. ValidCancel(g)  BY <1>1, <1>2 DEF ValidCancel, KAL_CANCEL_REASON_MAX
  <2>2. validate(g)  BY <1>1, <1>2, <2>1 DEF validate, KAL_PAYLOAD_BYTES
  <2> QED  BY <2>2 DEF Canonical, g
<1>3. CASE f.type = "BEACON"
  <2>1. ValidBeacon(g)
    BY <1>1, <1>3 DEF ValidBeacon, KAL_PAYLOAD_BYTES, KAL_MAX_BEACON_BYTES
  <2>2. validate(g)  BY <1>1, <1>3, <2>1 DEF validate, KAL_PAYLOAD_BYTES
  <2> QED  BY <2>2 DEF Canonical, g
<1> QED  BY <1>2, <1>3

\* What is left of a canonical DATA frame: a legal number of segments.
LEMMA DataTotal ==
  ASSUME NEW f, Canonical(f), f.type = "DATA" PROVE f.value \in 1 .. KAL_MAX_SEGMENTS
<1> DEFINE g == Wire(f)
<1>1. g.type = "DATA" /\ g.value = f.value  BY DEF Wire
<1>2. validate(g)  BY DEF Canonical
<1> HIDE DEF g
<1>3. ValidData(g)  BY <1>1, <1>2 DEF validate
<1> QED  BY <1>1, <1>3 DEF ValidData

\* A zeroed frame is a frame, of no type.
LEMMA ZeroFrameType == ZeroFrame \in Frame({})
  BY DEF ZeroFrame, Frame, AnyFrame, Body, Canonical

\* What may carry the messages of own may carry those of more.
LEMMA FrameMonotonic ==
  ASSUME NEW own, NEW more, own \subseteq more PROVE Frame(own) \subseteq Frame(more)
  BY DEF Frame

\* A frame that carries no DATA may come from any end.
LEMMA AnyOwn == \A own : Frame({}) \subseteq Frame(own)
  BY DEF Frame

\* A packed capability word is a number.
LEMMA CapabilityType ==
  ASSUME NEW p \in Nat, NEW w \in Nat PROVE kal_capability_pack(p, w) \in Nat
  BY DEF kal_capability_pack

\* clamp_window lands in the range of windows, whatever it is given.
LEMMA WindowType ==
  ASSUME NEW w \in Int
  PROVE  clamp_window(w) \in KAL_MIN_WINDOW_FRAMES .. KAL_MAX_WINDOW_FRAMES
  BY DEF clamp_window, KAL_MIN_WINDOW_FRAMES, KAL_MAX_WINDOW_FRAMES

\* build_hello builds a frame that carries no message.
LEMMA HelloType ==
  ASSUME NEW own, NEW theirs, NEW L \in EndState(own, theirs),
         NEW type \in {"HELLO", "HELLO_ACK"}
  PROVE  build_hello(L, type) \in Frame({})
<1>1. kal_capability_pack(L.profile, L.window) \in Nat
  <2>1. /\ L.profile \in 0 .. KAL_PROFILE_COUNT - 1
        /\ L.window \in KAL_MIN_WINDOW_FRAMES .. KAL_MAX_WINDOW_FRAMES
    BY DEF EndState
  <2>2. L.profile \in Nat /\ L.window \in Nat
    BY <2>1 DEF KAL_PROFILE_COUNT, KAL_MIN_WINDOW_FRAMES, KAL_MAX_WINDOW_FRAMES
  <2> QED  BY <2>2, CapabilityType
<1>2. /\ L.session_id \in Nat /\ L.next_message_id \in Nat /\ L.challenge \in Nat
  BY DEF EndState
<1> DEFINE f == build_hello(L, type)
<1>3. /\ f.type = type /\ f.sequence = 0 /\ ~f.flag
      /\ f.value = kal_capability_pack(L.profile, L.window)
  BY DEF build_hello, ZeroFrame
<1>4. f \in AnyFrame  BY <1>1, <1>2 DEF build_hello, ZeroFrame, AnyFrame, Body, FrameTypes
<1> HIDE DEF f
<1>5. Canonical(f)
  <2>1. /\ L.profile \in 0 .. KAL_PROFILE_COUNT - 1
        /\ L.window \in KAL_MIN_WINDOW_FRAMES .. KAL_MAX_WINDOW_FRAMES
    BY DEF EndState
  <2> QED  BY <1>3, <2>1, HelloCanonical
<1>6. f \in Frame({})  BY <1>3, <1>4, <1>5 DEF Frame
<1> QED  BY <1>6 DEF f

\* So does fail_tx with its CANCEL.
LEMMA CancelType ==
  ASSUME NEW own, NEW theirs, NEW L \in EndState(own, theirs)
  PROVE  CancelFrame(L) \in Frame({})
<1>1. L.session_id \in Nat /\ L.tx.message_id \in Nat  BY DEF EndState, TxState
<1> DEFINE f == CancelFrame(L)
<1>2. f.type = "CANCEL" /\ f.sequence = 0 /\ ~f.flag /\ f.value = 0
  BY DEF CancelFrame, ZeroFrame
<1>3. f \in AnyFrame  BY <1>1 DEF CancelFrame, ZeroFrame, AnyFrame, Body, FrameTypes
<1> HIDE DEF f
<1>4. Canonical(f)  BY <1>2, PlainCanonical
<1>5. f \in Frame({})  BY <1>2, <1>3, <1>4 DEF Frame
<1> QED  BY <1>5 DEF f

\* So does finish_rx_message with its folded FIN.
LEMMA DeliveredAckType ==
  ASSUME NEW own, NEW theirs, NEW L \in EndState(own, theirs), L.rx.total # 0
  PROVE  DeliveredAck(L) \in Frame({})
<1>1. /\ L.rx.session_id \in Nat /\ L.rx.message_id \in Nat
      /\ L.rx.total \in Nat /\ L.rx.total \in 0 .. KAL_MAX_SEGMENTS
  BY DEF EndState, RxState
<1> DEFINE f == DeliveredAck(L)
<1>2. f.type = "ACK" /\ f.sequence = L.rx.total /\ f.flag = TRUE /\ f.bitmap = {}
  BY DEF DeliveredAck, ZeroFrame
<1>3. f \in AnyFrame  BY <1>1 DEF DeliveredAck, ZeroFrame, AnyFrame, Body, FrameTypes
<1> HIDE DEF f
<1>4. Canonical(f)  BY <1>1, <1>2, AckCanonical
<1>5. f \in Frame({})  BY <1>2, <1>3, <1>4 DEF Frame
<1> QED  BY <1>5 DEF f

\* A DATA frame of a transfer carries the message of that transfer.
LEMMA DataType ==
  ASSUME NEW own \in SUBSET Message, NEW theirs, NEW L \in EndState(own, theirs),
         L.tx.payload \in own, L.tx.total = Segments[L.tx.payload],
         NEW s \in Nat, s < L.tx.total
  PROVE  DataFrame(L, s) \in Frame(own)
<1>1. /\ L.session_id \in Nat /\ L.tx.message_id \in Nat
      /\ L.tx.total \in Nat /\ L.tx.total \in 0 .. MaxSegments
  BY DataAssumption DEF EndState, TxState
<1> DEFINE f == DataFrame(L, s)
<1>2. /\ f.type = "DATA" /\ f.sequence = s /\ f.value = L.tx.total
      /\ (f.flag <=> s = L.tx.total - 1) /\ f.payload = L.tx.payload
  BY DEF DataFrame, ZeroFrame
<1>3. f \in AnyFrame  BY <1>1 DEF DataFrame, ZeroFrame, AnyFrame, Body, FrameTypes
<1> HIDE DEF f
<1>4. L.tx.total \in 1 .. KAL_MAX_SEGMENTS /\ s \in 0 .. L.tx.total - 1
  <2>1. MaxSegments \in Nat /\ MaxSegments =< KAL_MAX_SEGMENTS /\ KAL_MAX_SEGMENTS \in Nat
    BY DataAssumption DEF KAL_MAX_SEGMENTS
  <2> QED  BY <1>1, <2>1
<1>5. Canonical(f)  BY <1>2, <1>4, DataCanonical
<1>6. f \in Frame(own)  BY <1>2, <1>3, <1>5 DEF Frame
<1> QED  BY <1>6 DEF f

\* Segments are numbered.
LEMMA SegmentNat ==
  Segment \subseteq Nat /\ Segment \subseteq 0 .. MaxSegments /\ MaxSegments \in Nat
  BY DataAssumption DEF Segment, KAL_MAX_SEGMENTS

\* A cleared transfer has balanced books.
LEMMA NoTxType == \A own : NoTx \in TxState(own) /\ TxBooks(NoTx)
  BY SegmentNat, BoundsAssumption DEF NoTx, TxState, TxBooks, Segment

\* A cleared reassembly is none.
LEMMA NoRxType == \A theirs : NoRx \in RxState(theirs) /\ ~NoRx.active
  BY ZeroFrameType DEF NoRx, RxState, KAL_MAX_SEGMENTS

----------------------------------------------------------------------------
(* The helpers.                                                            *)

\* queue_frame never exceeds the queue: a full one drops the frame.
LEMMA QueueFrameGood ==
  ASSUME NEW own \in SUBSET Message, NEW theirs \in SUBSET Message, NEW n \in Nat,
         NEW held, NEW stage, NEW L, Good(L, own, theirs, n, held, stage), NEW f \in Frame(own)
  PROVE  Good(queue_frame(L, f), own, theirs, n, held, stage)
<1> L.out_frames \in Seq(Frame(own))  BY DEF Good, EndState
<1>1. CASE Len(L.out_frames) >= OutQueueFrames  BY <1>1 DEF queue_frame
<1>2. CASE ~(Len(L.out_frames) >= OutQueueFrames)
  <2> DEFINE q == Append(L.out_frames, f)
  <2>1. q \in Seq(Frame(own)) /\ Len(q) = Len(L.out_frames) + 1  OBVIOUS
  <2>2. Len(q) =< OutQueueFrames  BY <2>1, <1>2, BoundsAssumption
  <2> HIDE DEF q
  <2>3. queue_frame(L, f) = [L EXCEPT !.out_frames = q]  BY <1>2 DEF queue_frame, q
  <2> QED  BY <2>1, <2>2, <2>3 DEF Good, EndState
<1> QED  BY <1>1, <1>2

\* clear_rx_message; without a reassembly anything may wait to be collected.
LEMMA ClearRxGood ==
  ASSUME NEW own \in SUBSET Message, NEW theirs \in SUBSET Message, NEW n \in Nat,
         NEW held, NEW stage, NEW L, Good(L, own, theirs, n, held, stage)
  PROVE  \A more : Good(clear_rx_message(L), own, theirs, n, more, stage)
  BY NoRxType DEF Good, EndState, clear_rx_message

\* clear_tx_message.
LEMMA ClearTxGood ==
  ASSUME NEW own \in SUBSET Message, NEW theirs \in SUBSET Message, NEW n \in Nat,
         NEW held, NEW stage, NEW L, Good(L, own, theirs, n, held, stage)
  PROVE  Good(clear_tx_message(L), own, theirs, n, held, stage)
  BY NoTxType DEF Good, EndState, clear_tx_message

\* R and C agree on every field Good is about.
Alike(R, C) ==
  /\ R.tx = C.tx /\ R.out_frames = C.out_frames /\ R.dup_cache = C.dup_cache
  /\ R.rx = C.rx /\ R.delivered = C.delivered /\ R.submitted = C.submitted

\* Good is about the fields Alike names, and otherwise about types.
LEMMA AlikeGood ==
  ASSUME NEW own, NEW theirs, NEW n, NEW held, NEW stage,
         NEW C, Good(C, own, theirs, n, held, stage),
         NEW R \in EndState(own, theirs), Alike(R, C)
  PROVE  Good(R, own, theirs, n, held, stage)
  BY DEF Good, Alike

\* fail_tx, with any status.
LEMMA FailTxGood ==
  ASSUME NEW own \in SUBSET Message, NEW theirs \in SUBSET Message, NEW n \in Nat,
         NEW held, NEW stage, NEW L, Good(L, own, theirs, n, held, stage), NEW status \in TxStatus
  PROVE  Good(fail_tx(L, status), own, theirs, n, held, stage)
<1> DEFINE Q == queue_frame(L, CancelFrame(L))
           C == clear_tx_message(Q)
<1>1. CancelFrame(L) \in Frame(own)  BY CancelType, AnyOwn DEF Good
<1>2. Good(Q, own, theirs, n, held, stage)  BY <1>1, QueueFrameGood
<1>3. Good(C, own, theirs, n, held, stage)  BY <1>2, ClearTxGood
<1>4. fail_tx(L, status) = [C EXCEPT !.tx_status = status, !.deadline_set = FALSE]  BY DEF fail_tx
<1> HIDE DEF C
<1> DEFINE R == [C EXCEPT !.tx_status = status, !.deadline_set = FALSE]
<1>5. C \in EndState(own, theirs)  BY <1>3 DEF Good
<1>6. R \in EndState(own, theirs)  BY <1>5 DEF EndState
<1>7. Alike(R, C)  BY <1>5 DEF EndState, Alike
<1> QED  BY <1>3, <1>4, <1>6, <1>7, AlikeGood

\* dup_store never exceeds the cache: a full one evicts first.
LEMMA DupStoreGood ==
  ASSUME NEW own \in SUBSET Message, NEW theirs \in SUBSET Message, NEW n \in Nat,
         NEW held, NEW stage, NEW L, Good(L, own, theirs, n, held, stage),
         NEW sid \in Nat, NEW mid \in Nat, NEW ack \in Frame({})
  PROVE  Good(dup_store(L, sid, mid, ack), own, theirs, n, held, stage)
<1> DEFINE kept == IF Len(L.dup_cache) >= DupCacheEntries THEN Tail(L.dup_cache) ELSE L.dup_cache
           entry == [session_id |-> sid, message_id |-> mid, ack |-> ack]
           q == Append(kept, entry)
<1>1. L.dup_cache \in Seq(DupEntry) /\ Len(L.dup_cache) =< DupCacheEntries  BY DEF Good, EndState
<1>2. entry \in DupEntry  BY DEF DupEntry
<1>3. kept \in Seq(DupEntry) /\ Len(kept) < DupCacheEntries
  <2>1. /\ Len(L.dup_cache) \in Nat
        /\ DupCacheEntries \in Nat /\ DupCacheEntries > 0
    <3>1. DupCacheEntries \in Nat /\ DupCacheEntries > 0  BY BoundsAssumption
    <3> QED  BY <1>1, <3>1
  <2>2. CASE Len(L.dup_cache) >= DupCacheEntries
    <3>1. Len(L.dup_cache) # 0  BY <2>1, <2>2
    <3>2. L.dup_cache # << >>  BY <3>1
    <3>3. Tail(L.dup_cache) \in Seq(DupEntry) /\ Len(Tail(L.dup_cache)) = Len(L.dup_cache) - 1
      BY <3>2, <1>1
    <3> QED  BY <2>1, <2>2, <3>3, <1>1
  <2>3. CASE ~(Len(L.dup_cache) >= DupCacheEntries)  BY <2>1, <2>3, <1>1
  <2> QED  BY <2>2, <2>3
<1> HIDE DEF kept, entry
<1>4. q \in Seq(DupEntry) /\ Len(q) =< DupCacheEntries  BY <1>2, <1>3, BoundsAssumption
<1>5. dup_store(L, sid, mid, ack) = [L EXCEPT !.dup_cache = q]  BY DEF dup_store, kept, entry
<1> HIDE DEF q
<1> QED  BY <1>4, <1>5 DEF Good, EndState

----------------------------------------------------------------------------
(* Transmit.                                                               *)

\* queue_window puts at most the room of the queue into flight, all of it segments
\* that are neither acknowledged nor in flight.
LEMMA BatchFits ==
  ASSUME NEW own \in SUBSET Message, NEW theirs \in SUBSET Message, NEW n \in Nat,
         NEW held, NEW stage, NEW L, Good(L, own, theirs, n, held, stage)
  PROVE  LET batch == Batch(L) IN
         /\ batch \subseteq Eligible(L)
         /\ Cardinality(batch) \in Nat
         /\ Len(L.out_frames) + Cardinality(batch) =< OutQueueFrames
         /\ \A i \in 1 .. Cardinality(batch) : Ranked(batch, i - 1) \in batch
<1> DEFINE room == OutQueueFrames - Len(L.out_frames)
           E == Eligible(L)
           B == Batch(L)
<1>1. room \in Nat
  <2>1. L.out_frames \in Seq(Frame(own)) /\ Len(L.out_frames) =< OutQueueFrames
    BY DEF Good, EndState
  <2>2. Len(L.out_frames) \in Nat  BY <2>1
  <2>3. OutQueueFrames \in Nat  BY BoundsAssumption
  <2> QED  BY <2>1, <2>2, <2>3
<1>2. E \subseteq 0 .. MaxSegments /\ MaxSegments \in Nat  BY SegmentNat DEF Eligible
<1>3. B \subseteq E /\ \A s \in B : Rank(E, s) < room  BY DEF Batch
<1> HIDE DEF room, E, B
<1>4. Cardinality(B) =< room  BY <1>1, <1>2, <1>3, FirstFew
<1>5. B \subseteq 0 .. MaxSegments  BY <1>2, <1>3
<1>6. Cardinality(B) \in Nat  BY <1>2, <1>5, BoundedFinite
<1>7. ASSUME NEW i \in 1 .. Cardinality(B) PROVE Ranked(B, i - 1) \in B
  <2>1. i - 1 \in Nat /\ i - 1 < Cardinality(B)  BY <1>6
  <2>2. \E s \in B : Rank(B, s) = i - 1  BY <2>1, <1>2, <1>5, RankOnto
  <2> QED  BY <2>2 DEF Ranked
<1>8. Len(L.out_frames) \in Nat
  <2>1. L.out_frames \in Seq(Frame(own))  BY DEF Good, EndState
  <2> QED  BY <2>1
<1>9. Len(L.out_frames) + Cardinality(B) =< OutQueueFrames
  <2>1. OutQueueFrames \in Nat  BY BoundsAssumption
  <2> QED  BY <1>4, <1>6, <1>8, <2>1 DEF room
<1> QED  BY <1>3, <1>6, <1>7, <1>9 DEF B, E

\* queue_window queues as much as there is room for, and of the message alone.
LEMMA QueueWindowGood ==
  ASSUME NEW own \in SUBSET Message, NEW theirs \in SUBSET Message, NEW n \in Nat,
         NEW held, NEW stage, NEW L, Good(L, own, theirs, n, held, stage), L.tx.active
  PROVE  /\ Good(queue_window(L), own, theirs, n, held, stage)
         /\ queue_window(L).tx.active
<1> DEFINE B == Batch(L)
           k == Cardinality(B)
           queued == [i \in 1 .. k |-> DataFrame(L, Ranked(B, i - 1))]
           out == L.out_frames \o queued
           O == [L EXCEPT !.out_frames = @ \o queued]
           tx == [L.tx EXCEPT !.inflight = @ \cup B]
           R == [O EXCEPT !.tx = tx]
<1>1. /\ B \subseteq Eligible(L)
      /\ k \in Nat
      /\ Len(L.out_frames) + k =< OutQueueFrames
      /\ \A i \in 1 .. k : Ranked(B, i - 1) \in B
  BY BatchFits
<1>2. L \in EndState(own, theirs) /\ TxBooks(L.tx)  BY DEF Good
<1>3. L.tx \in TxState(own) /\ L.out_frames \in Seq(Frame(own))  BY <1>2 DEF EndState
<1>4. L.tx.payload \in own
  <2>1. L.tx.payload \in own \cup {NoBody} /\ L.tx.payload # NoBody
    BY <1>2, <1>3 DEF TxState, TxBooks
  <2> QED  BY <2>1
<1>5. B \subseteq Segment /\ B \subseteq Nat  BY <1>1, SegmentNat DEF Eligible
<1>6. queue_window(L) = R  BY DEF queue_window
<1>7. \A i \in 1 .. k : DataFrame(L, Ranked(B, i - 1)) \in Frame(own)
  <2>1. \A s \in B : s < L.tx.total  BY <1>1 DEF Eligible
  <2>2. L.tx.total = Segments[L.tx.payload]  BY <1>2 DEF TxBooks
  <2> QED  BY <1>1, <1>2, <1>4, <1>5, <2>1, <2>2, DataType
<1>8. \A s \in B : s \notin L.tx.acked /\ s < L.tx.total  BY <1>1 DEF Eligible
<1> HIDE DEF B
<1>9. queued \in Seq(Frame(own)) /\ Len(queued) = k
  <2> HIDE DEF k
  <2> QED  BY <1>1, <1>7
<1> HIDE DEF queued, k
<1>10. out \in Seq(Frame(own)) /\ Len(out) = Len(L.out_frames) + k  BY <1>3, <1>9
<1>11. Len(out) =< OutQueueFrames  BY <1>1, <1>10
<1>12. O = [L EXCEPT !.out_frames = out]  OBVIOUS
<1> HIDE DEF O, out
<1>13. O \in EndState(own, theirs)  BY <1>2, <1>10, <1>12 DEF EndState
<1>14. /\ O.tx = L.tx /\ O.out_frames = out /\ O.dup_cache = L.dup_cache
       /\ O.rx = L.rx /\ O.delivered = L.delivered /\ O.submitted = L.submitted
  BY <1>2, <1>12 DEF EndState
<1>15. tx \in TxState(own)  BY <1>3, <1>5 DEF TxState
<1>16. TxBooks(tx) /\ tx.active
  <2>1. /\ tx.acked = L.tx.acked /\ tx.inflight = L.tx.inflight \cup B
        /\ tx.base = L.tx.base /\ tx.total = L.tx.total
        /\ tx.active = L.tx.active /\ tx.payload = L.tx.payload
    BY <1>3 DEF TxState
  <2> HIDE DEF tx
  <2> QED  BY <1>2, <1>8, <2>1 DEF TxBooks
<1> HIDE DEF tx
<1>17. R \in EndState(own, theirs)  BY <1>13, <1>15 DEF EndState
<1>18. /\ R.tx = tx /\ R.out_frames = O.out_frames /\ R.dup_cache = O.dup_cache
       /\ R.rx = O.rx /\ R.delivered = O.delivered /\ R.submitted = O.submitted
  BY <1>13 DEF EndState
<1> HIDE DEF R
<1> QED  BY <1>6, <1>11, <1>14, <1>16, <1>17, <1>18 DEF Good

\* start_or_resume_tx.
LEMMA StartOrResumeGood ==
  ASSUME NEW own \in SUBSET Message, NEW theirs \in SUBSET Message, NEW n \in Nat,
         NEW held, NEW stage, NEW L, Good(L, own, theirs, n, held, stage), L.tx.active
  PROVE  Good(start_or_resume_tx(L), own, theirs, n, held, stage)
<1> DEFINE Q == queue_window(L)
           tx == [Q.tx EXCEPT !.started = TRUE]
           R == [Q EXCEPT !.tx = tx, !.deadline_set = TRUE]
<1>1. Good(Q, own, theirs, n, held, stage)  BY QueueWindowGood
<1>2. start_or_resume_tx(L) = L \/ start_or_resume_tx(L) = R  BY DEF start_or_resume_tx
<1> HIDE DEF Q
<1>3. Q \in EndState(own, theirs) /\ TxBooks(Q.tx)  BY <1>1 DEF Good
<1>4. Q.tx \in TxState(own)  BY <1>3 DEF EndState
<1>5. tx \in TxState(own)  BY <1>4 DEF TxState
<1>6. TxBooks(tx)
  <2>1. /\ tx.acked = Q.tx.acked /\ tx.inflight = Q.tx.inflight
        /\ tx.base = Q.tx.base /\ tx.total = Q.tx.total
        /\ tx.active = Q.tx.active /\ tx.payload = Q.tx.payload
    BY <1>4 DEF TxState
  <2> HIDE DEF tx
  <2> QED  BY <1>3, <2>1 DEF TxBooks
<1> HIDE DEF tx
<1>7. R \in EndState(own, theirs)  BY <1>3, <1>5 DEF EndState
<1>8. /\ R.tx = tx /\ R.out_frames = Q.out_frames /\ R.dup_cache = Q.dup_cache
      /\ R.rx = Q.rx /\ R.delivered = Q.delivered /\ R.submitted = Q.submitted
  BY <1>3 DEF EndState
<1> HIDE DEF R
<1> QED  BY <1>1, <1>2, <1>6, <1>7, <1>8 DEF Good


\* open_session, on each of its three ways out.
LEMMA OpenSessionGood ==
  ASSUME NEW own \in SUBSET Message, NEW theirs \in SUBSET Message, NEW n \in Nat,
         NEW held, NEW stage, NEW L, Good(L, own, theirs, n, held, stage),
         NEW draw, draw.ok \in BOOLEAN, draw.id \in Nat
  PROVE  Good(open_session(L, draw), own, theirs, n, held, stage)
<1> DEFINE H == [L EXCEPT !.session_id = draw.id, !.challenge = draw.id]
<1>1. CASE ~draw.ok
  <2> DEFINE C == clear_tx_message(L)
             R == [C EXCEPT !.tx_status = "MODEM"]
  <2>1. Good(C, own, theirs, n, held, stage)  BY ClearTxGood
  <2>2. open_session(L, draw) = R  BY <1>1 DEF open_session
  <2> HIDE DEF C
  <2>3. C \in EndState(own, theirs)  BY <2>1 DEF Good
  <2>4. R \in EndState(own, theirs)  BY <2>3 DEF EndState, TxStatus
  <2>5. Alike(R, C)  BY <2>3 DEF EndState, Alike
  <2> QED  BY <2>1, <2>2, <2>4, <2>5, AlikeGood
<1>2. Good(H, own, theirs, n, held, stage)
  <2>1. L \in EndState(own, theirs)  BY DEF Good
  <2>2. H \in EndState(own, theirs)  BY <2>1 DEF EndState
  <2>3. Alike(H, L)  BY <2>1 DEF EndState, Alike
  <2> QED  BY <2>2, <2>3, AlikeGood
<1>3. CASE draw.ok /\ Len(L.out_frames) >= OutQueueFrames
  <2> DEFINE C == clear_tx_message(H)
             R == [C EXCEPT !.tx_status = "BUSY"]
  <2>1. Good(C, own, theirs, n, held, stage)  BY <1>2, ClearTxGood
  <2>2. open_session(L, draw) = R  BY <1>3 DEF open_session
  <2> HIDE DEF C
  <2>3. C \in EndState(own, theirs)  BY <2>1 DEF Good
  <2>4. R \in EndState(own, theirs)  BY <2>3 DEF EndState, TxStatus
  <2>5. Alike(R, C)  BY <2>3 DEF EndState, Alike
  <2> QED  BY <2>1, <2>2, <2>4, <2>5, AlikeGood
<1>4. CASE draw.ok /\ ~(Len(L.out_frames) >= OutQueueFrames)
  <2> DEFINE C == queue_frame(H, build_hello(H, "HELLO"))
             R == [C EXCEPT !.hello_pending = TRUE, !.hello_retries = 0, !.deadline_set = TRUE]
  <2>1. open_session(L, draw) = R  BY <1>4 DEF open_session
  <2> HIDE DEF H
  <2>2. build_hello(H, "HELLO") \in Frame(own)
    <3>1. H \in EndState(own, theirs)  BY <1>2 DEF Good
    <3> QED  BY <3>1, HelloType, AnyOwn
  <2>3. Good(C, own, theirs, n, held, stage)  BY <1>2, <2>2, QueueFrameGood
  <2> HIDE DEF C
  <2>4. C \in EndState(own, theirs)  BY <2>3 DEF Good
  <2>5. 0 \in 0 .. MaxRetries  BY BoundsAssumption
  <2>6. R \in EndState(own, theirs)  BY <2>4, <2>5 DEF EndState
  <2>7. Alike(R, C)  BY <2>4 DEF EndState, Alike
  <2> QED  BY <2>1, <2>3, <2>7, <2>6, AlikeGood
<1> QED  BY <1>1, <1>3, <1>4

\* What an end may hold grows with what its application has submitted.
LEMMA EndStateMonotonic ==
  ASSUME NEW own \in SUBSET Message, NEW theirs \in SUBSET Message,
         NEW more \in SUBSET Message, own \subseteq more,
         NEW others \in SUBSET Message, theirs \subseteq others
  PROVE  EndState(own, theirs) \subseteq EndState(more, others)
<1>1. TxState(own) \subseteq TxState(more)  BY DEF TxState
<1>2. RxState(theirs) \subseteq RxState(others)  BY DEF RxState
<1>3. Stats(own, theirs) \subseteq Stats(more, others)
  <2>1. Seq(theirs \cup Beacon) \subseteq Seq(others \cup Beacon)  OBVIOUS
  <2>2. Seq(own \cup {NoBody}) \subseteq Seq(more \cup {NoBody})  OBVIOUS
  <2> QED  BY <2>1, <2>2 DEF Stats
<1>4. Seq(Frame(own)) \subseteq Seq(Frame(more))
  <2>1. Frame(own) \subseteq Frame(more)  BY FrameMonotonic
  <2> QED  BY <2>1
<1> QED  BY <1>1, <1>2, <1>3, <1>4 DEF EndState

\* kal_send of m: one more message submitted, and m is now the end's own.
LEMMA SendGood ==
  ASSUME NEW own \in SUBSET Message, NEW theirs \in SUBSET Message, NEW n \in Nat,
         NEW held, NEW stage, NEW L, Good(L, own, theirs, n, held, stage),
         NEW m \in Message, NEW draw, draw.ok \in BOOLEAN, draw.id \in Nat
  PROVE  Good(kal_send(L, m, draw), own \cup {m}, theirs, n + 1, held, stage)
<1> DEFINE tx == [NoTx EXCEPT !.active = TRUE, !.message_id = L.next_message_id,
                              !.total = Segments[m], !.payload = m]
           S == [L EXCEPT !.tx = tx, !.tx_status = "BUSY", !.submitted = @ + 1]
           more == own \cup {m}
<1>1. L \in EndState(own, theirs) /\ L.submitted = n  BY DEF Good
<1>2. L \in EndState(more, theirs)  BY <1>1, EndStateMonotonic
<1>3. tx \in TxState(more) /\ TxBooks(tx) /\ tx.active
  <2>1. L.next_message_id \in Nat  BY <1>1 DEF EndState
  <2>2. Segments[m] \in 1 .. MaxSegments /\ m # NoBody  BY DataAssumption
  <2>3. NoTx \in TxState(more)  BY NoTxType
  <2>4. tx \in TxState(more)
    <3> DEFINE A == [NoTx EXCEPT !.active = TRUE, !.message_id = L.next_message_id]
    <3>1. A \in TxState(more)  BY <2>1, <2>3 DEF TxState
    <3> HIDE DEF A
    <3>2. Segments[m] \in 0 .. MaxSegments /\ m \in more  BY <2>2, SegmentNat
    <3> HIDE DEF more
    <3>3. [A EXCEPT !.total = Segments[m], !.payload = m] \in TxState(more)
      BY <3>1, <3>2 DEF TxState
    <3> QED  BY <3>3 DEF A
  <2>5. /\ tx.active /\ tx.payload = m /\ tx.total = Segments[m]
        /\ tx.base = 0 /\ tx.acked = {} /\ tx.inflight = {}
    BY DEF NoTx
  <2> HIDE DEF tx
  <2> QED  BY <2>2, <2>4, <2>5, SegmentNat DEF TxBooks, Segment
<1> HIDE DEF tx
<1>4. S \in EndState(more, theirs)
  <2>1. L.submitted + 1 \in Nat /\ "BUSY" \in TxStatus  BY <1>1 DEF TxStatus
  <2> DEFINE A == [L EXCEPT !.tx = tx]
             B == [A EXCEPT !.tx_status = "BUSY"]
  <2>2. A \in EndState(more, theirs) /\ A.submitted = L.submitted  BY <1>2, <1>3 DEF EndState
  <2> HIDE DEF A
  <2>3. B \in EndState(more, theirs) /\ B.submitted = L.submitted  BY <2>1, <2>2 DEF EndState
  <2> HIDE DEF B
  <2>4. [B EXCEPT !.submitted = @ + 1] \in EndState(more, theirs)  BY <2>1, <2>3 DEF EndState
  <2> QED  BY <2>4 DEF A, B
<1>5. /\ S.tx = tx /\ S.out_frames = L.out_frames /\ S.dup_cache = L.dup_cache
      /\ S.rx = L.rx /\ S.delivered = L.delivered /\ S.submitted = n + 1
  BY <1>1 DEF EndState
<1>6. kal_send(L, m, draw) \in {start_or_resume_tx(S), open_session(S, draw), S}
  BY DEF kal_send, tx
<1> HIDE DEF S, more
<1>7. Good(S, more, theirs, n + 1, held, stage)  BY <1>3, <1>4, <1>5 DEF Good
<1>8. S.tx.active /\ more \in SUBSET Message /\ n + 1 \in Nat  BY <1>3, <1>5 DEF more
<1>9. Good(start_or_resume_tx(S), more, theirs, n + 1, held, stage)
  BY <1>7, <1>8, StartOrResumeGood
<1>10. Good(open_session(S, draw), more, theirs, n + 1, held, stage)  BY <1>7, <1>8, OpenSessionGood
<1> QED  BY <1>6, <1>7, <1>9, <1>10 DEF more

\* kal_beacon.
LEMMA BeaconGood ==
  ASSUME NEW own \in SUBSET Message, NEW theirs \in SUBSET Message, NEW n \in Nat,
         NEW held, NEW stage, NEW L, Good(L, own, theirs, n, held, stage), NEW p \in Beacon
  PROVE  Good(kal_beacon(L, p), own, theirs, n, held, stage)
<1> DEFINE f == [ZeroFrame EXCEPT !.type = "BEACON", !.session_id = L.session_id,
                                  !.message_id = L.next_message_id, !.payload = p]
<1>1. L.session_id \in Nat /\ L.next_message_id \in Nat  BY DEF Good, EndState
<1>2. kal_beacon(L, p) = queue_frame(L, f)  BY DEF kal_beacon
<1>3. f \in Frame(own)
  <2>1. /\ f.type = "BEACON" /\ f.sequence = 0 /\ ~f.flag /\ f.value = 0
        /\ f.payload = p
    BY DEF ZeroFrame
  <2>2. f \in AnyFrame  BY <1>1 DEF ZeroFrame, AnyFrame, Body, FrameTypes
  <2> HIDE DEF f
  <2>3. Canonical(f)  BY <2>1, PlainCanonical
  <2> QED  BY <2>1, <2>2, <2>3 DEF Frame
<1> HIDE DEF f
<1> QED  BY <1>2, <1>3, QueueFrameGood

\* kal_cancel.
LEMMA CancelGood ==
  ASSUME NEW own \in SUBSET Message, NEW theirs \in SUBSET Message, NEW n \in Nat,
         NEW held, NEW stage, NEW L, Good(L, own, theirs, n, held, stage)
  PROVE  Good(kal_cancel(L), own, theirs, n, held, stage)
<1>1. Good(fail_tx(L, "CANCELLED"), own, theirs, n, held, stage)  BY FailTxGood DEF TxStatus
<1> QED  BY <1>1, ClearRxGood DEF kal_cancel

\* kal_link_reset.
LEMMA ResetGood ==
  ASSUME NEW own \in SUBSET Message, NEW theirs \in SUBSET Message, NEW n \in Nat,
         NEW held, NEW stage, NEW L, Good(L, own, theirs, n, held, stage), NoBody \in stage
  PROVE  Good(kal_link_reset(L), own, theirs, n, held, stage)
<1> DEFINE R == kal_link_reset(L)
<1>1. L \in EndState(own, theirs) /\ L.submitted = n  BY DEF Good
<1>2. FirstMessageId(L.role) \in Nat  BY DEF FirstMessageId
<1>3. R \in EndState(own, theirs)
  <2>1. /\ 0 \in 0 .. MaxRetries /\ "OK" \in TxStatus /\ ZeroFrame \in Frame({})
        /\ NoTx \in TxState(own) /\ NoRx \in RxState(theirs)
        /\ << >> \in Seq(Frame(own)) /\ << >> \in Seq(DupEntry)
    BY NoTxType, NoRxType, ZeroFrameType, BoundsAssumption DEF TxStatus
  <2> DEFINE A == [L EXCEPT !.tx = NoTx, !.rx = NoRx, !.out_frames = << >>, !.deadline_set = FALSE]
             B == [A EXCEPT !.dup_cache = << >>, !.challenge = 0, !.hello_ack_cached = ZeroFrame]
             C == [B EXCEPT !.hello_ack_valid = FALSE, !.hello_pending = FALSE, !.hello_retries = 0]
             D == [C EXCEPT !.session_open = FALSE, !.session_id = 0, !.delivered = NoBody]
  <2>2. A \in EndState(own, theirs)  BY <1>1, <2>1 DEF EndState
  <2> HIDE DEF A
  <2>3. B \in EndState(own, theirs)  BY <2>2, <2>1 DEF EndState
  <2> HIDE DEF B
  <2>4. C \in EndState(own, theirs)  BY <2>3, <2>1 DEF EndState
  <2> HIDE DEF C
  <2>5. D \in EndState(own, theirs)  BY <2>4 DEF EndState
  <2> HIDE DEF D
  <2>6. [D EXCEPT !.tx_status = "OK", !.next_message_id = FirstMessageId(L.role)]
           \in EndState(own, theirs)
    BY <1>2, <2>1, <2>5 DEF EndState
  <2> QED  BY <2>6 DEF kal_link_reset, A, B, C, D
<1>4. /\ R.tx = NoTx /\ R.out_frames = << >> /\ R.dup_cache = << >>
      /\ R.rx = NoRx /\ R.delivered = NoBody /\ R.submitted = n
  BY <1>1 DEF EndState, kal_link_reset
<1> HIDE DEF R
<1>5. Len(R.out_frames) =< OutQueueFrames /\ Len(R.dup_cache) =< DupCacheEntries
  BY <1>4, BoundsAssumption
<1>6. TxBooks(R.tx)  BY <1>4, NoTxType
<1>7. R.rx.active => R.delivered \notin held  BY <1>4, NoRxType
<1>8. R.submitted = n /\ R.delivered \in stage  BY <1>4
<1>9. Good(R, own, theirs, n, held, stage)  BY <1>3, <1>5, <1>6, <1>7, <1>8 DEF Good
<1> QED  BY <1>9 DEF R


----------------------------------------------------------------------------
(* Receive.                                                                *)

\* queue_partial_ack; the ACK it caches carries no message.
LEMMA PartialAckGood ==
  ASSUME NEW own \in SUBSET Message, NEW theirs \in SUBSET Message, NEW n \in Nat,
         NEW held, NEW stage, NEW L, Good(L, own, theirs, n, held, stage)
  PROVE  Good(queue_partial_ack(L), own, theirs, n, held, stage)
<1> DEFINE base == first_missing(L)
           bits == {s \in Received(L) : /\ base < s
                                        /\ s =< base + KAL_ACK_BITS
                                        /\ s < L.rx.total}
           ack == [ZeroFrame EXCEPT !.type = "ACK", !.session_id = L.rx.session_id,
                     !.message_id = L.rx.message_id, !.sequence = base, !.bitmap = bits]
           rx == [L.rx EXCEPT !.ack_cached = ack, !.ack_valid = TRUE]
           S == [L EXCEPT !.rx = rx]
<1>1. L \in EndState(own, theirs)  BY DEF Good
<1>2. /\ L.rx \in RxState(theirs)
      /\ L.rx.session_id \in Nat /\ L.rx.message_id \in Nat
      /\ L.rx.total \in Nat /\ L.rx.total \in 0 .. KAL_MAX_SEGMENTS
  BY <1>1 DEF EndState, RxState
<1>3. base \in Nat /\ base \in 0 .. KAL_MAX_SEGMENTS
  <2>1. base \in 0 .. L.rx.total  BY <1>2, FirstOutsideFound DEF first_missing
  <2> QED  BY <1>2, <2>1 DEF KAL_MAX_SEGMENTS
<1>4. bits \in SUBSET Nat  BY SegmentNat DEF Received
<1>5. queue_partial_ack(L) = queue_frame(S, ack)  BY DEF queue_partial_ack
<1> HIDE DEF base, bits
<1>6. ack \in Frame({})
  <2>1. ack.type = "ACK" /\ ack.sequence = base /\ ack.flag = FALSE  BY DEF ZeroFrame
  <2>2. ack \in AnyFrame
    BY <1>2, <1>3, <1>4 DEF ZeroFrame, AnyFrame, Body, FrameTypes
  <2> HIDE DEF ack
  <2>3. Canonical(ack)  BY <1>3, <2>1, AckCanonical
  <2> QED  BY <2>1, <2>2, <2>3 DEF Frame
<1> HIDE DEF ack
<1>7. rx \in RxState(theirs) /\ rx.active = L.rx.active  BY <1>2, <1>6 DEF RxState
<1> HIDE DEF rx
<1>8. S \in EndState(own, theirs)  BY <1>1, <1>7 DEF EndState
<1>9. /\ S.tx = L.tx /\ S.out_frames = L.out_frames /\ S.dup_cache = L.dup_cache
      /\ S.rx = rx /\ S.delivered = L.delivered /\ S.submitted = L.submitted
  BY <1>1 DEF EndState
<1> HIDE DEF S
<1>10. Good(S, own, theirs, n, held, stage)  BY <1>7, <1>8, <1>9 DEF Good
<1>11. ack \in Frame(own)  BY <1>6, AnyOwn
<1> QED  BY <1>5, <1>10, <1>11, QueueFrameGood

\* A digest that matches is that of a message the peer submitted.
LEMMA AssembledType ==
  ASSUME NEW own \in SUBSET Message, NEW theirs \in SUBSET Message,
         NEW L \in EndState(own, theirs), Intact(L, Assembled(L))
  PROVE  Assembled(L) \in theirs /\ L.rx.total # 0
<1> DEFINE whole == {m \in Message : /\ Segments[m] = L.rx.total
                                     /\ \A s \in 0 .. L.rx.total - 1 : L.rx.payload[s] = m}
<1>1. L.accepts \subseteq Message /\ L.rx.payload \in [Segment -> theirs \cup {NoBody}]
  BY DEF EndState, RxState
<1>2. Assembled(L) # Garbled  BY <1>1, DataAssumption DEF Intact
<1>3. whole # {} /\ Assembled(L) = CHOOSE m \in whole : TRUE  BY <1>2 DEF Assembled
<1>4. Assembled(L) \in whole  BY <1>3
<1>5. PICK m \in whole : Assembled(L) = m  BY <1>4
<1>6. L.rx.total \in 1 .. MaxSegments /\ m \in Message /\ m # NoBody
  BY <1>5, DataAssumption
<1>7. L.rx.payload[0] = m  BY <1>5, <1>6, SegmentNat
<1>8. 0 \in Segment  BY DataAssumption DEF Segment, KAL_MAX_SEGMENTS
<1>9. L.rx.payload[0] \in theirs \cup {NoBody}  BY <1>1, <1>8
<1> QED  BY <1>5, <1>6, <1>7, <1>9

\* What Deliver leaves behind, but for the back-pressure.
LEMMA DeliverType ==
  ASSUME NEW own \in SUBSET Message, NEW theirs \in SUBSET Message, NEW n \in Nat,
         NEW held, NEW stage, NEW L, Good(L, own, theirs, n, held, stage),
         NEW body \in theirs
  PROVE  LET D == Deliver(L, body) IN
         /\ D \in EndState(own, theirs)
         /\ D.tx = L.tx /\ D.out_frames = L.out_frames /\ D.dup_cache = L.dup_cache
         /\ D.rx = L.rx /\ D.delivered = body /\ D.submitted = L.submitted
<1> DEFINE A == [L EXCEPT !.delivered = body]
           log == Append(L.stats.messages_delivered, body)
           stats == [A.stats EXCEPT !.messages_delivered = Append(@, body)]
           D == [A EXCEPT !.stats = stats]
<1>1. L \in EndState(own, theirs)  BY DEF Good
<1>2. A \in EndState(own, theirs) /\ A.stats = L.stats  BY <1>1 DEF EndState
<1>3. /\ A.tx = L.tx /\ A.out_frames = L.out_frames /\ A.dup_cache = L.dup_cache
      /\ A.rx = L.rx /\ A.delivered = body /\ A.submitted = L.submitted
  BY <1>1 DEF EndState
<1>4. Deliver(L, body) = D  BY DEF Deliver
<1> HIDE DEF A
<1>5. A.stats \in Stats(own, theirs)  BY <1>2 DEF EndState
<1>6. stats \in Stats(own, theirs)
  <2>1. A.stats.messages_delivered \in Seq(theirs)  BY <1>5 DEF Stats
  <2>2. Append(A.stats.messages_delivered, body) \in Seq(theirs)  BY <2>1
  <2> QED  BY <1>5, <2>2 DEF Stats
<1> HIDE DEF stats
<1>7. D \in EndState(own, theirs)  BY <1>2, <1>6 DEF EndState
<1>8. /\ D.tx = A.tx /\ D.out_frames = A.out_frames /\ D.dup_cache = A.dup_cache
      /\ D.rx = A.rx /\ D.delivered = A.delivered /\ D.submitted = A.submitted
  BY <1>2 DEF EndState
<1> HIDE DEF D
<1> QED  BY <1>3, <1>4, <1>7, <1>8


\* finish_rx_message: only a message that spells one of theirs is staged, and only
\* where nothing waited.
LEMMA FinishGood ==
  ASSUME NEW own \in SUBSET Message, NEW theirs \in SUBSET Message, NEW n \in Nat,
         NEW held, NEW stage, NEW L, Good(L, own, theirs, n, held, stage), theirs \subseteq stage
  PROVE  Good(finish_rx_message(L), own, theirs, n, Message, stage)
<1> DEFINE body == Assembled(L)
           ack == DeliveredAck(L)
           D == Deliver(L, body)
           Q == queue_frame(D, ack)
           S == dup_store(Q, L.rx.session_id, L.rx.message_id, ack)
<1>1. L \in EndState(own, theirs)  BY DEF Good
<1>2. CASE ~Intact(L, body)
  <2>1. finish_rx_message(L) = clear_rx_message(L)  BY <1>2 DEF finish_rx_message
  <2> QED  BY <2>1, ClearRxGood
<1>3. CASE Intact(L, body)
  <2>1. body \in theirs /\ L.rx.total # 0  BY <1>1, <1>3, AssembledType
  <2>2. finish_rx_message(L) = clear_rx_message(S)  BY <1>3 DEF finish_rx_message
  <2>3. ack \in Frame({}) /\ ack \in Frame(own)  BY <1>1, <2>1, DeliveredAckType, AnyOwn
  <2>4. L.rx.session_id \in Nat /\ L.rx.message_id \in Nat  BY <1>1 DEF EndState, RxState
  <2> HIDE DEF body, ack
  <2>5. /\ D \in EndState(own, theirs)
        /\ D.tx = L.tx /\ D.out_frames = L.out_frames /\ D.dup_cache = L.dup_cache
        /\ D.delivered = body /\ D.submitted = L.submitted
    BY <2>1, DeliverType
  <2>6. body \in stage  BY <2>1
  <2> HIDE DEF D
  <2>7. Good(D, own, theirs, n, {}, stage)  BY <2>5, <2>6 DEF Good
  <2>8. Good(Q, own, theirs, n, {}, stage)  BY <2>3, <2>7, QueueFrameGood
  <2> HIDE DEF Q
  <2>9. Good(S, own, theirs, n, {}, stage)  BY <2>3, <2>4, <2>8, DupStoreGood
  <2> HIDE DEF S
  <2>10. Good(clear_rx_message(S), own, theirs, n, Message, stage)  BY <2>9, ClearRxGood
  <2> QED  BY <2>2, <2>10
<1> QED  BY <1>2, <1>3

\* The repeated segment of handle_data.
LEMMA RepeatGood ==
  ASSUME NEW own \in SUBSET Message, NEW theirs \in SUBSET Message, NEW n \in Nat,
         NEW held, NEW stage, NEW L, Good(L, own, theirs, n, held, stage), NEW f \in Frame(theirs)
  PROVE  Good(RepeatSegment(L, f), own, theirs, n, held, stage)
<1>1. L.rx.ack_cached \in Frame(own)  BY AnyOwn DEF Good, EndState, RxState
<1>2. Good(queue_frame(L, L.rx.ack_cached), own, theirs, n, held, stage)  BY <1>1, QueueFrameGood
<1>3. Good(queue_partial_ack(L), own, theirs, n, held, stage)  BY PartialAckGood
<1> QED  BY <1>2, <1>3 DEF RepeatSegment

\* The stored segment of handle_data.
LEMMA StoreGood ==
  ASSUME NEW own \in SUBSET Message, NEW theirs \in SUBSET Message, NEW n \in Nat,
         NEW stage, NEW L, Good(L, own, theirs, n, Message, stage),
         NEW f \in Frame(theirs), f.type = "DATA",
         theirs \subseteq stage
  PROVE  Good(StoreSegment(L, f), own, theirs, n, Message, stage)
<1> DEFINE rx == [L.rx EXCEPT !.payload = [L.rx.payload EXCEPT ![f.sequence] = f.payload]]
           S == [L EXCEPT !.rx = rx]
<1>1. L \in EndState(own, theirs)  BY DEF Good
<1>2. L.rx \in RxState(theirs)  BY <1>1 DEF EndState
<1>3. f.payload \in theirs  BY DEF Frame
<1>4. rx \in RxState(theirs) /\ rx.active = L.rx.active  BY <1>2, <1>3 DEF RxState
<1>5. StoreSegment(L, f) \in {finish_rx_message(S), queue_partial_ack(S), S}  BY DEF StoreSegment
<1> HIDE DEF rx
<1>6. S \in EndState(own, theirs)  BY <1>1, <1>4 DEF EndState
<1>7. /\ S.tx = L.tx /\ S.out_frames = L.out_frames /\ S.dup_cache = L.dup_cache
      /\ S.rx = rx /\ S.delivered = L.delivered /\ S.submitted = L.submitted
  BY <1>1 DEF EndState
<1> HIDE DEF S
<1>8. Good(S, own, theirs, n, Message, stage)  BY <1>4, <1>6, <1>7 DEF Good
<1>9. Good(finish_rx_message(S), own, theirs, n, Message, stage)  BY <1>8, FinishGood
<1>10. Good(queue_partial_ack(S), own, theirs, n, Message, stage)  BY <1>8, PartialAckGood
<1> QED  BY <1>5, <1>8, <1>9, <1>10

\* Nothing waits to be collected when a new reassembly begins.
LEMMA ReassemblingGood ==
  ASSUME NEW own \in SUBSET Message, NEW theirs \in SUBSET Message, NEW n \in Nat,
         NEW stage, NEW L, Good(L, own, theirs, n, Message, stage),
         NEW f \in Frame(theirs), f.type = "DATA",
         \/ L.rx.active /\ f.message_id = L.rx.message_id
         \/ L.delivered = NoBody
  PROVE  Good(Reassembling(L, f), own, theirs, n, Message, stage)
<1>1. CASE L.rx.active /\ f.message_id = L.rx.message_id  BY <1>1 DEF Reassembling
<1>2. CASE ~(L.rx.active /\ f.message_id = L.rx.message_id)
  <2> DEFINE rx == [NoRx EXCEPT !.active = TRUE, !.session_id = f.session_id,
                                !.message_id = f.message_id, !.total = f.value]
             R == [L EXCEPT !.rx = rx]
  <2>1. L \in EndState(own, theirs)  BY DEF Good
  <2>2. /\ f.session_id \in Nat /\ f.message_id \in Nat
        /\ f.value \in 0 .. KAL_MAX_SEGMENTS
    <3>1. f.value \in 1 .. KAL_MAX_SEGMENTS  BY DataTotal DEF Frame
    <3>2. f.session_id \in Nat /\ f.message_id \in Nat  BY DEF Frame, AnyFrame
    <3> QED  BY <3>1, <3>2
  <2>3. rx \in RxState(theirs)
    <3> DEFINE A == [NoRx EXCEPT !.active = TRUE, !.session_id = f.session_id]
    <3>1. NoRx \in RxState(theirs)  BY NoRxType
    <3>2. A \in RxState(theirs)  BY <2>2, <3>1 DEF RxState
    <3> HIDE DEF A
    <3>3. [A EXCEPT !.message_id = f.message_id, !.total = f.value] \in RxState(theirs)
      BY <2>2, <3>2 DEF RxState
    <3> QED  BY <3>3 DEF A
  <2>4. Reassembling(L, f) = R  BY <1>2 DEF Reassembling
  <2> HIDE DEF rx
  <2>5. R \in EndState(own, theirs)  BY <2>1, <2>3 DEF EndState
  <2>6. /\ R.tx = L.tx /\ R.out_frames = L.out_frames /\ R.dup_cache = L.dup_cache
        /\ R.delivered = L.delivered /\ R.submitted = L.submitted
    BY <2>1 DEF EndState
  <2>7. R.delivered \notin Message  BY <1>2, <2>6, DataAssumption
  <2> HIDE DEF R
  <2> QED  BY <2>4, <2>5, <2>6, <2>7 DEF Good
<1> QED  BY <1>1, <1>2

\* handle_data: back-pressure keeps a reassembly from starting while a message
\* waits to be collected.
LEMMA HandleDataGood ==
  ASSUME NEW own \in SUBSET Message, NEW theirs \in SUBSET Message, NEW n \in Nat,
         NEW stage, NEW L, Good(L, own, theirs, n, Message, stage),
         NEW f \in Frame(theirs), f.type = "DATA",
         theirs \subseteq stage \/ stage \subseteq Message
  PROVE  Good(handle_data(L, f), own, theirs, n, Message, stage)
<1> DEFINE hits == dup_lookup(L, f.session_id, f.message_id)
           continued == L.rx.active /\ f.message_id = L.rx.message_id
           ack == L.dup_cache[CHOOSE i \in hits : TRUE].ack
           R == Reassembling(L, f)
<1>1. CASE hits # {}
  <2>1. L.dup_cache \in Seq(DupEntry)  BY DEF Good, EndState
  <2>2. PICK i \in DOMAIN L.dup_cache : (CHOOSE j \in hits : TRUE) = i
    BY <1>1 DEF dup_lookup
  <2>3. L.dup_cache[i] \in DupEntry  BY <2>1
  <2>4. ack \in Frame(own)  BY <2>2, <2>3, AnyOwn DEF DupEntry
  <2>5. Good(queue_frame(L, ack), own, theirs, n, Message, stage)  BY <2>4, QueueFrameGood
  <2> QED  BY <1>1, <2>5 DEF handle_data
<1>2. CASE hits = {} /\ ~continued /\ L.delivered # NoBody
  <2>1. Good(clear_rx_message(L), own, theirs, n, Message, stage)  BY ClearRxGood
  <2> QED  BY <1>2, <2>1 DEF handle_data
<1>3. CASE ~(theirs \subseteq stage)
  \* A message waits: no reassembly is under way, and none is begun.
  <2>1. L.delivered \in Message  BY <1>3 DEF Good
  <2>2. ~continued /\ L.delivered # NoBody  BY <2>1, DataAssumption DEF Good
  <2> QED  BY <1>1, <1>2, <2>2
<1>4. CASE hits = {} /\ (continued \/ L.delivered = NoBody) /\ theirs \subseteq stage
  <2>1. Good(R, own, theirs, n, Message, stage)  BY <1>4, ReassemblingGood
  <2>2. handle_data(L, f) \in {L, R, RepeatSegment(R, f), StoreSegment(R, f)}
    <3> HIDE DEF R
    <3> QED  BY <1>4 DEF handle_data, R
  <2> HIDE DEF R
  <2>3. Good(RepeatSegment(R, f), own, theirs, n, Message, stage)  BY <2>1, RepeatGood
  <2>4. Good(StoreSegment(R, f), own, theirs, n, Message, stage)  BY <1>4, <2>1, StoreGood
  <2> QED  BY <2>1, <2>2, <2>3, <2>4
<1> QED  BY <1>1, <1>2, <1>4, <1>3


----------------------------------------------------------------------------
(* The other handlers.                                                     *)

\* A partial ACK keeps the books balanced, whatever base and bitmap it carries.
LEMMA MarkAckedGood ==
  ASSUME NEW own \in SUBSET Message, NEW theirs \in SUBSET Message, NEW n \in Nat,
         NEW held, NEW stage, NEW L, Good(L, own, theirs, n, held, stage),
         L.tx.active, NEW marked \in SUBSET Segment, \A s \in marked : s < L.tx.total
  PROVE  /\ Good(MarkAcked(L, marked), own, theirs, n, held, stage)
         /\ MarkAcked(L, marked).tx.active
<1> DEFINE acked == L.tx.acked \cup marked
           base == FirstOutside(acked, L.tx.base, L.tx.total)
           tx == [L.tx EXCEPT !.acked = acked, !.inflight = @ \ marked, !.retries = 0,
                              !.base = FirstOutside(acked, @, L.tx.total)]
           R == [L EXCEPT !.tx = tx]
<1>1. L \in EndState(own, theirs) /\ TxBooks(L.tx)  BY DEF Good
<1>2. L.tx \in TxState(own)  BY <1>1 DEF EndState
<1>3. /\ L.tx.acked \subseteq Segment /\ L.tx.inflight \subseteq Segment
      /\ L.tx.base \in Nat /\ L.tx.total \in Nat /\ L.tx.total \in 0 .. MaxSegments
      /\ L.tx.base =< L.tx.total
  BY <1>1, <1>2, SegmentNat DEF TxState, TxBooks
<1>4. /\ base \in L.tx.base .. L.tx.total
      /\ base = L.tx.total \/ base \notin acked
      /\ \A s \in L.tx.base .. base - 1 : s \in acked
  BY <1>3, FirstOutsideFound
<1> HIDE DEF base
<1>5. base \in 0 .. MaxSegments /\ 0 \in 0 .. MaxRetries
  BY <1>3, <1>4, SegmentNat, BoundsAssumption
<1>6. acked \subseteq Segment  BY <1>3
<1> HIDE DEF acked
<1>7. tx = [L.tx EXCEPT !.acked = acked, !.inflight = @ \ marked, !.retries = 0, !.base = base]
  BY <1>2 DEF base, TxState
<1>8. tx \in TxState(own)  BY <1>2, <1>5, <1>6, <1>7 DEF TxState
<1>9. /\ tx.acked = acked /\ tx.inflight = L.tx.inflight \ marked /\ tx.base = base
      /\ tx.total = L.tx.total /\ tx.active = L.tx.active /\ tx.payload = L.tx.payload
  BY <1>2, <1>7 DEF TxState
<1>10. MarkAcked(L, marked) = R  BY DEF MarkAcked, acked
<1> HIDE DEF tx
<1>11. TxBooks(tx)
  <2>1. tx.acked \cap tx.inflight = {}  BY <1>1, <1>9 DEF acked, TxBooks
  <2>2. tx.base =< tx.total /\ (tx.base \notin tx.acked \/ tx.base = tx.total)
    BY <1>3, <1>4, <1>9
  <2>3. ASSUME NEW s \in Segment, s < tx.base PROVE s \in tx.acked
    <3>1. s \in Nat  BY SegmentNat
    <3>2. CASE s < L.tx.base  BY <3>2, <1>1, <1>9 DEF acked, TxBooks
    <3>3. CASE ~(s < L.tx.base)
      <4>1. s \in L.tx.base .. base - 1  BY <2>3, <3>1, <3>3, <1>3, <1>4, <1>9
      <4> QED  BY <4>1, <1>4, <1>9
    <3> QED  BY <3>2, <3>3
  <2>4. \A s \in tx.acked \cup tx.inflight : s < tx.total
    BY <1>1, <1>9 DEF acked, TxBooks
  <2>5. tx.active <=> tx.payload # NoBody  BY <1>1, <1>9 DEF TxBooks
  <2>6. tx.active => tx.total = Segments[tx.payload]  BY <1>1, <1>9 DEF TxBooks
  <2> QED  BY <2>1, <2>2, <2>3, <2>4, <2>5, <2>6 DEF TxBooks
<1>12. R \in EndState(own, theirs)  BY <1>1, <1>8 DEF EndState
<1>13. /\ R.tx = tx /\ R.out_frames = L.out_frames /\ R.dup_cache = L.dup_cache
       /\ R.rx = L.rx /\ R.delivered = L.delivered /\ R.submitted = L.submitted
  BY <1>1 DEF EndState
<1> HIDE DEF R
<1> QED  BY <1>9, <1>10, <1>11, <1>12, <1>13 DEF Good

\* A delivered ACK logs a message of the end's own, or nothing at all.
LEMMA TxDeliveredGood ==
  ASSUME NEW own \in SUBSET Message, NEW theirs \in SUBSET Message, NEW n \in Nat,
         NEW held, NEW stage, NEW L, Good(L, own, theirs, n, held, stage)
  PROVE  Good(TxDelivered(L), own, theirs, n, held, stage)
<1> DEFINE C == clear_tx_message(L)
           A == [C EXCEPT !.deadline_set = FALSE, !.tx_status = "OK"]
           B == [A EXCEPT !.next_message_id = (@ + 2) % 65536]
           stats == [L.stats EXCEPT !.messages_sent = Append(@, L.tx.payload)]
           R == [B EXCEPT !.stats = stats]
<1>1. Good(C, own, theirs, n, held, stage)  BY ClearTxGood
<1>2. stats \in Stats(own, theirs)
  <2>1. L.stats \in Stats(own, theirs) /\ L.tx.payload \in own \cup {NoBody}
    BY DEF Good, EndState, TxState
  <2>2. L.stats.messages_sent \in Seq(own \cup {NoBody})  BY <2>1 DEF Stats
  <2>3. Append(L.stats.messages_sent, L.tx.payload) \in Seq(own \cup {NoBody})  BY <2>1, <2>2
  <2> QED  BY <2>1, <2>3 DEF Stats
<1>3. TxDelivered(L) = R  BY DEF TxDelivered
<1> HIDE DEF C, stats
<1>4. C \in EndState(own, theirs)  BY <1>1 DEF Good
<1>5. A \in EndState(own, theirs) /\ Alike(A, C)  BY <1>4 DEF EndState, Alike, TxStatus
<1> HIDE DEF A
<1> DEFINE next == (A.next_message_id + 2) % 65536
<1>6. next \in Nat
  <2>1. A.next_message_id \in Nat  BY <1>5 DEF EndState
  <2> QED  BY <2>1
<1>7. B = [A EXCEPT !.next_message_id = next]  OBVIOUS
<1> HIDE DEF B, next
<1>8. B \in EndState(own, theirs) /\ Alike(B, A)  BY <1>5, <1>6, <1>7 DEF EndState, Alike
<1> HIDE DEF B
<1>9. R \in EndState(own, theirs) /\ Alike(R, B)  BY <1>2, <1>8 DEF EndState, Alike
<1> HIDE DEF R
<1>10. Alike(R, C)  BY <1>5, <1>8, <1>9 DEF Alike
<1> QED  BY <1>1, <1>3, <1>9, <1>10, AlikeGood

\* handle_ack.
LEMMA HandleAckGood ==
  ASSUME NEW own \in SUBSET Message, NEW theirs \in SUBSET Message, NEW n \in Nat,
         NEW held, NEW stage, NEW L, Good(L, own, theirs, n, held, stage), NEW f \in Frame(theirs)
  PROVE  Good(handle_ack(L, f), own, theirs, n, held, stage)
<1> DEFINE marked == {s \in Segment : s < L.tx.total /\ (s < f.sequence \/ s \in f.bitmap)}
           M == MarkAcked(L, marked)
           S == start_or_resume_tx(M)
           R == [S EXCEPT !.deadline_set = TRUE]
<1>1. Good(TxDelivered(L), own, theirs, n, held, stage)  BY TxDeliveredGood
<1>2. CASE L.tx.active
  <2>1. marked \in SUBSET Segment /\ \A s \in marked : s < L.tx.total  OBVIOUS
  <2>2. handle_ack(L, f) \in {L, TxDelivered(L), R}  BY DEF handle_ack
  <2> HIDE DEF marked
  <2>3. Good(M, own, theirs, n, held, stage) /\ M.tx.active  BY <1>2, <2>1, MarkAckedGood
  <2> HIDE DEF M
  <2>4. Good(S, own, theirs, n, held, stage)  BY <2>3, StartOrResumeGood
  <2> HIDE DEF S
  <2>5. S \in EndState(own, theirs)  BY <2>4 DEF Good
  <2>6. R \in EndState(own, theirs) /\ Alike(R, S)  BY <2>5 DEF EndState, Alike
  <2> HIDE DEF R
  <2>7. Good(R, own, theirs, n, held, stage)  BY <2>4, <2>6, AlikeGood
  <2> QED  BY <1>1, <2>2, <2>7
<1>3. CASE ~L.tx.active  BY <1>3 DEF handle_ack
<1> QED  BY <1>2, <1>3


\* Whatever window a capability word names, the negotiated one is legal.
LEMMA NarrowedType ==
  ASSUME NEW own, NEW theirs, NEW L \in EndState(own, theirs), NEW f \in AnyFrame
  PROVE  Narrowed(L, f) \in KAL_MIN_WINDOW_FRAMES .. KAL_MAX_WINDOW_FRAMES
<1>1. L.window \in KAL_MIN_WINDOW_FRAMES .. KAL_MAX_WINDOW_FRAMES  BY DEF EndState
<1>2. L.window \in Int  BY <1>1 DEF KAL_MIN_WINDOW_FRAMES, KAL_MAX_WINDOW_FRAMES
<1>3. f.value \in Nat  BY DEF AnyFrame
<1>4. kal_capability_window(f.value) \in Int  BY <1>3 DEF kal_capability_window
<1> QED  BY <1>2, <1>4, WindowType DEF Narrowed

\* The answer to a HELLO.
LEMMA AcceptHelloGood ==
  ASSUME NEW own \in SUBSET Message, NEW theirs \in SUBSET Message, NEW n \in Nat,
         NEW held, NEW stage, NEW L, Good(L, own, theirs, n, held, stage), NEW f \in Frame(theirs)
  PROVE  Good(AcceptHello(L, f), own, theirs, n, held, stage)
<1> DEFINE H == [L EXCEPT !.session_id = f.session_id, !.window = Narrowed(L, f),
                          !.challenge = f.challenge]
           reply == [build_hello(H, "HELLO_ACK") EXCEPT !.message_id = f.message_id]
           S == [H EXCEPT !.hello_ack_cached = reply, !.hello_ack_valid = TRUE,
                          !.session_open = TRUE]
           O == queue_frame(S, reply)
<1>1. L \in EndState(own, theirs)  BY DEF Good
<1>2. f.session_id \in Nat /\ f.challenge \in Nat /\ f.message_id \in Nat /\ f.value \in Nat
  BY DEF Frame, AnyFrame
<1>3. Narrowed(L, f) \in KAL_MIN_WINDOW_FRAMES .. KAL_MAX_WINDOW_FRAMES
  BY <1>1, NarrowedType DEF Frame
<1>4. H \in EndState(own, theirs) /\ Alike(H, L)  BY <1>1, <1>2, <1>3 DEF EndState, Alike
<1>5. AcceptHello(L, f) \in {O, start_or_resume_tx(O)} /\ (~O.tx.active => AcceptHello(L, f) = O)
  BY DEF AcceptHello
<1> HIDE DEF H
<1>6. reply \in Frame({})
  <2> DEFINE hello == build_hello(H, "HELLO_ACK")
  <2>1. hello \in Frame({}) /\ hello.type = "HELLO_ACK"
    BY <1>4, HelloType DEF build_hello, ZeroFrame
  <2> HIDE DEF hello
  <2>2. hello \in AnyFrame /\ Canonical(hello)  BY <2>1 DEF Frame
  <2>3. reply = [hello EXCEPT !.message_id = f.message_id]  BY DEF hello
  <2>4. reply \in AnyFrame /\ reply.type = "HELLO_ACK"  BY <1>2, <2>1, <2>2, <2>3 DEF AnyFrame
  <2>5. Wire(reply) = Wire(hello)  BY <2>2, <2>3 DEF Wire, AnyFrame
  <2>6. Canonical(reply)  BY <2>1, <2>2, <2>4, <2>5 DEF Canonical
  <2> QED  BY <2>4, <2>6 DEF Frame
<1> HIDE DEF reply
<1>7. S \in EndState(own, theirs) /\ Alike(S, H)  BY <1>4, <1>6 DEF EndState, Alike
<1> HIDE DEF S
<1>8. Alike(S, L)  BY <1>4, <1>7 DEF Alike
<1>9. Good(S, own, theirs, n, held, stage)  BY <1>7, <1>8, AlikeGood
<1>10. reply \in Frame(own)  BY <1>6, AnyOwn
<1>11. Good(O, own, theirs, n, held, stage)  BY <1>9, <1>10, QueueFrameGood
<1> HIDE DEF O
<1>12. O.tx.active => Good(start_or_resume_tx(O), own, theirs, n, held, stage)
  BY <1>11, StartOrResumeGood
<1> QED  BY <1>5, <1>11, <1>12

\* handle_hello, whether it answers, repeats its answer, yields or ignores.
LEMMA HandleHelloGood ==
  ASSUME NEW own \in SUBSET Message, NEW theirs \in SUBSET Message, NEW n \in Nat,
         NEW held, NEW stage, NEW L, Good(L, own, theirs, n, held, stage), NEW f \in Frame(theirs)
  PROVE  Good(handle_hello(L, f), own, theirs, n, held, stage)
<1>1. L \in EndState(own, theirs)  BY DEF Good
<1> DEFINE C == clear_tx_message(L)
           Y == [C EXCEPT !.hello_pending = FALSE]
           X == clear_rx_message(L)
           Z == [X EXCEPT !.dup_cache = << >>]
<1>2. Good(Y, own, theirs, n, held, stage)
  <2>1. Good(C, own, theirs, n, held, stage)  BY ClearTxGood
  <2> HIDE DEF C
  <2>2. C \in EndState(own, theirs)  BY <2>1 DEF Good
  <2>3. Y \in EndState(own, theirs) /\ Alike(Y, C)  BY <2>2 DEF EndState, Alike
  <2> HIDE DEF Y
  <2> QED  BY <2>1, <2>3, AlikeGood
<1>3. Good(Z, own, theirs, n, held, stage)
  <2>1. Good(X, own, theirs, n, held, stage)  BY ClearRxGood
  <2> HIDE DEF X
  <2>2. X \in EndState(own, theirs)  BY <2>1 DEF Good
  <2>3. << >> \in Seq(DupEntry) /\ Len(<< >>) =< DupCacheEntries  BY BoundsAssumption
  <2>4. Z \in EndState(own, theirs)  BY <2>2, <2>3 DEF EndState
  <2>5. /\ Z.tx = X.tx /\ Z.out_frames = X.out_frames /\ Z.dup_cache = << >>
        /\ Z.rx = X.rx /\ Z.delivered = X.delivered /\ Z.submitted = X.submitted
    BY <2>2 DEF EndState
  <2> HIDE DEF Z
  <2> QED  BY <2>1, <2>3, <2>4, <2>5 DEF Good
<1>4. handle_hello(L, f) \in {L, AcceptHello(Y, f), AcceptHello(Z, f), AcceptHello(L, f),
                              queue_frame(L, L.hello_ack_cached)}
  <2> HIDE DEF Y, Z
  <2> QED  BY DEF handle_hello, Y, Z, C, X
<1> HIDE DEF Y, Z
<1>5. L.hello_ack_cached \in Frame(own)  BY <1>1, AnyOwn DEF EndState
<1>6. Good(queue_frame(L, L.hello_ack_cached), own, theirs, n, held, stage)  BY <1>5, QueueFrameGood
<1>7. Good(AcceptHello(Y, f), own, theirs, n, held, stage)  BY <1>2, AcceptHelloGood
<1>8. Good(AcceptHello(Z, f), own, theirs, n, held, stage)  BY <1>3, AcceptHelloGood
<1>9. Good(AcceptHello(L, f), own, theirs, n, held, stage)  BY AcceptHelloGood
<1> QED  BY <1>4, <1>6, <1>7, <1>8, <1>9

\* handle_hello_ack.
LEMMA HandleHelloAckGood ==
  ASSUME NEW own \in SUBSET Message, NEW theirs \in SUBSET Message, NEW n \in Nat,
         NEW held, NEW stage, NEW L, Good(L, own, theirs, n, held, stage), NEW f \in Frame(theirs)
  PROVE  Good(handle_hello_ack(L, f), own, theirs, n, held, stage)
<1> DEFINE O == [L EXCEPT !.hello_pending = FALSE, !.session_open = TRUE,
                          !.window = Narrowed(L, f), !.deadline_set = FALSE]
<1>1. L \in EndState(own, theirs)  BY DEF Good
<1>2. Narrowed(L, f) \in KAL_MIN_WINDOW_FRAMES .. KAL_MAX_WINDOW_FRAMES
  BY <1>1, NarrowedType DEF Frame
<1>3. O \in EndState(own, theirs) /\ Alike(O, L)  BY <1>1, <1>2 DEF EndState, Alike
<1>4. /\ handle_hello_ack(L, f) \in {L, O, start_or_resume_tx(O)}
      /\ handle_hello_ack(L, f) = start_or_resume_tx(O)
            => L.tx.active \/ handle_hello_ack(L, f) \in {L, O}
  BY DEF handle_hello_ack
<1> HIDE DEF O
<1>5. Good(O, own, theirs, n, held, stage)  BY <1>3, AlikeGood
<1>6. L.tx.active => O.tx.active  BY <1>3 DEF Alike
<1>7. L.tx.active => Good(start_or_resume_tx(O), own, theirs, n, held, stage)
  BY <1>5, <1>6, StartOrResumeGood
<1> QED  BY <1>4, <1>5, <1>7

\* handle_cancel.
LEMMA HandleCancelGood ==
  ASSUME NEW own \in SUBSET Message, NEW theirs \in SUBSET Message, NEW n \in Nat,
         NEW held, NEW stage, NEW L, Good(L, own, theirs, n, held, stage), NEW f \in Frame(theirs)
  PROVE  Good(handle_cancel(L, f), own, theirs, n, held, stage)
<1> DEFINE R == [L EXCEPT !.rx = NoRx, !.tx = NoTx, !.deadline_set = FALSE,
                          !.tx_status = "CANCELLED"]
<1>1. L \in EndState(own, theirs)  BY DEF Good
<1>2. R \in EndState(own, theirs)  BY <1>1, NoRxType, NoTxType DEF EndState, TxStatus
<1>3. /\ R.tx = NoTx /\ R.out_frames = L.out_frames /\ R.dup_cache = L.dup_cache
      /\ R.rx = NoRx /\ R.delivered = L.delivered /\ R.submitted = L.submitted
  BY <1>1 DEF EndState
<1>4. handle_cancel(L, f) \in {L, R}  BY DEF handle_cancel
<1> HIDE DEF R
<1>5. TxBooks(R.tx) /\ ~R.rx.active  BY <1>3, NoRxType, NoTxType
<1>6. Good(R, own, theirs, n, held, stage)  BY <1>2, <1>3, <1>5 DEF Good
<1> QED  BY <1>4, <1>6


\* handle_beacon stages a beacon only where nothing waits.
LEMMA HandleBeaconGood ==
  ASSUME NEW own \in SUBSET Message, NEW theirs \in SUBSET Message, NEW n \in Nat,
         NEW held, NEW stage, NEW L, Good(L, own, theirs, n, held, stage), held \subseteq Message,
         NEW f \in Frame(theirs), f.type = "BEACON",
         Beacon \subseteq stage \/ stage \subseteq Message
  PROVE  Good(handle_beacon(L, f), own, theirs, n, held, stage)
<1> DEFINE D == [L EXCEPT !.delivered = f.payload]
           S == dup_store(D, f.session_id, f.message_id, ZeroFrame)
<1>1. f.session_id \in Nat /\ f.message_id \in Nat /\ f.payload \in Beacon
  BY DEF Frame, AnyFrame
<1>2. /\ D \in EndState(own, theirs)
      /\ D.tx = L.tx /\ D.out_frames = L.out_frames /\ D.dup_cache = L.dup_cache
      /\ D.delivered = f.payload /\ D.submitted = L.submitted
  <2>1. L \in EndState(own, theirs) /\ f.payload \in theirs \cup Beacon \cup {NoBody}
    BY <1>1 DEF Good
  <2> QED  BY <2>1 DEF EndState
<1>3. f.payload \notin held  BY <1>1, DataAssumption
<1>4. handle_beacon(L, f) \in {L, S}  BY DEF handle_beacon
<1>5. CASE ~(Beacon \subseteq stage)
  <2>1. L.delivered # NoBody  BY <1>5, DataAssumption DEF Good
  <2> QED  BY <2>1 DEF handle_beacon
<1>6. CASE Beacon \subseteq stage
  <2>1. f.payload \in stage  BY <1>1, <1>6
  <2> HIDE DEF D
  <2>2. Good(D, own, theirs, n, held, stage)  BY <1>2, <1>3, <2>1 DEF Good
  <2>3. Good(S, own, theirs, n, held, stage)  BY <1>1, <2>2, ZeroFrameType, DupStoreGood
  <2> HIDE DEF S
  <2> QED  BY <1>4, <2>3
<1> QED  BY <1>5, <1>6

\* Whatever frame arrives, handle_frame leaves a good end behind.
LEMMA HandleFrameGood ==
  ASSUME NEW own \in SUBSET Message, NEW theirs \in SUBSET Message, NEW n \in Nat,
         NEW stage, NEW L, Good(L, own, theirs, n, Message, stage), NEW f \in Frame(theirs),
         stage = Body \/ stage \subseteq Message
  PROVE  Good(handle_frame(L, f), own, theirs, n, Message, stage)
<1>1. (stage = Body => theirs \subseteq stage) /\ (stage = Body => Beacon \subseteq stage)
  BY DEF Body
<1>2. Good(handle_hello(L, f), own, theirs, n, Message, stage)  BY HandleHelloGood
<1>3. Good(handle_hello_ack(L, f), own, theirs, n, Message, stage)  BY HandleHelloAckGood
<1>4. f.type = "DATA" => Good(handle_data(L, f), own, theirs, n, Message, stage)
  BY <1>1, HandleDataGood
<1>5. Good(handle_ack(L, f), own, theirs, n, Message, stage)  BY HandleAckGood
<1>6. Good(handle_cancel(L, f), own, theirs, n, Message, stage)  BY HandleCancelGood
<1>7. f.type = "BEACON" => Good(handle_beacon(L, f), own, theirs, n, Message, stage)
  BY <1>1, HandleBeaconGood
<1>8. f.type \in FrameTypes \cup {"NONE"}  BY DEF Frame, AnyFrame
<1> QED  BY <1>2, <1>3, <1>4, <1>5, <1>6, <1>7, <1>8 DEF handle_frame, FrameTypes

\* advance_time: a retry, another HELLO, or the end of the budget.
LEMMA AdvanceTimeGood ==
  ASSUME NEW own \in SUBSET Message, NEW theirs \in SUBSET Message, NEW n \in Nat,
         NEW held, NEW stage, NEW L, Good(L, own, theirs, n, held, stage)
  PROVE  Good(advance_time(L), own, theirs, n, held, stage)
<1> DEFINE X == [L EXCEPT !.deadline_set = FALSE]
           C == clear_tx_message(X)
           T == [C EXCEPT !.hello_pending = FALSE, !.tx_status = "TIMEOUT"]
           Q == queue_frame(X, build_hello(X, "HELLO"))
           H == [Q EXCEPT !.hello_retries = @ + 1, !.deadline_set = TRUE]
           F == fail_tx(X, "TIMEOUT")
           tx == [X.tx EXCEPT !.retries = @ + 1, !.inflight = {}]
           R == [X EXCEPT !.tx = tx]
<1>1. L \in EndState(own, theirs)  BY DEF Good
<1>2. X \in EndState(own, theirs) /\ Alike(X, L) /\ X.hello_retries = L.hello_retries
  BY <1>1 DEF EndState, Alike
<1>3. Good(X, own, theirs, n, held, stage)  BY <1>2, AlikeGood
<1>4. Retry(X) = R  BY DEF Retry
<1>5. \/ advance_time(L) \in {X, T, F}
      \/ L.hello_retries < MaxRetries /\ advance_time(L) = H
      \/ /\ X.tx.active /\ X.tx.retries < MaxRetries
         /\ advance_time(L) = start_or_resume_tx(R)
  <2>1. /\ L.hello_retries \in Nat /\ L.tx.retries \in Nat /\ MaxRetries \in Nat
        /\ X.tx = L.tx
    BY <1>1, <1>2, BoundsAssumption DEF EndState, TxState, Alike
  <2>2. (L.hello_retries >= MaxRetries) = ~(L.hello_retries < MaxRetries)  BY <2>1
  <2>3. (L.tx.retries >= MaxRetries) = ~(L.tx.retries < MaxRetries)  BY <2>1
  <2> HIDE DEF T, H, F, R
  <2> QED  BY <1>4, <2>1, <2>2, <2>3 DEF advance_time, GiveUpHello, T, H, F, C, Q
<1> HIDE DEF X
<1>6. Good(T, own, theirs, n, held, stage)
  <2>1. Good(C, own, theirs, n, held, stage)  BY <1>3, ClearTxGood
  <2> HIDE DEF C
  <2>2. C \in EndState(own, theirs)  BY <2>1 DEF Good
  <2>3. T \in EndState(own, theirs) /\ Alike(T, C)  BY <2>2 DEF EndState, Alike, TxStatus
  <2> HIDE DEF T
  <2> QED  BY <2>1, <2>3, AlikeGood
<1>7. L.hello_retries < MaxRetries => Good(H, own, theirs, n, held, stage)
  <2> SUFFICES ASSUME L.hello_retries < MaxRetries PROVE Good(H, own, theirs, n, held, stage)
    OBVIOUS
  <2>1. build_hello(X, "HELLO") \in Frame(own)  BY <1>2, HelloType, AnyOwn
  <2>2. Good(Q, own, theirs, n, held, stage)  BY <1>3, <2>1, QueueFrameGood
  <2>3. Q.hello_retries = X.hello_retries  BY <1>2 DEF queue_frame, EndState
  <2> HIDE DEF Q
  <2>4. Q \in EndState(own, theirs)  BY <2>2 DEF Good
  <2>5. Q.hello_retries + 1 \in 0 .. MaxRetries
    <3>1. L.hello_retries \in 0 .. MaxRetries  BY <1>1 DEF EndState
    <3> QED  BY <3>1, <2>3, <1>2, BoundsAssumption
  <2>6. H \in EndState(own, theirs) /\ Alike(H, Q)  BY <2>4, <2>5 DEF EndState, Alike
  <2> HIDE DEF H
  <2> QED  BY <2>2, <2>6, AlikeGood
<1>8. Good(F, own, theirs, n, held, stage)  BY <1>3, FailTxGood DEF TxStatus
<1>9. X.tx.active /\ X.tx.retries < MaxRetries
        => Good(start_or_resume_tx(R), own, theirs, n, held, stage)
  <2> SUFFICES ASSUME X.tx.active, X.tx.retries < MaxRetries
               PROVE  Good(start_or_resume_tx(R), own, theirs, n, held, stage)
    OBVIOUS
  <2>1. X.tx \in TxState(own) /\ TxBooks(X.tx)  BY <1>2, <1>3 DEF EndState, Good
  <2>2. X.tx.retries + 1 \in 0 .. MaxRetries
    <3>1. X.tx.retries \in 0 .. MaxRetries  BY <2>1 DEF TxState
    <3> QED  BY <3>1, BoundsAssumption
  <2>3. tx \in TxState(own)  BY <2>1, <2>2 DEF TxState
  <2>4. /\ tx.acked = X.tx.acked /\ tx.inflight = {} /\ tx.base = X.tx.base
        /\ tx.total = X.tx.total /\ tx.active = X.tx.active /\ tx.payload = X.tx.payload
    BY <2>1 DEF TxState
  <2> HIDE DEF tx
  <2>5. TxBooks(tx)  BY <2>1, <2>4 DEF TxBooks
  <2>6. R \in EndState(own, theirs)  BY <1>2, <2>3 DEF EndState
  <2>7. /\ R.tx = tx /\ R.out_frames = X.out_frames /\ R.dup_cache = X.dup_cache
        /\ R.rx = X.rx /\ R.delivered = X.delivered /\ R.submitted = X.submitted
    BY <1>2 DEF EndState
  <2> HIDE DEF R
  <2>8. Good(R, own, theirs, n, held, stage) /\ R.tx.active
    BY <1>3, <2>4, <2>5, <2>6, <2>7 DEF Good
  <2> QED  BY <2>8, StartOrResumeGood
<1> HIDE DEF T, H, F, R
<1> QED  BY <1>3, <1>5, <1>6, <1>7, <1>8, <1>9


----------------------------------------------------------------------------
(* The system.                                                             *)

\* The inductive invariant.  TypeOK alone is not inductive: a queue stays typed only
\* if the books of the transfer are in order, and what is delivered is typed by what
\* the peer has submitted so far.
IInv ==
  /\ link \in [End -> EndState(Message, Message)]
  /\ air \in [End -> Seq(Frame(Message))]
  /\ drawn \subseteq SessionIds
  /\ spent \in [Spent -> Nat]
  /\ \A e \in End :
       /\ link[e].submitted =< Len(Outbox[e])
       /\ Good(link[e], Submitted(e), Submitted(Peer(e)), link[e].submitted, Message, Body)
       /\ air[e] \in Seq(Frame(Submitted(e)))

\* Each of the two ends is the other's peer.
LEMMA PeerType ==
  ASSUME NEW e \in End
  PROVE  /\ Peer(e) \in End /\ Peer(e) # e
         /\ \A d \in End : d = e \/ d = Peer(e)
         /\ Peer(Peer(e)) = e
<1>1. PICK x, y \in End : x # y /\ End = {x, y}  BY EndsAssumption
<1>2. \A c \in End : \E d \in End : d # c  BY <1>1
<1>3. \A c \in End : Peer(c) \in End /\ Peer(c) # c  BY <1>2 DEF Peer
<1> QED  BY <1>1, <1>3

\* What an application has submitted are messages, and it only grows.
LEMMA SubmittedType ==
  ASSUME IInv, NEW e \in End
  PROVE  /\ Submitted(e) \in SUBSET Message
         /\ link[e].submitted \in Nat
<1>1. link[e].submitted \in Nat /\ link[e].submitted =< Len(Outbox[e])
  BY DEF IInv, EndState
<1>2. Outbox[e] \in Seq(Message)  BY DataAssumption
<1>3. \A i \in 1 .. link[e].submitted : Outbox[e][i] \in Message  BY <1>1, <1>2
<1> QED  BY <1>1, <1>3 DEF Submitted

\* A step of end e, which may have submitted one more message, keeps the invariant
\* when it leaves that end good and the air typed.
LEMMA StepInv ==
  ASSUME IInv, NEW e \in End,
         link' = [link EXCEPT ![e] = link'[e]],
         Good(link'[e], Submitted(e)', Submitted(Peer(e)), link'[e].submitted, Message, Body),
         Submitted(e)' \in SUBSET Message,
         Submitted(e) \subseteq Submitted(e)',
         link'[e].submitted =< Len(Outbox[e]),
         drawn' \subseteq SessionIds,
         spent' \in [Spent -> Nat],
         air' = [d \in End |-> air'[d]],
         \A d \in End : air'[d] \in Seq(Frame(Submitted(d)'))
  PROVE  IInv'
<1> DEFINE p == Peer(e)
<1>1. /\ p \in End /\ p # e /\ Peer(p) = e
      /\ \A d \in End : d = e \/ d = p
  BY PeerType
<1> HIDE DEF p
<1>2. Submitted(p) \in SUBSET Message /\ Submitted(e) \in SUBSET Message
  BY <1>1, SubmittedType
<1>3. link'[p] = link[p]  BY <1>1 DEF IInv
<1>4. Submitted(p)' = Submitted(p)  BY <1>3 DEF Submitted
<1>5. Good(link[p], Submitted(p), Submitted(e), link[p].submitted, Message, Body)
  BY <1>1 DEF IInv
<1>6. Good(link[p], Submitted(p), Submitted(e)', link[p].submitted, Message, Body)
  <2>1. link[p] \in EndState(Submitted(p), Submitted(e))  BY <1>5 DEF Good
  <2>2. EndState(Submitted(p), Submitted(e)) \subseteq EndState(Submitted(p), Submitted(e)')
    BY <1>2, EndStateMonotonic
  <2> QED  BY <1>5, <2>1, <2>2 DEF Good
<1>7. \A d \in End :
        /\ link'[d].submitted =< Len(Outbox[d])
        /\ Good(link'[d], Submitted(d)', Submitted(Peer(d))', link'[d].submitted, Message, Body)
        /\ air'[d] \in Seq(Frame(Submitted(d)'))
  <2>1. /\ link'[p].submitted =< Len(Outbox[p])
        /\ Good(link'[p], Submitted(p)', Submitted(Peer(p))', link'[p].submitted, Message, Body)
    BY <1>1, <1>3, <1>4, <1>6 DEF IInv
  <2>2. Good(link'[e], Submitted(e)', Submitted(Peer(e))', link'[e].submitted, Message, Body)
    BY <1>4 DEF p
  <2> QED  BY <1>1, <2>1, <2>2
<1>8. link' \in [End -> EndState(Message, Message)]
  <2>1. link'[e] \in EndState(Message, Message)
    <3>1. link'[e] \in EndState(Submitted(e)', Submitted(p))  BY DEF Good, p
    <3>2. EndState(Submitted(e)', Submitted(p)) \subseteq EndState(Message, Message)
      BY <1>2, EndStateMonotonic
    <3> QED  BY <3>1, <3>2
  <2> QED  BY <2>1 DEF IInv
<1>9. air' \in [End -> Seq(Frame(Message))]
  <2>1. ASSUME NEW d \in End PROVE air'[d] \in Seq(Frame(Message))
    <3>1. Submitted(d)' \subseteq Message  BY <1>1, <1>2, <1>4
    <3>2. Frame(Submitted(d)') \subseteq Frame(Message)  BY <3>1, FrameMonotonic
    <3> QED  BY <3>2
  <2> QED  BY <2>1
<1> QED  BY <1>7, <1>8, <1>9 DEF IInv


\* A step of end e that submits nothing.
LEMMA QuietStepInv ==
  ASSUME IInv, NEW e \in End,
         link' = [link EXCEPT ![e] = link'[e]],
         Good(link'[e], Submitted(e), Submitted(Peer(e)), link[e].submitted, Message, Body),
         drawn' \subseteq SessionIds,
         spent' \in [Spent -> Nat],
         air' = [d \in End |-> air'[d]],
         \A d \in End : air'[d] \in Seq(Frame(Submitted(d)))
  PROVE  IInv'
<1>1. link'[e].submitted = link[e].submitted  BY DEF Good
<1>2. Submitted(e)' = Submitted(e)  BY <1>1 DEF Submitted
<1>3. \A d \in End : Submitted(d)' = Submitted(d)
  <2>1. \A d \in End : d # e => link'[d] = link[d]  BY DEF IInv
  <2> SUFFICES ASSUME NEW d \in End, d # e PROVE Submitted(d)' = Submitted(d)  BY <1>2
  <2> QED  BY <2>1 DEF Submitted
<1>4. Submitted(e) \in SUBSET Message  BY SubmittedType
<1>5. link'[e].submitted =< Len(Outbox[e])  BY <1>1 DEF IInv
<1>6. Good(link'[e], Submitted(e)', Submitted(Peer(e)), link'[e].submitted, Message, Body)
  BY <1>1, <1>2
<1> QED  BY <1>2, <1>3, <1>4, <1>5, <1>6, StepInv

\* A disturbance is counted.
LEMMA SpendType ==
  ASSUME IInv, NEW k \in Spent, Spend(k) PROVE spent' \in [Spent -> Nat]
<1>1. spent \in [Spent -> Nat]  BY DEF IInv
<1>2. \A j \in Spent : spent[j] + (IF j \in {k, "any"} THEN 1 ELSE 0) \in Nat  BY <1>1
<1> QED  BY <1>2 DEF Spend

\* Before anything happens.
LEMMA InitInv == Init => IInv
<1> SUFFICES ASSUME Init PROVE IInv
  OBVIOUS
<1>1. /\ \A e \in End : link[e] = kal_link_create(e)
      /\ link = [e \in End |-> kal_link_create(e)]
      /\ \A e \in End : air[e] = << >>
      /\ air = [e \in End |-> << >>]
      /\ drawn = {} /\ spent = [k \in Spent |-> 0]
  BY DEF Init
<1>2. ASSUME NEW e \in End, NEW own \in SUBSET Message, NEW theirs \in SUBSET Message
      PROVE  Good(kal_link_create(e), own, theirs, 0, Message, Body)
  <2> DEFINE L == kal_link_create(e)
  <2>1. /\ Role[e] \in {"initiator", "responder"} /\ Profile[e] \in 0 .. KAL_PROFILE_COUNT - 1
        /\ Accepts[e] \in SUBSET Message
    BY OptionsAssumption
  <2>2. clamp_window(Window[e]) \in KAL_MIN_WINDOW_FRAMES .. KAL_MAX_WINDOW_FRAMES
    <3>1. Window[e] \in Int
      BY OptionsAssumption DEF KAL_MIN_WINDOW_FRAMES, KAL_MAX_WINDOW_FRAMES
    <3> QED  BY <3>1, WindowType
  <2>3. FirstMessageId(Role[e]) \in Nat  BY DEF FirstMessageId
  <2>4. /\ ZeroFrame \in Frame({}) /\ NoTx \in TxState(own) /\ NoRx \in RxState(theirs)
        /\ 0 \in 0 .. MaxRetries /\ "OK" \in TxStatus
        /\ << >> \in Seq(Frame(own)) /\ << >> \in Seq(DupEntry)
        /\ [messages_delivered |-> << >>, messages_sent |-> << >>] \in Stats(own, theirs)
    BY ZeroFrameType, NoTxType, NoRxType, BoundsAssumption DEF TxStatus, Stats
  <2>5. L \in EndState(own, theirs)
    BY <2>1, <2>2, <2>3, <2>4 DEF kal_link_create, EndState
  <2>6. /\ L.tx = NoTx /\ L.rx = NoRx /\ L.out_frames = << >> /\ L.dup_cache = << >>
        /\ L.submitted = 0 /\ L.delivered = NoBody /\ NoBody \in Body
    BY DEF kal_link_create, Body
  <2> HIDE DEF L
  <2>7. Len(L.out_frames) =< OutQueueFrames /\ Len(L.dup_cache) =< DupCacheEntries
    BY <2>6, BoundsAssumption
  <2>8. Good(L, own, theirs, 0, Message, Body)
    BY <2>5, <2>6, <2>7, NoTxType, NoRxType DEF Good
  <2> QED  BY <2>8 DEF L
<1>3. \A e \in End : kal_link_create(e).submitted = 0  BY DEF kal_link_create
<1>4. \A e \in End : Submitted(e) = {}  BY <1>1, <1>3 DEF Submitted
<1>5. link \in [End -> EndState(Message, Message)]
  <2>1. \A e \in End : kal_link_create(e) \in EndState(Message, Message)  BY <1>2 DEF Good
  <2> QED  BY <1>1, <2>1
<1>6. air \in [End -> Seq(Frame(Message))]  BY <1>1
<1>7. ASSUME NEW e \in End
      PROVE  /\ link[e].submitted =< Len(Outbox[e])
             /\ Good(link[e], Submitted(e), Submitted(Peer(e)), link[e].submitted, Message, Body)
             /\ air[e] \in Seq(Frame(Submitted(e)))
  <2>1. Outbox[e] \in Seq(Message)  BY DataAssumption
  <2>2. Len(Outbox[e]) \in Nat  BY <2>1
  <2>3. Submitted(Peer(e)) = {} /\ Submitted(e) = {}  BY <1>4, PeerType
  <2>4. Good(kal_link_create(e), {}, {}, 0, Message, Body)  BY <1>2
  <2> QED  BY <1>1, <1>3, <2>2, <2>3, <2>4
<1> QED  BY <1>1, <1>5, <1>6, <1>7 DEF IInv


\* kal_send: the message joins what the end has submitted.
LEMMA SubmitInv ==
  ASSUME IInv, NEW e \in End, Sendable(e), NEW draw, draw.ok \in BOOLEAN, draw.id \in Nat,
         Becomes(e, kal_send(link[e], NextMessage(e), draw)),
         drawn' \subseteq SessionIds, spent' \in [Spent -> Nat], air' = air
  PROVE  IInv'
<1> DEFINE m == NextMessage(e)
           n == link[e].submitted
           own == Submitted(e)
           theirs == Submitted(Peer(e))
<1>1. /\ own \in SUBSET Message /\ theirs \in SUBSET Message /\ n \in Nat
  BY SubmittedType, PeerType
<1>2. Good(link[e], own, theirs, n, Message, Body) /\ n =< Len(Outbox[e])  BY DEF IInv
<1>3. Outbox[e] \in Seq(Message) /\ n < Len(Outbox[e])  BY DataAssumption DEF Sendable
<1>4. n + 1 \in 1 .. Len(Outbox[e])  BY <1>1, <1>3
<1>5. m \in Message  BY <1>3, <1>4 DEF NextMessage
<1>6. link'[e] = kal_send(link[e], m, draw)  BY DEF Becomes, IInv
<1> HIDE DEF m
<1>7. Good(link'[e], own \cup {m}, theirs, n + 1, Message, Body)
  BY <1>1, <1>2, <1>5, <1>6, SendGood
<1>8. link'[e].submitted = n + 1  BY <1>7 DEF Good
<1>9. Submitted(e)' = own \cup {m}
  <2>1. Submitted(e)' = {Outbox[e][i] : i \in 1 .. n + 1}  BY <1>8 DEF Submitted
  <2>2. own = {Outbox[e][i] : i \in 1 .. n}  BY DEF Submitted
  <2>3. m = Outbox[e][n + 1]  BY DEF m, NextMessage
  <2> HIDE DEF own, n
  <2>4. \A i : i \in 1 .. n + 1 <=> i \in 1 .. n \/ i = n + 1  BY <1>1
  <2> QED  BY <2>1, <2>2, <2>3, <2>4
<1>10. link' = [link EXCEPT ![e] = link'[e]]  BY <1>6 DEF Becomes, m
<1>11. \A d \in End : Submitted(d) \subseteq Submitted(d)'
  <2>1. \A d \in End : d # e => link'[d] = link[d]  BY <1>10 DEF IInv
  <2>2. ASSUME NEW d \in End, d # e PROVE Submitted(d) = Submitted(d)'
    BY <2>1, <2>2 DEF Submitted
  <2> QED  BY <1>9, <2>2
<1>12. \A d \in End : air'[d] \in Seq(Frame(Submitted(d)'))
  <2> SUFFICES ASSUME NEW d \in End PROVE air'[d] \in Seq(Frame(Submitted(d)'))
    OBVIOUS
  <2>1. air'[d] \in Seq(Frame(Submitted(d)))  BY DEF IInv
  <2>2. Frame(Submitted(d)) \subseteq Frame(Submitted(d)')  BY <1>11, FrameMonotonic
  <2> QED  BY <2>1, <2>2
<1>13. air' = [d \in End |-> air'[d]]  BY DEF IInv
<1>14. Submitted(e)' \in SUBSET Message /\ link'[e].submitted =< Len(Outbox[e])
  BY <1>1, <1>4, <1>5, <1>8, <1>9
<1>15. Good(link'[e], Submitted(e)', Submitted(Peer(e)), link'[e].submitted, Message, Body)
  BY <1>7, <1>8, <1>9
<1>16. Submitted(e) \subseteq Submitted(e)'  BY <1>9
<1> HIDE DEF n, own, theirs
<1> QED  BY <1>10, <1>12, <1>13, <1>14, <1>15, <1>16, StepInv

\* The guards of a step that leaves the air and the ids drawn alone.
LEMMA LocalStepInv ==
  ASSUME IInv, NEW e \in End, link' = [link EXCEPT ![e] = link'[e]],
         Good(link'[e], Submitted(e), Submitted(Peer(e)), link[e].submitted, Message, Body),
         air' = air, drawn' = drawn, spent' \in [Spent -> Nat]
  PROVE  IInv'
<1>1. /\ drawn' \subseteq SessionIds
      /\ air' = [d \in End |-> air'[d]]
      /\ \A d \in End : air'[d] \in Seq(Frame(Submitted(d)))
  BY DEF IInv
<1> QED  BY <1>1, QuietStepInv

\* Every action keeps the invariant.
LEMMA NextInv == IInv /\ [Next]_vars => IInv'
<1> SUFFICES ASSUME IInv, [Next]_vars PROVE IInv'
  OBVIOUS
<1>1. CASE UNCHANGED vars
  <2>1. \A d \in End : Submitted(d)' = Submitted(d)  BY <1>1 DEF vars, Submitted
  <2>2. \A d \in End : Peer(d) \in End  BY PeerType
  <2> QED  BY <1>1, <2>1, <2>2 DEF vars, IInv
<1>2. ASSUME NEW e \in End,
             \/ Send(e) \/ SendOpening(e) \/ SendWithoutEntropy(e)
             \/ SendBeacon(e) \/ Cancel(e) \/ Reset(e) \/ Collect(e)
             \/ Expire(e) \/ Age(e) \/ Pull(e) \/ Lose(e)
             \/ \E type \in FrameTypes \cup {"NONE"} : Hear(e, type)
      PROVE  IInv'
  <2> DEFINE own == Submitted(e)
             theirs == Submitted(Peer(e))
             n == link[e].submitted
             p == Peer(e)
  <2>1. /\ own \in SUBSET Message /\ theirs \in SUBSET Message /\ n \in Nat
        /\ Good(link[e], own, theirs, n, Message, Body)
        /\ link \in [End -> EndState(Message, Message)]
        /\ link[e] \in EndState(own, theirs)
        /\ air \in [End -> Seq(Frame(Message))]
    BY SubmittedType, PeerType DEF IInv, Good
  <2>2. spent \in [Spent -> Nat] /\ drawn \subseteq SessionIds  BY DEF IInv
  <2>3. \A d \in End : air[d] \in Seq(Frame(Submitted(d)))  BY DEF IInv
  <2>4. p \in End /\ p # e  BY PeerType
  <2> HIDE DEF own, theirs, n, p
  <2>5. CASE Send(e)
    <3> DEFINE draw == [ok |-> TRUE, id |-> 0]
    <3>1. draw.ok \in BOOLEAN /\ draw.id \in Nat  OBVIOUS
    <3>2. /\ Sendable(e) /\ Becomes(e, kal_send(link[e], NextMessage(e), draw))
          /\ air' = air /\ drawn' = drawn /\ spent' = spent
      BY <2>5 DEF Send
    <3> HIDE DEF draw
    <3> QED  BY <2>2, <3>1, <3>2, SubmitInv
  <2>6. CASE SendOpening(e)
    <3>1. PICK id \in SessionIds \ drawn :
            /\ Becomes(e, kal_send(link[e], NextMessage(e), [ok |-> TRUE, id |-> id]))
            /\ drawn' = drawn \cup {id}
      BY <2>6 DEF SendOpening
    <3> DEFINE draw == [ok |-> TRUE, id |-> id]
    <3>2. draw.ok \in BOOLEAN /\ draw.id \in Nat  BY DataAssumption
    <3>3. /\ Sendable(e) /\ air' = air /\ spent' = spent
          /\ Becomes(e, kal_send(link[e], NextMessage(e), draw))
      BY <2>6, <3>1 DEF SendOpening
    <3> HIDE DEF draw
    <3> QED  BY <2>2, <3>1, <3>2, <3>3, SubmitInv
  <2>7. CASE SendWithoutEntropy(e)
    <3> DEFINE draw == [ok |-> FALSE, id |-> 0]
    <3>1. draw.ok \in BOOLEAN /\ draw.id \in Nat  OBVIOUS
    <3>2. /\ Sendable(e) /\ Becomes(e, kal_send(link[e], NextMessage(e), draw))
          /\ air' = air /\ drawn' = drawn
      BY <2>7 DEF SendWithoutEntropy
    <3>3. spent' \in [Spent -> Nat]
      <4>1. Spend("entropy") /\ "entropy" \in Spent  BY <2>7 DEF SendWithoutEntropy, Spent
      <4> QED  BY <4>1, SpendType
    <3> HIDE DEF draw
    <3> QED  BY <2>2, <3>1, <3>2, <3>3, SubmitInv
  <2>8. CASE SendBeacon(e)
    <3>1. Spend("beacon") /\ "beacon" \in Spent /\ air' = air /\ drawn' = drawn
      BY <2>8 DEF SendBeacon, Spent
    <3>2. PICK b \in Beacon : link' = [link EXCEPT ![e] = kal_beacon(link[e], b)]
      BY <2>8 DEF SendBeacon, Becomes
    <3>3. link'[e] = kal_beacon(link[e], b)  BY <2>1, <3>2
    <3>4. Good(link'[e], own, theirs, n, Message, Body)  BY <2>1, <3>3, BeaconGood
    <3>5. spent' \in [Spent -> Nat]  BY <3>1, SpendType
    <3> QED  BY <3>1, <3>2, <3>3, <3>4, <3>5, LocalStepInv DEF own, theirs, n
  <2>9. CASE Cancel(e)
    <3>1. Spend("cancel") /\ "cancel" \in Spent /\ air' = air /\ drawn' = drawn
      BY <2>9 DEF Cancel, Spent
    <3>2. link' = [link EXCEPT ![e] = kal_cancel(link[e])]  BY <2>9 DEF Cancel, Becomes
    <3>3. link'[e] = kal_cancel(link[e])  BY <2>1, <3>2
    <3>4. Good(link'[e], own, theirs, n, Message, Body)  BY <2>1, <3>3, CancelGood
    <3>5. spent' \in [Spent -> Nat]  BY <3>1, SpendType
    <3> QED  BY <3>1, <3>2, <3>3, <3>4, <3>5, LocalStepInv DEF own, theirs, n
  <2>10. CASE Reset(e)
    <3>1. Spend("reset") /\ "reset" \in Spent /\ air' = air /\ drawn' = drawn
      BY <2>10 DEF Reset, Spent
    <3>2. link' = [link EXCEPT ![e] = kal_link_reset(link[e])]  BY <2>10 DEF Reset, Becomes
    <3>3. link'[e] = kal_link_reset(link[e])  BY <2>1, <3>2
    <3>4. NoBody \in Body  BY DEF Body
    <3>5. Good(link'[e], own, theirs, n, Message, Body)  BY <2>1, <3>3, <3>4, ResetGood
    <3>6. spent' \in [Spent -> Nat]  BY <3>1, SpendType
    <3> QED  BY <3>1, <3>2, <3>3, <3>5, <3>6, LocalStepInv DEF own, theirs, n
  <2>11. CASE Collect(e)
    <3> DEFINE R == [link[e] EXCEPT !.delivered = NoBody]
    <3>1. link' = [link EXCEPT ![e] = R] /\ air' = air /\ drawn' = drawn /\ spent' = spent
      BY <2>11 DEF Collect, Becomes
    <3>2. link'[e] = R  BY <2>1, <3>1
    <3>3. R \in EndState(own, theirs)  BY <2>1 DEF EndState
    <3>4. /\ R.tx = link[e].tx /\ R.out_frames = link[e].out_frames
          /\ R.dup_cache = link[e].dup_cache /\ R.rx = link[e].rx
          /\ R.delivered = NoBody /\ R.submitted = link[e].submitted
      BY <2>1 DEF EndState
    <3> HIDE DEF R
    <3>5. R.delivered \notin Message /\ R.delivered \in Body  BY <3>4, DataAssumption DEF Body
    <3>6. Good(R, own, theirs, n, Message, Body)  BY <2>1, <3>3, <3>4, <3>5 DEF Good
    <3> QED  BY <2>2, <3>1, <3>2, <3>6, LocalStepInv DEF own, theirs, n
  <2>12. CASE Expire(e)
    <3>1. /\ link' = [link EXCEPT ![e] = advance_time(link[e])]
          /\ air' = air /\ drawn' = drawn /\ spent' = spent
      BY <2>12 DEF Expire, Becomes
    <3>2. link'[e] = advance_time(link[e])  BY <2>1, <3>1
    <3>3. Good(link'[e], own, theirs, n, Message, Body)  BY <2>1, <3>2, AdvanceTimeGood
    <3> QED  BY <2>2, <3>1, <3>2, <3>3, LocalStepInv DEF own, theirs, n
  <2>13. CASE Age(e)
    <3> DEFINE R == [link[e] EXCEPT !.dup_cache = Tail(@)]
               cache == Tail(link[e].dup_cache)
    <3>1. /\ link' = [link EXCEPT ![e] = R] /\ air' = air /\ drawn' = drawn
          /\ Spend("age") /\ "age" \in Spent /\ link[e].dup_cache # << >>
      BY <2>13 DEF Age, Becomes, Spent
    <3>2. link'[e] = R  BY <2>1, <3>1
    <3>3. link[e].dup_cache \in Seq(DupEntry) /\ Len(link[e].dup_cache) =< DupCacheEntries
      BY <2>1 DEF EndState, Good
    <3>4. cache \in Seq(DupEntry) /\ Len(cache) = Len(link[e].dup_cache) - 1
      BY <3>1, <3>3
    <3>5. Len(cache) =< DupCacheEntries
      <4>1. Len(link[e].dup_cache) \in Nat /\ DupCacheEntries \in Nat  BY <3>3, BoundsAssumption
      <4> QED  BY <3>3, <3>4, <4>1
    <3>6. R = [link[e] EXCEPT !.dup_cache = cache]  OBVIOUS
    <3> HIDE DEF R, cache
    <3>7. R \in EndState(own, theirs)  BY <2>1, <3>4, <3>6 DEF EndState
    <3>8. /\ R.tx = link[e].tx /\ R.out_frames = link[e].out_frames
          /\ R.dup_cache = cache /\ R.rx = link[e].rx
          /\ R.delivered = link[e].delivered /\ R.submitted = link[e].submitted
      BY <2>1, <3>6 DEF EndState
    <3>9. Good(R, own, theirs, n, Message, Body)  BY <2>1, <3>5, <3>7, <3>8 DEF Good
    <3>10. spent' \in [Spent -> Nat]  BY <3>1, SpendType
    <3> QED  BY <3>1, <3>2, <3>9, <3>10, LocalStepInv DEF own, theirs, n
  <2>14. CASE Pull(e)
    <3> DEFINE q == link[e].out_frames
               R == [link[e] EXCEPT !.out_frames = Tail(@)]
    <3>1. /\ link' = [link EXCEPT ![e] = R] /\ drawn' = drawn /\ spent' = spent
          /\ air' = [air EXCEPT ![e] = Append(@, Head(q))]
          /\ q # << >>
      BY <2>14 DEF Pull, Becomes
    <3>2. link'[e] = R  BY <2>1, <3>1
    <3>3. q \in Seq(Frame(own)) /\ Len(q) =< OutQueueFrames  BY <2>1 DEF EndState, Good
    <3>4. /\ Head(q) \in Frame(own) /\ Tail(q) \in Seq(Frame(own))
          /\ Len(Tail(q)) = Len(q) - 1
      BY <3>1, <3>3
    <3>5. Len(Tail(q)) =< OutQueueFrames
      <4>1. Len(q) \in Nat /\ OutQueueFrames \in Nat  BY <3>3, BoundsAssumption
      <4> QED  BY <3>3, <3>4, <4>1
    <3> DEFINE tail == Tail(q)
    <3>6. R = [link[e] EXCEPT !.out_frames = tail]  OBVIOUS
    <3> HIDE DEF R, tail
    <3>7. tail \in Seq(Frame(own)) /\ Len(tail) =< OutQueueFrames  BY <3>4, <3>5 DEF tail
    <3>8. R \in EndState(own, theirs)  BY <2>1, <3>6, <3>7 DEF EndState
    <3>9. /\ R.tx = link[e].tx /\ R.out_frames = tail
          /\ R.dup_cache = link[e].dup_cache /\ R.rx = link[e].rx
          /\ R.delivered = link[e].delivered /\ R.submitted = link[e].submitted
      BY <2>1, <3>6 DEF EndState
    <3>10. Good(R, own, theirs, n, Message, Body)  BY <2>1, <3>7, <3>8, <3>9 DEF Good
    <3>11. air' = [d \in End |-> air'[d]]  BY <2>1, <3>1
    <3>12. \A d \in End : air'[d] \in Seq(Frame(Submitted(d)))
      <4>1. air[e] \in Seq(Frame(own))  BY <2>3 DEF own
      <4>2. Append(air[e], Head(q)) \in Seq(Frame(own))  BY <3>4, <4>1
      <4>3. air'[e] = Append(air[e], Head(q)) /\ \A d \in End : d # e => air'[d] = air[d]
        BY <2>1, <3>1
      <4> QED  BY <2>3, <4>2, <4>3 DEF own
    <3> QED  BY <2>2, <3>1, <3>2, <3>10, <3>11, <3>12, QuietStepInv DEF own, theirs, n
  <2>15. ASSUME NEW type \in FrameTypes \cup {"NONE"}, Hear(e, type) PROVE IInv'
    <3> DEFINE f == Head(air[p])
    <3>1. /\ link' = [link EXCEPT ![e] = handle_frame(link[e], f)]
          /\ air' = [air EXCEPT ![p] = Tail(@)]
          /\ air[p] # << >> /\ drawn' = drawn /\ spent' = spent
      BY <2>15 DEF Hear, Becomes, p
    <3>2. air[p] \in Seq(Frame(theirs))  BY <2>3, <2>4 DEF p, theirs
    <3>3. f \in Frame(theirs) /\ Tail(air[p]) \in Seq(Frame(theirs))  BY <3>1, <3>2
    <3> HIDE DEF f
    <3>4. link'[e] = handle_frame(link[e], f)  BY <2>1, <3>1
    <3>5. Good(link'[e], own, theirs, n, Message, Body)  BY <2>1, <3>3, <3>4, HandleFrameGood
    <3>6. air' = [d \in End |-> air'[d]]  BY <2>1, <3>1
    <3>7. \A d \in End : air'[d] \in Seq(Frame(Submitted(d)))
      <4>1. air'[p] = Tail(air[p]) /\ \A d \in End : d # p => air'[d] = air[d]
        BY <2>1, <2>4, <3>1
      <4> QED  BY <2>3, <3>3, <4>1 DEF p, theirs
    <3> QED  BY <2>2, <3>1, <3>4, <3>5, <3>6, <3>7, QuietStepInv DEF own, theirs, n
  <2>16. CASE Lose(e)
    <3>1. /\ link' = link /\ drawn' = drawn /\ Spend("lose") /\ "lose" \in Spent
          /\ air' = [air EXCEPT ![e] = Tail(@)] /\ air[e] # << >>
      BY <2>16 DEF Lose, Spent
    <3>2. link' = [link EXCEPT ![e] = link'[e]] /\ link'[e] = link[e]  BY <2>1, <3>1
    <3>3. spent' \in [Spent -> Nat]  BY <3>1, SpendType
    <3>4. air' = [d \in End |-> air'[d]]  BY <2>1, <3>1
    <3>5. \A d \in End : air'[d] \in Seq(Frame(Submitted(d)))
      <4>1. air[e] \in Seq(Frame(own))  BY <2>3 DEF own
      <4>2. Tail(air[e]) \in Seq(Frame(own))  BY <3>1, <4>1
      <4>3. air'[e] = Tail(air[e]) /\ \A d \in End : d # e => air'[d] = air[d]
        BY <2>1, <3>1
      <4> QED  BY <2>3, <4>2, <4>3 DEF own
    <3> QED  BY <2>1, <2>2, <3>1, <3>2, <3>3, <3>4, <3>5, QuietStepInv DEF own, theirs, n
  <2> QED
    BY <1>2, <2>5, <2>6, <2>7, <2>8, <2>9, <2>10, <2>11, <2>12, <2>13, <2>14, <2>15, <2>16
<1> QED  BY <1>1, <1>2 DEF Next


----------------------------------------------------------------------------
(* The theorems.                                                           *)

\* The inductive invariant holds in every reachable state: the two ends stay Good,
\* and the air carries only what was submitted.
THEOREM Invariant == Spec => []IInv
BY InitInv, NextInv, PTL DEF Spec

\* Every variable keeps its type, and the outbound queue and the duplicate cache
\* never hold more than KAL_OUT_QUEUE_FRAMES and KAL_DUP_CACHE_ENTRIES.
THEOREM TypeCorrect == Spec => []TypeOK
<1>1. IInv => TypeOK  BY DEF IInv, TypeOK, Good
<1> QED  BY <1>1, Invariant, PTL

\* The selective-repeat books always agree: the base is the first unacknowledged
\* segment, and no acknowledged segment is in flight (queue_window, handle_ack).
THEOREM BooksBalance == Spec => []TxBookkeeping
<1>1. IInv => TxBookkeeping  BY DEF IInv, TxBookkeeping, Good
<1> QED  BY <1>1, Invariant, PTL

\* Every state an end is in, and every frame on the air, is made of messages that
\* have been submitted at the end they came from.
THEOREM OriginKept == Spec => []Sourced
<1>1. IInv => Sourced  BY DEF IInv, Sourced, Good
<1> QED  BY <1>1, Invariant, PTL

\* Every frame an end queues, whatever it has been through, passes validate, for every
\* window, number of segments, profile and bitmap: queue_frame never drops a frame its
\* own encoder refuses (kal_frame_encode).
THEOREM QueuedCanonical == Spec => []QueuedIsCanonical
<1>1. IInv => QueuedIsCanonical
  <2> SUFFICES ASSUME IInv, NEW e \in End, NEW i \in DOMAIN link[e].out_frames
               PROVE  Canonical(link[e].out_frames[i])
    BY DEF QueuedIsCanonical
  <2>1. link[e].out_frames \in Seq(Frame(Message))  BY DEF IInv, EndState
  <2>2. link[e].out_frames[i] \in Frame(Message)  BY <2>1
  <2> QED  BY <2>2 DEF Frame
<1> QED  BY <1>1, Invariant, PTL

\* Whatever is lost, cancelled, reset, timed out or mixed up, what the application is
\* handed as a message is a whole one its peer has submitted (finish_rx_message).
THEOREM IntactDelivery == Spec => []DeliveredIntact
<1>1. IInv => DeliveredIntact
  <2> SUFFICES ASSUME IInv, NEW e \in End, NEW i \in DOMAIN DeliveredLog(e)
               PROVE  DeliveredLog(e)[i] \in Submitted(Peer(e))
    BY DEF DeliveredIntact
  <2>1. link[e] \in EndState(Submitted(e), Submitted(Peer(e)))  BY DEF IInv, Good
  <2>2. DeliveredLog(e) \in Seq(Submitted(Peer(e)))
    BY <2>1 DEF EndState, Stats, DeliveredLog
  <2> QED  BY <2>2
<1> QED  BY <1>1, Invariant, PTL

\* No reassembly is under way while a message waits to be collected, so that a
\* delivery never overwrites one (the back-pressure of handle_data).
THEOREM BackPressureKept == Spec => []BackPressure
<1>1. IInv => BackPressure  BY DEF IInv, BackPressure, Good
<1> QED  BY <1>1, Invariant, PTL


\* What a step leaves staged: the same message, unless it is kal_receive or
\* kal_link_reset of that end.
LEMMA StageKept ==
  ASSUME IInv, [Next]_vars, NEW e \in End, link[e].delivered \in Message
  PROVE  link'[e].delivered = link[e].delivered \/ Collect(e) \/ Reset(e)
<1> DEFINE own == Submitted(e)
           theirs == Submitted(Peer(e))
           n == link[e].submitted
           only == {link[e].delivered}
           Kept(L) == L.delivered = link[e].delivered
<1>1. /\ own \in SUBSET Message /\ theirs \in SUBSET Message /\ n \in Nat
      /\ Good(link[e], own, theirs, n, Message, only)
      /\ link \in [End -> EndState(Message, Message)]
      /\ link[e] \in EndState(own, theirs)
      /\ only \subseteq Message
  BY SubmittedType, PeerType DEF IInv, Good
<1>2. \A d \in End : air[d] \in Seq(Frame(Submitted(d)))  BY DEF IInv
<1>3. \A L, k, more : Good(L, more, theirs, k, Message, only) => Kept(L)  BY DEF Good
<1>4. Kept(link[e])  OBVIOUS
<1> HIDE DEF own, theirs, n, only, Kept
<1>5. CASE UNCHANGED vars  BY <1>5 DEF vars, Kept
<1>6. ASSUME NEW d \in End, d # e, NEW L, link' = [link EXCEPT ![d] = L]
      PROVE  Kept(link'[e])
  BY <1>1, <1>4, <1>6
<1>7. ASSUME NEW draw, draw.ok \in BOOLEAN, draw.id \in Nat, Sendable(e)
      PROVE  Kept(kal_send(link[e], NextMessage(e), draw))
  <2>1. Outbox[e] \in Seq(Message) /\ n < Len(Outbox[e])
    BY <1>7, DataAssumption DEF Sendable, n
  <2>2. n + 1 \in 1 .. Len(Outbox[e])  BY <1>1, <2>1
  <2>3. NextMessage(e) \in Message  BY <2>1, <2>2 DEF NextMessage, n
  <2>4. Good(kal_send(link[e], NextMessage(e), draw), own \cup {NextMessage(e)}, theirs, n + 1,
             Message, only)
    BY <1>1, <1>7, <2>3, SendGood
  <2> QED  BY <1>3, <2>4
<1>8. \A b \in Beacon : Kept(kal_beacon(link[e], b))  BY <1>1, <1>3, BeaconGood
<1>9. Kept(kal_cancel(link[e]))  BY <1>1, <1>3, CancelGood
<1>10. Kept(advance_time(link[e]))  BY <1>1, <1>3, AdvanceTimeGood
<1>11. \A f \in Frame(theirs) : Kept(handle_frame(link[e], f))
  <2> SUFFICES ASSUME NEW f \in Frame(theirs) PROVE Kept(handle_frame(link[e], f))
    OBVIOUS
  <2>1. Good(handle_frame(link[e], f), own, theirs, n, Message, only)
    BY <1>1, HandleFrameGood
  <2> QED  BY <1>3, <2>1
<1>12. /\ Kept([link[e] EXCEPT !.dup_cache = Tail(@)])
       /\ Kept([link[e] EXCEPT !.out_frames = Tail(@)])
  BY <1>1 DEF EndState, Kept
<1>13. ASSUME NEW d \in End,
              \/ Send(d) \/ SendOpening(d) \/ SendWithoutEntropy(d)
              \/ SendBeacon(d) \/ Cancel(d) \/ Reset(d) \/ Collect(d)
              \/ Expire(d) \/ Age(d) \/ Pull(d) \/ Lose(d)
              \/ \E type \in FrameTypes \cup {"NONE"} : Hear(d, type)
       PROVE  Kept(link'[e]) \/ Collect(e) \/ Reset(e)
  <2>1. ASSUME NEW L, Becomes(d, L), d = e => Kept(L) PROVE Kept(link'[e])
    BY <1>1, <1>6, <2>1 DEF Becomes
  <2>2. CASE Send(d)
    <3> DEFINE draw == [ok |-> TRUE, id |-> 0]
    <3>1. draw.ok \in BOOLEAN /\ draw.id \in Nat  OBVIOUS
    <3>2. Sendable(d) /\ Becomes(d, kal_send(link[d], NextMessage(d), draw))  BY <2>2 DEF Send
    <3> HIDE DEF draw
    <3> QED  BY <1>7, <2>1, <3>1, <3>2
  <2>3. CASE SendOpening(d)
    <3>1. PICK id \in SessionIds \ drawn :
            Becomes(d, kal_send(link[d], NextMessage(d), [ok |-> TRUE, id |-> id]))
      BY <2>3 DEF SendOpening
    <3> DEFINE draw == [ok |-> TRUE, id |-> id]
    <3>2. draw.ok \in BOOLEAN /\ draw.id \in Nat  BY DataAssumption
    <3>3. Sendable(d) /\ Becomes(d, kal_send(link[d], NextMessage(d), draw))
      BY <2>3, <3>1 DEF SendOpening
    <3> HIDE DEF draw
    <3> QED  BY <1>7, <2>1, <3>2, <3>3
  <2>4. CASE SendWithoutEntropy(d)
    <3> DEFINE draw == [ok |-> FALSE, id |-> 0]
    <3>1. draw.ok \in BOOLEAN /\ draw.id \in Nat  OBVIOUS
    <3>2. Sendable(d) /\ Becomes(d, kal_send(link[d], NextMessage(d), draw))
      BY <2>4 DEF SendWithoutEntropy
    <3> HIDE DEF draw
    <3> QED  BY <1>7, <2>1, <3>1, <3>2
  <2>5. CASE SendBeacon(d)  BY <1>8, <2>1, <2>5 DEF SendBeacon
  <2>6. CASE Cancel(d)  BY <1>9, <2>1, <2>6 DEF Cancel
  <2>7. CASE Reset(d)
    <3>1. CASE d = e  BY <2>7, <3>1
    <3>2. CASE d # e  BY <2>1, <2>7, <3>2 DEF Reset
    <3> QED  BY <3>1, <3>2
  <2>8. CASE Collect(d)
    <3>1. CASE d = e  BY <2>8, <3>1
    <3>2. CASE d # e  BY <2>1, <2>8, <3>2 DEF Collect
    <3> QED  BY <3>1, <3>2
  <2>9. CASE Expire(d)  BY <1>10, <2>1, <2>9 DEF Expire
  <2>10. CASE Age(d)  BY <1>12, <2>1, <2>10 DEF Age
  <2>11. CASE Pull(d)  BY <1>12, <2>1, <2>11 DEF Pull
  <2>12. CASE Lose(d)  BY <2>12 DEF Lose, Kept
  <2>13. ASSUME NEW type \in FrameTypes \cup {"NONE"}, Hear(d, type) PROVE Kept(link'[e])
    <3> DEFINE f == Head(air[Peer(d)])
    <3>1. Becomes(d, handle_frame(link[d], f)) /\ air[Peer(d)] # << >>  BY <2>13 DEF Hear
    <3>2. d = e => f \in Frame(theirs)
      <4>1. air[Peer(d)] \in Seq(Frame(Submitted(Peer(d))))  BY <1>2, PeerType
      <4>2. f \in Frame(Submitted(Peer(d)))  BY <3>1, <4>1
      <4> QED  BY <4>2 DEF theirs
    <3> HIDE DEF f
    <3> QED  BY <1>11, <2>1, <3>1, <3>2
  <2> QED
    BY <1>13, <2>2, <2>3, <2>4, <2>5, <2>6, <2>7, <2>8, <2>9, <2>10, <2>11, <2>12, <2>13
<1> QED  BY <1>5, <1>13 DEF Next, Kept

\* A message that waits to be collected is neither overwritten (handle_data,
\* handle_beacon) nor dropped: only kal_receive and kal_link_reset remove it.
THEOREM StageNeverOverwritten == Spec => StagedUntilCollected
<1>1. IInv /\ [Next]_vars
        => [\A e \in End :
              link[e].delivered \in Message /\ link'[e].delivered # link[e].delivered
                => Collect(e) \/ Reset(e)]_vars
  BY StageKept
<1> QED  BY <1>1, Invariant, PTL DEF Spec, StagedUntilCollected


=============================================================================
