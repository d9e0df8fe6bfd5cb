------------------------------ MODULE KalLink ------------------------------
(***************************************************************************)
(* Two ends of an acoustic link (src/kal_link.c): session opening, the     *)
(* selective-repeat ARQ, bounded reassembly, the duplicate cache, the      *)
(* outbound frame queue and the public API, joined by one lossy FIFO of    *)
(* frames per direction (sound cannot overtake sound).                     *)
(*                                                                         *)
(* The state of one end is a record with the fields of struct kal_link;    *)
(* every function of the source is an operator from such a record to the   *)
(* record it leaves behind, under the same name.  An action applies one    *)
(* API call, one received frame or one timer expiry to one end.            *)
(*                                                                         *)
(* Time is abstract: an armed deadline may expire, and the oldest entry of *)
(* the duplicate cache may age out, at any moment.  A payload is the       *)
(* message it was cut from: segment s of m carries <<m, s>>, so a digest   *)
(* matches exactly when all segments of a reassembly are those of one m.   *)
(***************************************************************************)
EXTENDS KalFrame, Sequences, FiniteSets

CONSTANTS
  End,              \* the two ends
  Role,             \* Role[e]: "initiator" or "responder"
  Profile,          \* Profile[e]: kal_options.profile
  Window,           \* Window[e]: kal_options.window_frames
  Accepts,          \* Accepts[e]: the messages within e's max_message_bytes
  Message,          \* application messages
  Beacon,           \* beacon payloads
  NoBody,           \* the absence of either
  Garbled,          \* bytes no application ever submitted
  Segments,         \* Segments[m]: kal_segment_count of m's length
  MaxSegments,      \* KAL_MAX_SEGMENTS, or fewer: the length of the segment arrays
  Outbox,           \* Outbox[e]: the messages e's application submits, in order
  MaxRetries,       \* kal_options.max_retries
  OutQueueFrames,   \* KAL_OUT_QUEUE_FRAMES
  DupCacheEntries,  \* KAL_DUP_CACHE_ENTRIES
  SessionIds,       \* what the CSPRNG may return as a session id
  AirFrames,        \* bound: frames on the air per direction
  Patient,          \* bound: deadlines expire only in a quiet system
  Limit             \* bounds on the environment, one for each field of Spent

\* What is bounded: each disturbance from outside, and all of them together.
Spent == {"lose", "cancel", "reset", "beacon", "age", "entropy", "any"}

Body == Message \cup Beacon \cup {Garbled, NoBody}

ASSUME EndsAssumption ==
  \E a, b \in End : a # b /\ End = {a, b}
ASSUME OptionsAssumption ==
  /\ Role \in [End -> {"initiator", "responder"}]
  /\ Profile \in [End -> 0 .. KAL_PROFILE_COUNT - 1]
  /\ Window \in [End -> KAL_MIN_WINDOW_FRAMES .. KAL_MAX_WINDOW_FRAMES]
  /\ Accepts \in [End -> SUBSET Message]
ASSUME DataAssumption ==
  /\ NoBody \notin Message \cup Beacon \cup {Garbled}
  /\ Garbled \notin Message \cup Beacon
  /\ Message \cap Beacon = {}
  /\ MaxSegments \in 1 .. KAL_MAX_SEGMENTS
  /\ Segments \in [Message -> 1 .. MaxSegments]
  /\ Outbox \in [End -> Seq(Message)]
  /\ SessionIds \subseteq Nat \ {0}
ASSUME BoundsAssumption ==
  /\ MaxRetries \in Nat \ {0}
  /\ OutQueueFrames \in Nat \ {0}
  /\ DupCacheEntries \in Nat \ {0}
  /\ AirFrames \in Nat \ {0}
  /\ Patient \in BOOLEAN
  /\ Limit \in [Spent -> Nat]

VARIABLES
  link,   \* link[e]: the struct kal_link of end e
  air,    \* air[e]: the frames e has put on the air, oldest first
  drawn,  \* the session ids drawn so far: 32 random bits never repeat
  spent   \* what the environment has used of its Limit

vars == <<link, air, drawn, spent>>

Peer(e) == CHOOSE d \in End : d # e

----------------------------------------------------------------------------
(* Frames.  value holds a DATA total or a capability word, bitmap the      *)
(* selective bits of a partial ACK as absolute sequence numbers, flag bit 0*)
(* of the flags, payload a body, and challenge the payload of a HELLO.     *)

\* A zeroed 64-byte buffer: it carries no magic and no receiver accepts it.
ZeroFrame == [type |-> "NONE", session_id |-> 0, message_id |-> 0, sequence |-> 0,
              value |-> 0, bitmap |-> {}, flag |-> FALSE, payload |-> NoBody, challenge |-> 0]

build_hello(L, type) ==
  [ZeroFrame EXCEPT !.type = type, !.session_id = L.session_id,
     !.message_id = L.next_message_id,
     !.value = kal_capability_pack(L.profile, L.window), !.challenge = L.challenge]

\* Mutant: the final flag marks the segment after the last.
DataFrameNeverFinal(L, s) ==
  [ZeroFrame EXCEPT !.type = "DATA", !.session_id = L.session_id,
     !.message_id = L.tx.message_id, !.sequence = s, !.value = L.tx.total,
     !.flag = (s = L.tx.total), !.payload = L.tx.payload]

DataFrame(L, s) ==
  [ZeroFrame EXCEPT !.type = "DATA", !.session_id = L.session_id,
     !.message_id = L.tx.message_id, !.sequence = s, !.value = L.tx.total,
     !.flag = (s = L.tx.total - 1), !.payload = L.tx.payload]

\* The folded FIN: it names the whole message.
DeliveredAck(L) ==
  [ZeroFrame EXCEPT !.type = "ACK", !.session_id = L.rx.session_id,
     !.message_id = L.rx.message_id, !.sequence = L.rx.total, !.flag = TRUE]

CancelFrame(L) ==
  [ZeroFrame EXCEPT !.type = "CANCEL", !.session_id = L.session_id,
     !.message_id = L.tx.message_id]

----------------------------------------------------------------------------
(* The state of one end.                                                   *)

Segment == 0 .. MaxSegments - 1

NoTx == [active |-> FALSE, started |-> FALSE, message_id |-> 0, total |-> 0, base |-> 0,
         retries |-> 0, payload |-> NoBody, acked |-> {}, inflight |-> {}]

\* payload[s] is the body stored for segment s, NoBody while rx_received[s] = 0.
NoRx == [active |-> FALSE, session_id |-> 0, message_id |-> 0, total |-> 0,
         payload |-> [s \in Segment |-> NoBody],
         ack_valid |-> FALSE, ack_cached |-> ZeroFrame]

\* Initiator message ids are even, responder ids odd.
FirstMessageId(role) == IF role = "initiator" THEN 0 ELSE 1

kal_link_create(e) ==
  [role |-> Role[e], profile |-> Profile[e], window |-> clamp_window(Window[e]),
   accepts |-> Accepts[e],
   session_open |-> FALSE, hello_pending |-> FALSE, session_id |-> 0, challenge |-> 0,
   next_message_id |-> FirstMessageId(Role[e]),
   hello_ack_valid |-> FALSE, hello_ack_cached |-> ZeroFrame, hello_retries |-> 0,
   tx |-> NoTx, tx_status |-> "OK", deadline_set |-> FALSE,
   rx |-> NoRx, dup_cache |-> << >>, delivered |-> NoBody, out_frames |-> << >>,
   submitted |-> 0,
   stats |-> [messages_delivered |-> << >>, messages_sent |-> << >>]]

----------------------------------------------------------------------------
(* Helpers: the outbound queue, the two clears, the duplicate cache.       *)

\* Mutant: no capacity check.
UnboundedQueueFrame(L, f) == [L EXCEPT !.out_frames = Append(@, f)]

\* queue_frame and queue_encoded: a full queue drops the frame.
queue_frame(L, f) ==
  IF Len(L.out_frames) >= OutQueueFrames THEN L
  ELSE [L EXCEPT !.out_frames = Append(@, f)]

clear_rx_message(L) == [L EXCEPT !.rx = NoRx]

clear_tx_message(L) == [L EXCEPT !.tx = NoTx]

\* Every entry lives equally long, so the cache is kept in order of expiry.
dup_lookup(L, session_id, message_id) ==
  {i \in DOMAIN L.dup_cache : /\ L.dup_cache[i].session_id = session_id
                              /\ L.dup_cache[i].message_id = message_id}

\* Mutant: the ACK of a delivered message is not cached.
DupStoreNothing(L, session_id, message_id, ack) == L

\* Every caller has just looked the key up in vain.  A full cache evicts the
\* entry closest to expiry.
dup_store(L, session_id, message_id, ack) ==
  LET kept == IF Len(L.dup_cache) >= DupCacheEntries THEN Tail(L.dup_cache) ELSE L.dup_cache
  IN  [L EXCEPT !.dup_cache =
         Append(kept, [session_id |-> session_id, message_id |-> message_id, ack |-> ack])]

----------------------------------------------------------------------------
(* Transmit.                                                               *)

Eligible(L) ==
  {s \in Segment : /\ L.tx.base =< s /\ s < L.tx.total
                   /\ s \notin L.tx.acked \cup L.tx.inflight}

\* How many members of S come before s.
Rank(S, s) == Cardinality({t \in S : t < s})

\* The member of S that n others come before.
Ranked(S, n) == CHOOSE s \in S : Rank(S, s) = n

\* The segments queue_window queues: the first eligible ones, as many as the
\* window and the room in the queue allow.
Batch(L) ==
  {s \in Eligible(L) : /\ Rank(Eligible(L), s) < L.window
                       /\ Rank(Eligible(L), s) < OutQueueFrames - Len(L.out_frames)}

queue_window(L) ==
  LET batch == Batch(L)
      queued == [i \in 1 .. Cardinality(batch) |-> DataFrame(L, Ranked(batch, i - 1))]
  IN  [L EXCEPT !.out_frames = @ \o queued,
                !.tx = [L.tx EXCEPT !.inflight = @ \cup batch]]

\* Nothing queued: the deadline is left as it was.
start_or_resume_tx(L) ==
  IF Batch(L) = {} THEN L
  ELSE LET Q == queue_window(L)
       IN  [Q EXCEPT !.tx = [Q.tx EXCEPT !.started = TRUE], !.deadline_set = TRUE]

fail_tx(L, status) ==
  [clear_tx_message(queue_frame(L, CancelFrame(L)))
     EXCEPT !.tx_status = status, !.deadline_set = FALSE]

\* draw = [ok, id] is what kal_random_bytes returned; the challenge drawn with a
\* session id goes by the number of that id.
open_session(L, draw) ==
  LET H == [L EXCEPT !.session_id = draw.id, !.challenge = draw.id] IN
  IF ~draw.ok THEN [clear_tx_message(L) EXCEPT !.tx_status = "MODEM"]
  ELSE IF Len(L.out_frames) >= OutQueueFrames
    THEN [clear_tx_message(H) EXCEPT !.tx_status = "BUSY"]
  ELSE [queue_frame(H, build_hello(H, "HELLO"))
          EXCEPT !.hello_pending = TRUE, !.hello_retries = 0, !.deadline_set = TRUE]

NeedsSession(L) == /\ ~L.session_open
                   /\ L.role = "initiator"
                   /\ ~L.hello_pending

\* The message id is taken but not used up: only handle_ack advances it.
kal_send(L, m, draw) ==
  LET S == [L EXCEPT
        !.tx = [NoTx EXCEPT !.active = TRUE, !.message_id = L.next_message_id,
                            !.total = Segments[m], !.payload = m],
        !.tx_status = "BUSY", !.submitted = @ + 1]
  IN  IF L.session_open THEN start_or_resume_tx(S)
      ELSE IF NeedsSession(L) THEN open_session(S, draw)
      ELSE S

kal_beacon(L, p) ==
  queue_frame(L, [ZeroFrame EXCEPT !.type = "BEACON", !.session_id = L.session_id,
                    !.message_id = L.next_message_id, !.payload = p])

kal_cancel(L) == clear_rx_message(fail_tx(L, "CANCELLED"))

kal_link_reset(L) ==
  [L EXCEPT !.tx = NoTx, !.rx = NoRx, !.out_frames = << >>, !.deadline_set = FALSE,
     !.dup_cache = << >>, !.challenge = 0, !.hello_ack_cached = ZeroFrame,
     !.hello_ack_valid = FALSE, !.hello_pending = FALSE, !.hello_retries = 0,
     !.session_open = FALSE, !.session_id = 0, !.delivered = NoBody,
     !.tx_status = "OK", !.next_message_id = FirstMessageId(L.role)]

----------------------------------------------------------------------------
(* Receive: reassembly.                                                    *)

Received(L) == {s \in Segment : L.rx.payload[s] # NoBody}

\* The first of from .. to - 1 that is not in S, or else to.
FirstOutside(S, from, to) ==
  CHOOSE n \in from .. to : /\ n = to \/ n \notin S
                            /\ \A s \in from .. n - 1 : s \in S

\* Mutant: the base is the number of segments, as if none were missing in between.
CountReceived(L) == Cardinality(Received(L))

\* The cumulative base of a partial ACK.
first_missing(L) == FirstOutside(Received(L), 0, L.rx.total)

queue_partial_ack(L) ==
  LET base == first_missing(L)
      ack == [ZeroFrame EXCEPT !.type = "ACK", !.session_id = L.rx.session_id,
                !.message_id = L.rx.message_id, !.sequence = base,
                !.bitmap = {s \in Received(L) : /\ base < s
                                                /\ s =< base + KAL_ACK_BITS
                                                /\ s < L.rx.total}]
  IN  queue_frame([L EXCEPT !.rx = [L.rx EXCEPT !.ack_cached = ack, !.ack_valid = TRUE]], ack)

\* What the stored segments spell: the message whose segments they are, all of
\* them and no others, or bytes that carry no matching digest.
Assembled(L) ==
  LET whole == {m \in Message : /\ Segments[m] = L.rx.total
                                /\ \A s \in 0 .. L.rx.total - 1 : L.rx.payload[s] = m}
  IN  IF whole = {} THEN Garbled ELSE CHOOSE m \in whole : TRUE

\* A message is staged; the log is of messages, whose number is counted in the code.
Deliver(L, body) ==
  [L EXCEPT !.delivered = body,
            !.stats = [L.stats EXCEPT !.messages_delivered = Append(@, body)]]

\* Mutant: the digest is not compared.
Unchecked(L, body) == TRUE

\* The trailing SHA-256 matches, and the size is within max_message_bytes.
Intact(L, body) == body \in L.accepts

\* Integrity failures destroy the reassembly; a delivery overwrites the staging
\* buffer, is acknowledged, cached, and only then the reassembly is cleared.
finish_rx_message(L) ==
  LET body == Assembled(L)
      ack == DeliveredAck(L)
  IN  IF ~Intact(L, body) THEN clear_rx_message(L)
      ELSE clear_rx_message(
             dup_store(queue_frame(Deliver(L, body), ack),
                       L.rx.session_id, L.rx.message_id, ack))

----------------------------------------------------------------------------
(* One handler per frame type.                                             *)

InSession(L, f) == L.session_open /\ f.session_id = L.session_id

\* A reassembly the frame may join: the one in progress, one in place of an
\* abandoned message, or a fresh one.
Reassembling(L, f) ==
  IF L.rx.active /\ f.message_id = L.rx.message_id THEN L
  ELSE [L EXCEPT !.rx = [NoRx EXCEPT !.active = TRUE, !.session_id = f.session_id,
                           !.message_id = f.message_id, !.total = f.value]]

StoreSegment(L, f) ==
  LET stored == [L.rx.payload EXCEPT ![f.sequence] = f.payload]
      S == [L EXCEPT !.rx = [L.rx EXCEPT !.payload = stored]]
      count == Cardinality(Received(S))
  IN  IF count = S.rx.total THEN finish_rx_message(S)
      ELSE IF count % S.window = 0 THEN queue_partial_ack(S)
      ELSE S

\* A segment that is already stored: its cached ACK again, or nothing when the
\* two bodies differ.
RepeatSegment(L, f) ==
  IF L.rx.payload[f.sequence] # f.payload THEN L
  ELSE IF L.rx.ack_valid THEN queue_frame(L, L.rx.ack_cached)
  ELSE queue_partial_ack(L)

handle_data(L, f) ==
  LET hits == dup_lookup(L, f.session_id, f.message_id)
      R == Reassembling(L, f)
      continued == L.rx.active /\ f.message_id = L.rx.message_id
  IN  IF ~InSession(L, f) THEN L
      ELSE IF hits # {} THEN queue_frame(L, L.dup_cache[CHOOSE i \in hits : TRUE].ack)
      ELSE IF ~continued /\ L.delivered # NoBody THEN clear_rx_message(L)
      ELSE IF R.rx.total # f.value \/ f.sequence >= R.rx.total THEN R
      ELSE IF f.sequence \in Received(R) THEN RepeatSegment(R, f)
      ELSE StoreSegment(R, f)

\* Mutant: acknowledged segments stay in flight.
MarkAckedOnly(L, marked) ==
  LET acked == L.tx.acked \cup marked IN
  [L EXCEPT !.tx = [L.tx EXCEPT !.acked = acked, !.retries = 0,
                             !.base = FirstOutside(acked, @, L.tx.total)]]

MarkAcked(L, marked) ==
  LET acked == L.tx.acked \cup marked IN
  [L EXCEPT !.tx = [L.tx EXCEPT !.acked = acked, !.inflight = @ \ marked, !.retries = 0,
                             !.base = FirstOutside(acked, @, L.tx.total)]]

\* Mutant: the message id is used again.
TxDeliveredSameId(L) ==
  [clear_tx_message(L) EXCEPT !.deadline_set = FALSE, !.tx_status = "OK",
     !.stats = [L.stats EXCEPT !.messages_sent = Append(@, L.tx.payload)]]

TxDelivered(L) ==
  [clear_tx_message(L) EXCEPT !.deadline_set = FALSE, !.tx_status = "OK",
     !.next_message_id = (@ + 2) % 65536,
     !.stats = [L.stats EXCEPT !.messages_sent = Append(@, L.tx.payload)]]

\* Mutant: any ACK of the message is taken for the delivered one.
AnyAckDelivers(L, f) ==
  IF L.tx.active /\ f.session_id = L.session_id /\ f.message_id = L.tx.message_id
  THEN TxDelivered(L) ELSE L

handle_ack(L, f) ==
  LET marked == {s \in Segment : s < L.tx.total /\ (s < f.sequence \/ s \in f.bitmap)} IN
  IF ~L.tx.active \/ f.session_id # L.session_id \/ f.message_id # L.tx.message_id THEN L
  ELSE IF f.flag THEN IF f.sequence # L.tx.total THEN L ELSE TxDelivered(L)
  ELSE IF f.sequence > L.tx.total THEN L
  ELSE [start_or_resume_tx(MarkAcked(L, marked)) EXCEPT !.deadline_set = TRUE]

----------------------------------------------------------------------------
(* Session opening.                                                        *)

\* Mutant: the window of the peer is not looked at.
OwnWindow(L, f) == L.window

\* The smaller of the two windows.
Narrowed(L, f) ==
  LET peer_window == kal_capability_window(f.value)
  IN  clamp_window(IF peer_window < L.window THEN peer_window ELSE L.window)

AcceptHello(L, f) ==
  LET H == [L EXCEPT !.session_id = f.session_id, !.window = Narrowed(L, f),
                     !.challenge = f.challenge]
      reply == [build_hello(H, "HELLO_ACK") EXCEPT !.message_id = f.message_id]
      O == queue_frame([H EXCEPT !.hello_ack_cached = reply, !.hello_ack_valid = TRUE,
                                 !.session_open = TRUE], reply)
  IN  IF O.tx.active /\ ~O.tx.started THEN start_or_resume_tx(O) ELSE O

\* Mutants: both ends yield, neither does.
BothYield(L, f) == TRUE
NeitherYields(L, f) == FALSE

\* Simultaneous initiation: the larger session id yields.
Yields(L, f) == L.session_id > f.session_id

handle_hello(L, f) ==
  LET initiator == L.role = "initiator" IN
  IF kal_capability_profile(f.value) # L.profile THEN L
  ELSE IF initiator /\ L.hello_pending
    THEN IF ~Yields(L, f) THEN L
         ELSE AcceptHello([clear_tx_message(L) EXCEPT !.hello_pending = FALSE], f)
  ELSE IF InSession(L, f)
    THEN IF L.hello_ack_valid THEN queue_frame(L, L.hello_ack_cached) ELSE L
  ELSE IF L.session_open
    THEN IF initiator THEN L
         ELSE AcceptHello([clear_rx_message(L) EXCEPT !.dup_cache = << >>], f)
  ELSE AcceptHello(L, f)

handle_hello_ack(L, f) ==
  LET O == [L EXCEPT !.hello_pending = FALSE, !.session_open = TRUE,
                     !.window = Narrowed(L, f), !.deadline_set = FALSE]
  IN  IF \/ ~L.hello_pending
         \/ f.session_id # L.session_id
         \/ f.challenge # L.challenge
         \/ kal_capability_profile(f.value) # L.profile
      THEN L
      ELSE IF L.tx.active THEN start_or_resume_tx(O) ELSE O

\* Mutant: what waits to be collected goes with the reassembly.
CancelDropsStaged(L, f) ==
  IF ~InSession(L, f) THEN L
  ELSE [L EXCEPT !.rx = NoRx, !.tx = NoTx, !.deadline_set = FALSE, !.tx_status = "CANCELLED",
                 !.delivered = NoBody]

\* The message id of a CANCEL is not looked at.
handle_cancel(L, f) ==
  IF ~InSession(L, f) THEN L
  ELSE [L EXCEPT !.rx = NoRx, !.tx = NoTx, !.deadline_set = FALSE, !.tx_status = "CANCELLED"]

\* delivered_is_beacon keeps beacons apart from messages.
handle_beacon(L, f) ==
  IF L.delivered # NoBody \/ dup_lookup(L, f.session_id, f.message_id) # {} THEN L
  ELSE dup_store([L EXCEPT !.delivered = f.payload], f.session_id, f.message_id, ZeroFrame)

\* A frame that does not decode changes nothing.
handle_frame(L, f) ==
  CASE f.type = "HELLO"     -> handle_hello(L, f)
    [] f.type = "HELLO_ACK" -> handle_hello_ack(L, f)
    [] f.type = "DATA"      -> handle_data(L, f)
    [] f.type = "ACK"       -> handle_ack(L, f)
    [] f.type = "CANCEL"    -> handle_cancel(L, f)
    [] f.type = "BEACON"    -> handle_beacon(L, f)
    [] OTHER                -> L

\* Mutant: what was in flight when the deadline passed is not sent again.
RetryNothing(L) == [L EXCEPT !.tx = [L.tx EXCEPT !.retries = @ + 1]]

\* Everything unacknowledged is eligible again.
Retry(L) == [L EXCEPT !.tx = [L.tx EXCEPT !.retries = @ + 1, !.inflight = {}]]

\* Mutants: the application is not told, the message stays without a deadline.
GiveUpSilently(L) == [clear_tx_message(L) EXCEPT !.hello_pending = FALSE]
GiveUpSessionOnly(L) == [L EXCEPT !.hello_pending = FALSE, !.tx_status = "TIMEOUT"]

\* The budget of HELLOs is used up.
GiveUpHello(L) == [clear_tx_message(L) EXCEPT !.hello_pending = FALSE, !.tx_status = "TIMEOUT"]

\* advance_time past an armed deadline.
advance_time(L) ==
  LET X == [L EXCEPT !.deadline_set = FALSE] IN
  IF L.hello_pending
    THEN IF L.hello_retries >= MaxRetries THEN GiveUpHello(X)
           ELSE [queue_frame(X, build_hello(X, "HELLO"))
                   EXCEPT !.hello_retries = @ + 1, !.deadline_set = TRUE]
  ELSE IF L.tx.active /\ L.tx.started
    THEN IF L.tx.retries >= MaxRetries THEN fail_tx(X, "TIMEOUT")
         ELSE start_or_resume_tx(Retry(X))
  ELSE X

----------------------------------------------------------------------------
(* The system.                                                             *)

Init ==
  /\ link = [e \in End |-> kal_link_create(e)]
  /\ air = [e \in End |-> << >>]
  /\ drawn = {}
  /\ spent = [k \in Spent |-> 0]

\* One end moves to L.
Becomes(e, L) == link' = [link EXCEPT ![e] = L]

Spend(k) == /\ spent[k] < Limit[k]
            /\ spent["any"] < Limit["any"]
            /\ spent' = [j \in Spent |-> spent[j] + (IF j \in {k, "any"} THEN 1 ELSE 0)]

\* The application's next message; kal_send refuses it while a transfer is active.
Sendable(e) == /\ link[e].submitted < Len(Outbox[e])
               /\ ~link[e].tx.active
NextMessage(e) == Outbox[e][link[e].submitted + 1]

Send(e) ==
  /\ Sendable(e)
  /\ ~NeedsSession(link[e])
  /\ Becomes(e, kal_send(link[e], NextMessage(e), [ok |-> TRUE, id |-> 0]))
  /\ UNCHANGED <<air, drawn, spent>>

SendOpening(e) ==
  /\ Sendable(e)
  /\ NeedsSession(link[e])
  /\ \E id \in SessionIds \ drawn :
       /\ Becomes(e, kal_send(link[e], NextMessage(e), [ok |-> TRUE, id |-> id]))
       /\ drawn' = drawn \cup {id}
  /\ UNCHANGED <<air, spent>>

\* The CSPRNG fails.
SendWithoutEntropy(e) ==
  /\ Sendable(e)
  /\ NeedsSession(link[e])
  /\ Spend("entropy")
  /\ Becomes(e, kal_send(link[e], NextMessage(e), [ok |-> FALSE, id |-> 0]))
  /\ UNCHANGED <<air, drawn>>

SendBeacon(e) ==
  /\ Spend("beacon")
  /\ \E p \in Beacon : Becomes(e, kal_beacon(link[e], p))
  /\ UNCHANGED <<air, drawn>>

Cancel(e) ==
  /\ Spend("cancel")
  /\ Becomes(e, kal_cancel(link[e]))
  /\ UNCHANGED <<air, drawn>>

Reset(e) ==
  /\ Spend("reset")
  /\ Becomes(e, kal_link_reset(link[e]))
  /\ UNCHANGED <<air, drawn>>

\* kal_receive.
Collect(e) ==
  /\ link[e].delivered # NoBody
  /\ Becomes(e, [link[e] EXCEPT !.delivered = NoBody])
  /\ UNCHANGED <<air, drawn, spent>>

\* Nothing is queued, on the air or waiting to be collected.
Quiet == \A e \in End : /\ link[e].out_frames = << >>
                        /\ air[e] = << >>
                        /\ link[e].delivered = NoBody

\* kal_tick, kal_rx_push_s16 or kal_tx_pull_s16 at or past the deadline.
Expire(e) ==
  /\ link[e].deadline_set
  /\ Patient => Quiet
  /\ Becomes(e, advance_time(link[e]))
  /\ UNCHANGED <<air, drawn, spent>>

\* The oldest duplicate-cache entry reaches its expiry.
Age(e) ==
  /\ link[e].dup_cache # << >>
  /\ Spend("age")
  /\ Becomes(e, [link[e] EXCEPT !.dup_cache = Tail(@)])
  /\ UNCHANGED <<air, drawn>>

\* kal_tx_pull_s16 takes the next frame off the queue and plays it.
Pull(e) ==
  /\ link[e].out_frames # << >>
  /\ Len(air[e]) < AirFrames
  /\ Becomes(e, [link[e] EXCEPT !.out_frames = Tail(@)])
  /\ air' = [air EXCEPT ![e] = Append(@, Head(link[e].out_frames))]
  /\ UNCHANGED <<drawn, spent>>

\* kal_rx_push_s16 has heard the whole of the oldest frame on the air.
Hear(e, type) ==
  /\ air[Peer(e)] # << >>
  /\ Head(air[Peer(e)]).type = type
  /\ Becomes(e, handle_frame(link[e], Head(air[Peer(e)])))
  /\ air' = [air EXCEPT ![Peer(e)] = Tail(@)]
  /\ UNCHANGED <<drawn, spent>>

\* Noise, a failed CRC or the repeat guard takes a frame.
Lose(e) ==
  /\ air[e] # << >>
  /\ Spend("lose")
  /\ air' = [air EXCEPT ![e] = Tail(@)]
  /\ UNCHANGED <<link, drawn>>

Next ==
  \E e \in End :
    \/ Send(e) \/ SendOpening(e) \/ SendWithoutEntropy(e)
    \/ SendBeacon(e) \/ Cancel(e) \/ Reset(e) \/ Collect(e)
    \/ Expire(e) \/ Age(e) \/ Pull(e) \/ Lose(e)
    \/ \E type \in FrameTypes \cup {"NONE"} : Hear(e, type)

Spec == Init /\ [][Next]_vars

\* The audio loop keeps moving PCM and ticking: a queued frame is played once the
\* channel falls idle, a frame on the air is heard or lost, a deadline that has
\* passed is noticed, and a staged message is collected.  Nothing makes the
\* application send, cancel or reset.
Fairness ==
  \A e \in End :
    /\ WF_vars(Pull(e))
    /\ WF_vars(\E type \in FrameTypes \cup {"NONE"} : Hear(e, type))
    /\ WF_vars(Expire(e))
    /\ WF_vars(Collect(e))

FairSpec == Spec /\ Fairness

----------------------------------------------------------------------------
(* Types.  own is what an end's application may have submitted, theirs what*)
(* its peer's may have.                                                    *)

AnyFrame == [type : FrameTypes \cup {"NONE"}, session_id : Nat, message_id : Nat,
             sequence : Nat, value : Nat, bitmap : SUBSET Nat, flag : BOOLEAN,
             payload : Body, challenge : Nat]

\* The fields of f that kal_frame_encode validates: a bitmap counts as 0 or not, and the
\* length is what the type allows, with a last segment as full.  The lengths of the
\* segments of a message are the subject of SegmentsValidate in KalFrameProofs.
Wire(f) ==
  [type |-> f.type, sequence |-> f.sequence, flag |-> f.flag,
   value |-> IF f.type = "ACK" THEN Cardinality(f.bitmap) ELSE f.value,
   length |-> CASE f.type \in {"HELLO", "HELLO_ACK"} -> KAL_CHALLENGE_BYTES
                [] f.type \in {"DATA", "BEACON"}     -> KAL_PAYLOAD_BYTES
                [] OTHER                             -> 0]

\* Of canonical form, or the zeroed frame cached for a beacon.
Canonical(f) == f.type = "NONE" \/ validate(Wire(f))

Frame(own) == {f \in AnyFrame : /\ Canonical(f)
                                /\ f.type = "DATA" => /\ f.payload \in own
                                                      /\ f.value = Segments[f.payload]
                                /\ f.type = "BEACON" => f.payload \in Beacon}

TxState(own) ==
  [active : BOOLEAN, started : BOOLEAN, message_id : Nat, total : 0 .. MaxSegments,
   base : 0 .. MaxSegments, retries : 0 .. MaxRetries, payload : own \cup {NoBody},
   acked : SUBSET Segment, inflight : SUBSET Segment]

RxState(theirs) ==
  [active : BOOLEAN, session_id : Nat, message_id : Nat, total : 0 .. KAL_MAX_SEGMENTS,
   payload : [Segment -> theirs \cup {NoBody}], ack_valid : BOOLEAN, ack_cached : Frame({})]

DupEntry == [session_id : Nat, message_id : Nat, ack : Frame({})]

TxStatus == {"OK", "BUSY", "TIMEOUT", "CANCELLED", "MODEM"}

Stats(own, theirs) == [messages_delivered : Seq(theirs),
                       messages_sent : Seq(own \cup {NoBody})]

EndState(own, theirs) ==
  [role : {"initiator", "responder"}, profile : 0 .. KAL_PROFILE_COUNT - 1,
   window : KAL_MIN_WINDOW_FRAMES .. KAL_MAX_WINDOW_FRAMES, accepts : SUBSET Message,
   session_open : BOOLEAN, hello_pending : BOOLEAN, session_id : Nat, challenge : Nat,
   next_message_id : Nat, hello_ack_valid : BOOLEAN, hello_ack_cached : Frame({}),
   hello_retries : 0 .. MaxRetries, tx : TxState(own), tx_status : TxStatus,
   deadline_set : BOOLEAN, rx : RxState(theirs), dup_cache : Seq(DupEntry),
   delivered : theirs \cup Beacon \cup {NoBody}, out_frames : Seq(Frame(own)),
   submitted : Nat, stats : Stats(own, theirs)]

\* Every variable keeps its type; the queue and the cache stay within capacity.
TypeOK ==
  /\ link \in [End -> EndState(Message, Message)]
  /\ air \in [End -> Seq(Frame(Message))]
  /\ drawn \subseteq SessionIds
  /\ spent \in [Spent -> Nat]
  /\ \A e \in End : /\ Len(link[e].out_frames) =< OutQueueFrames
                    /\ Len(link[e].dup_cache) =< DupCacheEntries
                    /\ link[e].submitted =< Len(Outbox[e])

----------------------------------------------------------------------------
(* Properties.                                                             *)

SentLog(e)      == link[e].stats.messages_sent
DeliveredLog(e) == link[e].stats.messages_delivered

\* No transfer of e ended in anything but a delivered ACK.
NoneAbandoned(e) ==
  link[e].submitted = Len(SentLog(e)) + (IF link[e].tx.active THEN 1 ELSE 0)

Holds(e, m) == \E i \in DOMAIN DeliveredLog(e) : DeliveredLog(e)[i] = m

TxBooks(tx) ==
  /\ tx.acked \cap tx.inflight = {}
  /\ tx.base =< tx.total
  /\ tx.base \notin tx.acked \/ tx.base = tx.total
  /\ \A s \in Segment : s < tx.base => s \in tx.acked
  /\ \A s \in tx.acked \cup tx.inflight : s < tx.total
  /\ tx.active <=> tx.payload # NoBody
  /\ tx.active => tx.total = Segments[tx.payload]

\* The selective-repeat books of kal_send, queue_window, handle_ack and the
\* timeout agree: an acknowledged segment is never in flight, the base is the
\* first unacknowledged segment, and only segments of the message are counted.
TxBookkeeping == \A e \in End : TxBooks(link[e].tx)

\* The messages e's application has submitted so far.
Submitted(e) == {Outbox[e][n] : n \in 1 .. link[e].submitted}

\* Whatever an end stores, queues, plays, stages or has delivered was submitted at
\* the end it came from, cancelled, reset or timed out as it may be.
Sourced ==
  \A e \in End : /\ link[e] \in EndState(Submitted(e), Submitted(Peer(e)))
                 /\ air[e] \in Seq(Frame(Submitted(e)))

\* No reassembly is under way while a message waits to be collected.
BackPressure ==
  \A e \in End : link[e].rx.active => link[e].delivered \notin Message

\* A cache entry that aged, or a reset, takes deliveries out of an end's memory.
NothingForgotten == spent["age"] = 0 /\ spent["reset"] = 0

\* A segment the sender has marked acknowledged (handle_ack) is held by the peer, in its
\* reassembly of that very message or in a message it has delivered: no partial ACK, late
\* or repeated, marks what was not stored.  Until the transfer is abandoned, an end is
\* reset or cancels, which drops its reassembly, or the message is larger than the peer
\* accepts.
AckedIsStored ==
  NothingForgotten /\ spent["cancel"] = 0 =>
    \A e \in End :
      LET tx == link[e].tx
          peer == link[Peer(e)] IN
      NoneAbandoned(e) /\ tx.payload \in peer.accepts =>
        \A s \in tx.acked : \/ Holds(Peer(e), tx.payload)
                            \/ peer.rx.active /\ peer.rx.payload[s] = tx.payload

\* Whatever an end has been through, the type, sequence, value and flag of what it queues
\* are of canonical form: a frame that is not would be dropped by queue_frame, or by the
\* peer, again at every retry.  The zeroed frame cached for a beacon is the exception.
QueuedIsCanonical ==
  \A e \in End : \A i \in DOMAIN link[e].out_frames : Canonical(link[e].out_frames[i])

\* Lost ACKs, retransmissions, cancellations and new sessions never hand one message
\* to the application twice, as long as no end forgets what it delivered.
DeliveredOnce ==
  NothingForgotten =>
    \A e \in End : \A i, j \in DOMAIN DeliveredLog(e) :
      DeliveredLog(e)[i] = DeliveredLog(e)[j] => i = j

\* Whatever frames of different messages a reassembly mixes, what is delivered is
\* one message the peer's application submitted (the SHA-256 check of
\* finish_rx_message).
DeliveredIntact ==
  \A e \in End : \A i \in DOMAIN DeliveredLog(e) :
    DeliveredLog(e)[i] \in Submitted(Peer(e))

\* A message that waits to be collected stays until kal_receive takes it or
\* kal_link_reset clears it: nothing heard, cancelled, given up or aged in between
\* overwrites it (the back-pressure of handle_data and handle_beacon) or drops it.
StagedUntilCollected ==
  [][\A e \in End :
       link[e].delivered \in Message /\ link'[e].delivered # link[e].delivered
         => Collect(e) \/ Reset(e)]_vars

\* Two ends that are both in session are in the same one, and use one window: a
\* sender paces by the number of segments after which its peer acknowledges.
OneSession ==
  \A e, d \in End :
    link[e].session_open /\ link[d].session_open =>
      /\ link[e].session_id = link[d].session_id
      /\ link[e].window = link[d].window

\* While the losses stay within the retry budget, every message an initiator or
\* an end in session submits is confirmed to it (no silent stall after a timeout,
\* a lost ACK or a lost HELLO).
EveryMessageConfirmed ==
  \A e \in End : \A n \in 1 .. Len(Outbox[e]) :
    link[e].submitted = n /\ (link[e].role = "initiator" \/ link[e].session_open)
      ~> Len(SentLog(e)) >= n

\* Simultaneous initiation: of two ends that wait for the answer to their HELLOs at
\* the same time one yields, and the other's message still arrives (handle_hello), unless
\* more frames are lost than the retry budget covers.
CollisionSurvived ==
  (\A e \in End : link[e].hello_pending)
    ~> \/ \E e \in End : Holds(e, Outbox[Peer(e)][1])
       \/ spent["lose"] > MaxRetries

\* No transfer, and kal_tx_status says KAL_ERR_BUSY.
Untold(L) == L.tx_status = "BUSY" /\ ~L.tx.active

\* e hears a HELLO that wins over its own.
YieldsTo(e) == /\ Hear(e, "HELLO")
               /\ link[e].role = "initiator" /\ link[e].hello_pending
               /\ Yields(link[e], Head(air[Peer(e)]))

\* e's application sends, and there is no room for the HELLO.
FindsNoRoom(e) == SendOpening(e) /\ Len(link[e].out_frames) >= OutQueueFrames

\* A transfer that ends and leaves kal_tx_status at KAL_ERR_BUSY ends by yielding
\* (handle_hello drops the message and leaves the status) or for want of room for its
\* HELLO (open_session).  Every other end, the give-ups of HELLO and DATA among them,
\* tells the application in the step that ends the transfer.
BusyUnlessYielded ==
  [][\A e \in End : Untold(link'[e]) =>
       \/ Untold(link[e]) /\ link'[e].submitted = link[e].submitted
       \/ YieldsTo(e) \/ FindsNoRoom(e)]_vars

\* A transfer ends: it is confirmed, cancelled or given up (kal_tx_status).
TransferResolves ==
  \A e \in End :
    link[e].tx.active /\ (link[e].role = "initiator" \/ link[e].session_open)
      ~> ~link[e].tx.active

----------------------------------------------------------------------------
(* What the comments, the header and the tests say, and the code does not  *)
(* do in every case: each is refuted by a run of its own.                  *)

\* kal_tx_status: KAL_OK means the last transfer completed.
ConfirmedWasDelivered ==
  \A e \in End : \A i \in DOMAIN SentLog(e) : Holds(Peer(e), SentLog(e)[i])

\* handle_data: a DATA frame whose key is in the duplicate cache was "already
\* delivered once".
SuppressedWasDelivered ==
  \A e \in End :
    LET f == Head(air[Peer(e)]) IN
    /\ air[Peer(e)] # << >>
    /\ f.type = "DATA"
    /\ InSession(link[e], f)
    /\ dup_lookup(link[e], f.session_id, f.message_id) # {}
    => Holds(e, f.payload)

=============================================================================
