--------------------------- MODULE KalSessionProofs --------------------------
(* What a step of an end does to the end, to its queue and to the air, and  *)
(* that two ends in session agree on it.                                    *)
EXTENDS KalLinkProofs, KalLinkDelivery

\* A sequence of whatever elements.
Row(s) == \E U : s \in Seq(U)

\* The fields of a struct kal_link that the proofs below look at.
IsEnd(L) ==
  /\ DOMAIN L = {"role", "profile", "window", "accepts", "session_open", "hello_pending",
       "session_id", "challenge", "next_message_id", "hello_ack_valid", "hello_ack_cached",
       "hello_retries", "tx", "tx_status", "deadline_set", "rx", "dup_cache", "delivered",
       "out_frames", "submitted", "stats"}
  /\ DOMAIN L.tx = {"active", "started", "message_id", "total", "base", "retries", "payload",
       "acked", "inflight"}
  /\ DOMAIN L.rx = {"active", "session_id", "message_id", "total", "payload", "ack_valid",
       "ack_cached"}
  /\ DOMAIN L.stats = {"messages_delivered", "messages_sent"}
  /\ L.window \in 0 .. 255 /\ L.profile \in 0 .. 255
  /\ Row(L.out_frames)

SameSession(L, R) ==
  /\ R.role = L.role /\ R.window = L.window
  /\ R.session_open = L.session_open /\ R.hello_pending = L.hello_pending
  /\ R.session_id = L.session_id
  /\ R.hello_ack_valid = L.hello_ack_valid /\ R.hello_ack_cached = L.hello_ack_cached

SameTransfer(L, R) ==
  /\ R.tx.active = L.tx.active
  /\ L.tx.active => R.tx.message_id = L.tx.message_id /\ R.tx.payload = L.tx.payload
  /\ R.next_message_id = L.next_message_id /\ R.submitted = L.submitted
  /\ R.stats.messages_sent = L.stats.messages_sent

SameReceipt(L, R) ==
  /\ R.rx = L.rx /\ R.dup_cache = L.dup_cache /\ R.delivered = L.delivered
  /\ R.stats.messages_delivered = L.stats.messages_delivered

\* R has queued frames of S behind those of L.
Queues(L, R, S) == \E Q \in Seq(S) : R.out_frames = L.out_frames \o Q

\* Frames queued in two steps are frames queued, in either case.
LEMMA QueuesNothing ==
  ASSUME NEW L, NEW R, Row(L.out_frames), R.out_frames = L.out_frames, NEW S
  PROVE  Queues(L, R, S)
<1>1. PICK U : L.out_frames \in Seq(U)  BY DEF Row
<1>2. << >> \in Seq(S) /\ L.out_frames = L.out_frames \o << >>  BY <1>1
<1> QED  BY <1>2 DEF Queues

\* What is queued in two steps is queued in one.
LEMMA QueuesMore ==
  ASSUME NEW L, NEW M, NEW R, NEW S, NEW T, Row(L.out_frames), Queues(L, M, S), Queues(M, R, T)
  PROVE  Queues(L, R, S \cup T)
<1>1. PICK U : L.out_frames \in Seq(U)  BY DEF Row
<1>2. PICK P \in Seq(S) : M.out_frames = L.out_frames \o P  BY DEF Queues
<1>3. PICK Q \in Seq(T) : R.out_frames = M.out_frames \o Q  BY DEF Queues
<1> DEFINE V == U \cup S \cup T
<1>4. L.out_frames \in Seq(V) /\ P \in Seq(V) /\ Q \in Seq(V)
  <2>1. U \subseteq V /\ S \subseteq V /\ T \subseteq V  OBVIOUS
  <2> HIDE DEF V
  <2>2. L.out_frames \in Seq(V)  BY <1>1, <2>1, SeqMonotonic
  <2>3. P \in Seq(V)  BY <2>1, SeqMonotonic
  <2>4. Q \in Seq(V)  BY <2>1, SeqMonotonic
  <2> QED  BY <2>2, <2>3, <2>4
<1> HIDE DEF V
<1>5. R.out_frames = L.out_frames \o (P \o Q)
  <2>1. \A s, t, u \in Seq(V) : (s \o t) \o u = s \o (t \o u)  BY ConcatAssociative
  <2>2. (L.out_frames \o P) \o Q = L.out_frames \o (P \o Q)  BY <1>4, <2>1
  <2> QED  BY <1>2, <1>3, <2>2
<1>6. P \o Q \in Seq(S \cup T)
  <2>1. S \subseteq S \cup T /\ T \subseteq S \cup T  OBVIOUS
  <2>2. P \in Seq(S \cup T)  BY <2>1, SeqMonotonic
  <2>3. Q \in Seq(S \cup T)  BY <2>1, SeqMonotonic
  <2> QED  BY <2>2, <2>3, ConcatProperties
<1> QED  BY <1>5, <1>6 DEF Queues

\* A queue stays a sequence.
LEMMA QueuesRow ==
  ASSUME NEW L, NEW R, NEW S, Row(L.out_frames), Queues(L, R, S)
  PROVE  Row(R.out_frames)
<1>1. PICK U : L.out_frames \in Seq(U)  BY DEF Row
<1>2. PICK Q \in Seq(S) : R.out_frames = L.out_frames \o Q  BY DEF Queues
<1>3. L.out_frames \in Seq(U \cup S) /\ Q \in Seq(U \cup S)
  <2>1. U \subseteq U \cup S /\ S \subseteq U \cup S  OBVIOUS
  <2> QED  BY <1>1, <2>1, SeqMonotonic
<1>4. R.out_frames \in Seq(U \cup S)  BY <1>2, <1>3
<1> QED  BY <1>4 DEF Row

\* queue_frame queues the frame it is given, or nothing.
LEMMA QueueFrame ==
  ASSUME NEW L, IsEnd(L), NEW f
  PROVE  LET R == queue_frame(L, f) IN
         /\ IsEnd(R) /\ SameSession(L, R) /\ SameTransfer(L, R) /\ SameReceipt(L, R)
         /\ R.tx = L.tx /\ R.stats = L.stats /\ R.accepts = L.accepts
         /\ Queues(L, R, {f})
<1> DEFINE R == queue_frame(L, f)
<1>1. R = L \/ R = [L EXCEPT !.out_frames = Append(@, f)]  BY DEF queue_frame
<1>2. CASE R = L
  <2>1. Queues(L, R, {f})  BY <1>2, QueuesNothing DEF IsEnd
  <2> QED  BY <1>2, <2>1 DEF SameSession, SameTransfer, SameReceipt
<1>3. CASE R = [L EXCEPT !.out_frames = Append(@, f)]
  <2> DEFINE out == Append(L.out_frames, f)
  <2>1. out = L.out_frames \o <<f>> /\ <<f>> \in Seq({f})
    <3>1. PICK U : L.out_frames \in Seq(U)  BY DEF IsEnd, Row
    <3>2. L.out_frames \in Seq(U \cup {f})  BY <3>1
    <3> QED  BY <3>2
  <2>2. R = [L EXCEPT !.out_frames = out]  BY <1>3
  <2> HIDE DEF out, R
  <2>3. R.out_frames = out  BY <2>2 DEF IsEnd
  <2>4. Queues(L, R, {f})  BY <2>1, <2>3 DEF Queues
  <2>5. IsEnd(R)
    <3>1. Row(R.out_frames)  BY <2>4, QueuesRow DEF IsEnd
    <3> QED  BY <2>2, <3>1 DEF IsEnd
  <2>6. SameSession(L, R)  BY <2>2 DEF IsEnd, SameSession
  <2>7. SameTransfer(L, R) /\ SameReceipt(L, R)  BY <2>2 DEF IsEnd, SameTransfer, SameReceipt
  <2>8. R.tx = L.tx /\ R.stats = L.stats /\ R.accepts = L.accepts  BY <2>2 DEF IsEnd
  <2> QED  BY <2>4, <2>5, <2>6, <2>7, <2>8 DEF R
<1> QED  BY <1>1, <1>2, <1>3

\* g carries a segment of the transfer of L.
Carries(L, g) == /\ g.type = "DATA" /\ g.session_id = L.session_id
                 /\ g.message_id = L.tx.message_id /\ g.payload = L.tx.payload

\* queue_window queues segments of the transfer and touches nothing but its books.
LEMMA QueueWindow ==
  ASSUME NEW L, IsEnd(L)
  PROVE  LET R == queue_window(L) IN
         /\ IsEnd(R) /\ SameSession(L, R) /\ SameTransfer(L, R) /\ SameReceipt(L, R)
         /\ R.tx.message_id = L.tx.message_id /\ R.tx.payload = L.tx.payload
         /\ R.tx.started = L.tx.started
         /\ R.stats = L.stats
         /\ \E S : Queues(L, R, S) /\ \A g \in S : Carries(L, g)
<1> DEFINE R == queue_window(L)
           n == Cardinality(Batch(L))
           queued == [i \in 1 .. n |-> DataFrame(L, Ranked(Batch(L), i - 1))]
           S == {DataFrame(L, Ranked(Batch(L), i - 1)) : i \in 1 .. n}
           out == L.out_frames \o queued
           tx == [L.tx EXCEPT !.inflight = @ \cup Batch(L)]
<1>1. n \in Nat
  <2>1. Batch(L) \subseteq 0 .. MaxSegments  BY DataAssumption DEF Batch, Eligible, Segment
  <2>2. MaxSegments \in Nat  BY DataAssumption
  <2> QED  BY <2>1, <2>2, BoundedFinite
<1>2. queued \in Seq(S)
  <2>1. \A i \in 1 .. n : queued[i] \in S  OBVIOUS
  <2>2. queued \in [1 .. n -> S]  BY <2>1
  <2> HIDE DEF S, queued, n
  <2> QED  BY <1>1, <2>2
<1>3. \A g \in S : Carries(L, g)  BY DEF Carries, DataFrame, ZeroFrame
<1>4. R = [L EXCEPT !.out_frames = out, !.tx = tx]  BY DEF queue_window
<1>5. DOMAIN tx = DOMAIN L.tx /\ tx.active = L.tx.active /\ tx.message_id = L.tx.message_id
      /\ tx.payload = L.tx.payload /\ tx.started = L.tx.started
  BY DEF IsEnd
<1> HIDE DEF R, out, tx, queued, S
<1>6. R.out_frames = out /\ R.tx = tx /\ R.stats = L.stats  BY <1>4 DEF IsEnd
<1>7. Queues(L, R, S)  BY <1>2, <1>6 DEF Queues, out
<1>8. Row(R.out_frames)  BY <1>7, QueuesRow DEF IsEnd
<1>9. IsEnd(R)  BY <1>4, <1>5, <1>6, <1>8 DEF IsEnd
<1>10. SameSession(L, R)  BY <1>4 DEF IsEnd, SameSession
<1>11. SameTransfer(L, R)  BY <1>4, <1>5, <1>6 DEF IsEnd, SameTransfer
<1>12. SameReceipt(L, R)  BY <1>4 DEF IsEnd, SameReceipt
<1> QED  BY <1>3, <1>5, <1>6, <1>7, <1>9, <1>10, <1>11, <1>12 DEF R

\* start_or_resume_tx likewise.
LEMMA StartOrResume ==
  ASSUME NEW L, IsEnd(L)
  PROVE  LET R == start_or_resume_tx(L) IN
         /\ IsEnd(R) /\ SameSession(L, R) /\ SameTransfer(L, R) /\ SameReceipt(L, R)
         /\ R.stats = L.stats
         /\ \E S : Queues(L, R, S) /\ \A g \in S : Carries(R, g)
<1> DEFINE Q == queue_window(L)
           R == start_or_resume_tx(L)
<1>1. CASE R = L
  <2>1. Queues(L, R, {})  BY <1>1, QueuesNothing DEF IsEnd
  <2> QED  BY <1>1, <2>1 DEF SameSession, SameTransfer, SameReceipt
<1>2. CASE R = [Q EXCEPT !.tx = [Q.tx EXCEPT !.started = TRUE], !.deadline_set = TRUE]
  <2>1. /\ IsEnd(Q) /\ SameSession(L, Q) /\ SameTransfer(L, Q) /\ SameReceipt(L, Q)
        /\ Q.tx.message_id = L.tx.message_id /\ Q.tx.payload = L.tx.payload
        /\ Q.stats = L.stats
    BY QueueWindow
  <2>2. PICK S : Queues(L, Q, S) /\ \A g \in S : Carries(L, g)  BY QueueWindow
  <2> HIDE DEF Q, R
  <2> DEFINE tx == [Q.tx EXCEPT !.started = TRUE]
  <2>3. DOMAIN tx = DOMAIN Q.tx /\ tx.active = Q.tx.active /\ tx.message_id = Q.tx.message_id
        /\ tx.payload = Q.tx.payload
    BY <2>1 DEF IsEnd
  <2>4. R = [Q EXCEPT !.tx = tx, !.deadline_set = TRUE]  BY <1>2
  <2> HIDE DEF tx
  <2>5. R.tx = tx /\ R.stats = Q.stats /\ R.out_frames = Q.out_frames  BY <2>1, <2>4 DEF IsEnd
  <2>6. IsEnd(R)  BY <2>1, <2>3, <2>4, <2>5 DEF IsEnd
  <2>7. SameSession(L, R)  BY <2>1, <2>4 DEF IsEnd, SameSession
  <2>8. SameTransfer(L, R)  BY <2>1, <2>3, <2>4, <2>5 DEF IsEnd, SameTransfer
  <2>9. SameReceipt(L, R)  BY <2>1, <2>4 DEF IsEnd, SameReceipt
  <2>10. Queues(L, R, S)  BY <2>2, <2>5 DEF Queues
  <2>11. \A g \in S : Carries(R, g)  BY <2>1, <2>2, <2>3, <2>5, <2>7 DEF Carries, SameSession
  <2> QED  BY <2>1, <2>5, <2>6, <2>7, <2>8, <2>9, <2>10, <2>11 DEF R
<1> QED  BY <1>1, <1>2 DEF start_or_resume_tx

\* fail_tx drops the transfer and queues a CANCEL.
LEMMA FailTx ==
  ASSUME NEW L, IsEnd(L), NEW status
  PROVE  LET R == fail_tx(L, status) IN
         /\ IsEnd(R) /\ SameSession(L, R) /\ SameReceipt(L, R)
         /\ R.tx = NoTx /\ R.next_message_id = L.next_message_id
         /\ R.submitted = L.submitted /\ R.stats = L.stats
         /\ Queues(L, R, {CancelFrame(L)})
<1> DEFINE Q == queue_frame(L, CancelFrame(L))
           R == fail_tx(L, status)
<1>1. /\ IsEnd(Q) /\ SameSession(L, Q) /\ SameTransfer(L, Q) /\ SameReceipt(L, Q)
      /\ Q.stats = L.stats /\ Queues(L, Q, {CancelFrame(L)})
  BY QueueFrame
<1>2. R = [Q EXCEPT !.tx = NoTx, !.tx_status = status, !.deadline_set = FALSE]
  <2>1. \A X, t : IsEnd(X) => [[X EXCEPT !.tx = t] EXCEPT !.tx_status = status, !.deadline_set = FALSE]
                         = [X EXCEPT !.tx = t, !.tx_status = status, !.deadline_set = FALSE]
    OBVIOUS
  <2> HIDE DEF Q
  <2>2. R = [[Q EXCEPT !.tx = NoTx] EXCEPT !.tx_status = status, !.deadline_set = FALSE]
    BY DEF fail_tx, clear_tx_message, Q
  <2> QED  BY <1>1, <2>1, <2>2
<1> HIDE DEF Q, R
<1>3. R.tx = NoTx /\ R.out_frames = Q.out_frames /\ R.stats = Q.stats  BY <1>1, <1>2 DEF IsEnd
<1>4. IsEnd(R)  BY <1>1, <1>2, <1>3 DEF IsEnd, NoTx
<1>5. SameSession(L, R)  BY <1>1, <1>2 DEF IsEnd, SameSession
<1>6. R.next_message_id = L.next_message_id /\ R.submitted = L.submitted
  BY <1>1, <1>2 DEF IsEnd, SameTransfer
<1>7. SameReceipt(L, R)  BY <1>1, <1>2 DEF IsEnd, SameReceipt
<1>8. Queues(L, R, {CancelFrame(L)})  BY <1>1, <1>3 DEF Queues
<1> QED  BY <1>1, <1>3, <1>4, <1>5, <1>6, <1>7, <1>8 DEF R

----------------------------------------------------------------------------
(* The steps of an end.  heard is what it has heard, a frame or nothing,   *)
(* ids the session id it has drawn and sends the message it was handed,    *)
(* if any.                                                                 *)

\* A frame that a step from L to R queues.
Emits(L, R, heard, g) ==
  \/ /\ g.type = "HELLO" /\ R.hello_pending /\ g.session_id = R.session_id
     /\ kal_capability_window(g.value) = R.window
  \/ R.hello_ack_valid /\ g = R.hello_ack_cached
  \/ /\ R.tx.active /\ Carries(R, g)
     /\ R.session_open \/ L.tx.started \/ \E f \in heard : f.type = "ACK"
  \/ g.type = "BEACON" /\ g.session_id = R.session_id /\ g.message_id = R.next_message_id
  \/ g.type = "CANCEL"
  \/ R.rx.ack_valid /\ g = R.rx.ack_cached /\ \E f \in heard : f.type = "DATA"
  \/ \E i \in DOMAIN R.dup_cache : g = R.dup_cache[i].ack

SameWindow(L, R) == R.role = L.role /\ R.window = L.window

SameHelloAck(L, R) ==
  R.hello_ack_valid = L.hello_ack_valid /\ R.hello_ack_cached = L.hello_ack_cached

\* open_session.
Draws(L, R, ids) ==
  /\ L.role = "initiator" /\ ~L.session_open /\ ~L.hello_pending
  /\ R.session_id \in ids /\ ~R.session_open
  /\ SameWindow(L, R) /\ SameHelloAck(L, R)

\* The last HELLO is not answered.
GivesUp(L, R) ==
  /\ L.hello_pending /\ ~R.hello_pending
  /\ R.session_id = L.session_id /\ R.session_open = L.session_open
  /\ SameWindow(L, R) /\ SameHelloAck(L, R)

\* handle_hello: an initiator yields, a responder may leave another session.
Joins(L, R, heard) ==
  \E f \in heard :
    /\ f.type = "HELLO"
    /\ L.role = "initiator" => L.hello_pending \/ ~L.session_open
    /\ L.session_open => f.session_id # L.session_id
    /\ R.role = L.role /\ R.window = Narrowed(L, f)
    /\ R.session_open /\ R.session_id = f.session_id
    /\ R.hello_pending => L.hello_pending /\ L.role # "initiator"
    /\ R.hello_ack_valid /\ R.hello_ack_cached.type = "HELLO_ACK"
    /\ R.hello_ack_cached.session_id = R.session_id
    /\ kal_capability_window(R.hello_ack_cached.value) = R.window

\* handle_hello_ack.
Opens(L, R, heard) ==
  \E f \in heard :
    /\ f.type = "HELLO_ACK" /\ f.session_id = L.session_id /\ L.hello_pending
    /\ R.role = L.role /\ R.window = Narrowed(L, f)
    /\ R.session_open /\ ~R.hello_pending /\ R.session_id = L.session_id
    /\ SameHelloAck(L, R)

MovesSession(L, R, heard, ids) ==
  \/ SameSession(L, R) \/ Draws(L, R, ids) \/ GivesUp(L, R)
  \/ Joins(L, R, heard) \/ Opens(L, R, heard)

SameBooks(L, R) ==
  R.next_message_id = L.next_message_id /\ R.stats.messages_sent = L.stats.messages_sent

\* kal_send.
Starts(L, R, sends) ==
  /\ ~L.tx.active /\ R.tx.active
  /\ R.tx.message_id = L.next_message_id /\ R.tx.payload \in sends
  /\ R.submitted = L.submitted + 1 /\ SameBooks(L, R)

\* kal_send that cannot open a session.
DropsNew(L, R, sends) ==
  /\ ~L.tx.active /\ ~R.tx.active /\ sends # {}
  /\ R.submitted = L.submitted + 1 /\ SameBooks(L, R)

Drops(L, R) ==
  /\ L.tx.active /\ ~R.tx.active
  /\ R.submitted = L.submitted /\ SameBooks(L, R)

\* handle_ack.
Confirms(L, R, heard) ==
  \E f \in heard :
    /\ f.type = "ACK" /\ f.flag /\ L.tx.active /\ f.message_id = L.tx.message_id
    /\ ~R.tx.active /\ R.submitted = L.submitted
    /\ R.next_message_id = (L.next_message_id + 2) % 65536
    /\ R.stats.messages_sent = Append(L.stats.messages_sent, L.tx.payload)

MovesTransfer(L, R, heard, sends) ==
  \/ SameTransfer(L, R) \/ Starts(L, R, sends) \/ DropsNew(L, R, sends)
  \/ Drops(L, R) \/ Confirms(L, R, heard)

SameDeliveries(L, R) ==
  /\ R.delivered = L.delivered
  /\ R.stats.messages_delivered = L.stats.messages_delivered

\* Nothing, or the reassembly is dropped.
Idles(L, R) ==
  /\ R.rx = L.rx \/ R.rx = NoRx
  /\ R.dup_cache = L.dup_cache /\ SameDeliveries(L, R)

\* A responder leaves a session.
Leaves(L, R, heard) ==
  /\ L.session_open /\ L.role # "initiator" /\ Joins(L, R, heard)
  /\ R.rx = NoRx /\ R.dup_cache = << >> /\ SameDeliveries(L, R)

\* A frame of the session whose key is not in the cache, the next of a reassembly or
\* the first of one that no staged delivery stands in the way of.
Fresh(L, f) ==
  /\ f.type = "DATA" /\ InSession(L, f)
  /\ dup_lookup(L, f.session_id, f.message_id) = {}
  /\ L.delivered # NoBody => L.rx.active /\ L.rx.message_id = f.message_id

\* handle_data.
Reassembles(L, R, heard) ==
  \E f \in heard :
    /\ Fresh(L, f)
    /\ R.rx.active /\ R.rx.message_id = f.message_id
    /\ \/ R.rx.session_id = f.session_id
       \/ L.rx.active /\ R.rx.session_id = L.rx.session_id
    /\ \/ ~R.rx.ack_valid
       \/ L.rx.ack_valid /\ R.rx.ack_cached = L.rx.ack_cached
       \/ R.rx.ack_cached.type = "ACK" /\ ~R.rx.ack_cached.flag
    /\ R.dup_cache = L.dup_cache /\ SameDeliveries(L, R)

\* Remembers a key: an older one may make room for it.
Remembers(L, R, key) ==
  \/ R.dup_cache = Append(L.dup_cache, key)
  \/ L.dup_cache # << >> /\ R.dup_cache = Append(Tail(L.dup_cache), key)

\* finish_rx_message.
Delivers(L, R, heard) ==
  \E f \in heard : \E key :
    /\ Fresh(L, f)
    /\ \/ key.session_id = f.session_id
       \/ L.rx.active /\ key.session_id = L.rx.session_id
    /\ key.message_id = f.message_id
    /\ key.ack.type = "ACK" /\ key.ack.flag /\ key.ack.message_id = f.message_id
    /\ R.rx = NoRx /\ Remembers(L, R, key)
    /\ f.payload \in Message /\ R.delivered = f.payload
    /\ R.stats.messages_delivered = Append(L.stats.messages_delivered, f.payload)

\* handle_beacon.
TakesBeacon(L, R, heard) ==
  \E f \in heard : \E key :
    /\ f.type = "BEACON" /\ L.delivered = NoBody
    /\ dup_lookup(L, f.session_id, f.message_id) = {}
    /\ key.session_id = f.session_id /\ key.message_id = f.message_id /\ key.ack = ZeroFrame
    /\ R.rx = L.rx /\ Remembers(L, R, key)
    /\ R.delivered = f.payload
    /\ R.stats.messages_delivered = L.stats.messages_delivered

\* kal_receive.
Collects(L, R) ==
  /\ R.rx = L.rx /\ R.dup_cache = L.dup_cache /\ R.delivered = NoBody
  /\ R.stats.messages_delivered = L.stats.messages_delivered

MovesReceipt(L, R, heard) ==
  \/ Idles(L, R) \/ Leaves(L, R, heard) \/ Reassembles(L, R, heard)
  \/ Delivers(L, R, heard) \/ TakesBeacon(L, R, heard) \/ Collects(L, R)

\* What every operation, handler and timer but a reset does to an end.
Moves(L, R, heard, ids, sends) ==
  /\ MovesSession(L, R, heard, ids)
  /\ MovesTransfer(L, R, heard, sends)
  /\ MovesReceipt(L, R, heard)
  /\ SameTransfer(L, R) \/ SameDeliveries(L, R)
  /\ R.tx.started => L.tx.started \/ R.session_open \/ \E f \in heard : f.type = "ACK"
  /\ \E S : Queues(L, R, S) /\ \A g \in S : Emits(L, R, heard, g)

----------------------------------------------------------------------------
(* Operations and timers.                                                  *)

\* What a HELLO and a HELLO_ACK say of the end that builds them.
LEMMA HelloSays ==
  ASSUME NEW L, IsEnd(L), NEW type
  PROVE  LET H == build_hello(L, type) IN
         /\ H.type = type /\ H.session_id = L.session_id
         /\ kal_capability_window(H.value) = L.window
<1>1. L.profile \in 0 .. 255 /\ L.window \in 0 .. 255  BY DEF IsEnd
<1>2. kal_capability_window(kal_capability_pack(L.profile, L.window)) = L.window
  BY <1>1, CapabilityRoundTrip
<1> QED  BY <1>2 DEF build_hello, ZeroFrame

\* open_session draws a session id and queues a HELLO, or drops the transfer.
LEMMA OpenSession ==
  ASSUME NEW L, IsEnd(L), NeedsSession(L), NEW ok, NEW id
  PROVE  LET R == open_session(L, [ok |-> ok, id |-> id]) IN
         /\ SameSession(L, R) \/ (ok /\ Draws(L, R, {id}))
         /\ R.tx = L.tx \/ R.tx = NoTx
         /\ R.next_message_id = L.next_message_id
         /\ R.submitted = L.submitted /\ R.stats = L.stats
         /\ SameReceipt(L, R)
         /\ \E S : Queues(L, R, S) /\ \A g \in S : Emits(L, R, {}, g)
<1> DEFINE draw == [ok |-> ok, id |-> id]
           X == [L EXCEPT !.session_id = id, !.challenge = id]
           Q == queue_frame(X, build_hello(X, "HELLO"))
           R == open_session(L, draw)
<1>1. /\ IsEnd(X) /\ SameReceipt(L, X) /\ SameWindow(L, X) /\ SameHelloAck(L, X)
      /\ X.tx = L.tx /\ X.stats = L.stats /\ X.out_frames = L.out_frames
      /\ X.session_id = id /\ X.session_open = L.session_open
      /\ X.next_message_id = L.next_message_id /\ X.submitted = L.submitted
  BY DEF IsEnd, SameReceipt, SameWindow, SameHelloAck
<1>2. CASE ~ok
  <2>1. R = [[L EXCEPT !.tx = NoTx] EXCEPT !.tx_status = "MODEM"]
    BY <1>2 DEF open_session, clear_tx_message
  <2> HIDE DEF R
  <2>2. /\ SameSession(L, R) /\ SameReceipt(L, R)
        /\ R.tx = NoTx /\ R.stats = L.stats /\ R.out_frames = L.out_frames
        /\ R.next_message_id = L.next_message_id /\ R.submitted = L.submitted
    BY <2>1 DEF IsEnd, SameSession, SameReceipt
  <2>3. Queues(L, R, {})  BY <2>2, QueuesNothing DEF IsEnd
  <2>4. \E S : Queues(L, R, S) /\ \A g \in S : Emits(L, R, {}, g)  BY <2>3
  <2> QED  BY <2>2, <2>4 DEF R
<1>3. CASE ok /\ Len(L.out_frames) >= OutQueueFrames
  <2>1. R = [[X EXCEPT !.tx = NoTx] EXCEPT !.tx_status = "BUSY"]
    BY <1>3 DEF open_session, clear_tx_message
  <2> HIDE DEF R, X
  <2>2. /\ SameReceipt(L, R) /\ SameWindow(L, R) /\ SameHelloAck(L, R)
        /\ R.session_id = id /\ R.session_open = L.session_open
        /\ R.tx = NoTx /\ R.stats = L.stats /\ R.out_frames = L.out_frames
        /\ R.next_message_id = L.next_message_id /\ R.submitted = L.submitted
    BY <1>1, <2>1 DEF IsEnd, SameReceipt, SameWindow, SameHelloAck
  <2>3. Queues(L, R, {})  BY <2>2, QueuesNothing DEF IsEnd
  <2>4. Draws(L, R, {id})  BY <2>2 DEF Draws, NeedsSession
  <2>5. \E S : Queues(L, R, S) /\ \A g \in S : Emits(L, R, {}, g)  BY <2>3
  <2> QED  BY <1>3, <2>2, <2>4, <2>5 DEF R
<1>4. CASE ok /\ ~(Len(L.out_frames) >= OutQueueFrames)
  <2> DEFINE H == build_hello(X, "HELLO")
  <2>1. R = [Q EXCEPT !.hello_pending = TRUE, !.hello_retries = 0, !.deadline_set = TRUE]
    BY <1>4 DEF open_session
  <2> HIDE DEF R, X
  <2>2. /\ IsEnd(Q) /\ SameSession(X, Q) /\ SameTransfer(X, Q) /\ SameReceipt(X, Q)
        /\ Q.tx = X.tx /\ Q.stats = X.stats /\ Queues(X, Q, {H})
    BY <1>1, QueueFrame
  <2>3. H.type = "HELLO" /\ H.session_id = id /\ kal_capability_window(H.value) = X.window
    BY <1>1, HelloSays
  <2> HIDE DEF Q, H
  <2>4. /\ SameReceipt(L, R) /\ SameWindow(L, R) /\ SameHelloAck(L, R)
        /\ R.session_id = id /\ R.session_open = L.session_open /\ R.hello_pending
        /\ R.tx = L.tx /\ R.stats = L.stats /\ R.out_frames = Q.out_frames
        /\ R.next_message_id = L.next_message_id /\ R.submitted = L.submitted
    BY <1>1, <2>1, <2>2
    DEF IsEnd, SameReceipt, SameWindow, SameHelloAck, SameSession, SameTransfer
  <2>5. Queues(L, R, {H})  BY <1>1, <2>2, <2>4 DEF Queues
  <2>6. Draws(L, R, {id})  BY <2>4 DEF Draws, NeedsSession
  <2>7. Emits(L, R, {}, H)  BY <1>1, <2>3, <2>4 DEF Emits, SameWindow
  <2>8. \E S : Queues(L, R, S) /\ \A g \in S : Emits(L, R, {}, g)  BY <2>5, <2>7
  <2> QED  BY <1>4, <2>4, <2>6, <2>8 DEF R
<1> QED  BY <1>2, <1>3, <1>4

\* An end that only clears its transfer, or leaves it as it was.
LEMMA ClearedTransfer ==
  ASSUME NEW L, NEW R, R.tx = L.tx \/ R.tx = NoTx, L.tx.active \in BOOLEAN,
         R.next_message_id = L.next_message_id, R.submitted = L.submitted,
         R.stats.messages_sent = L.stats.messages_sent
  PROVE  /\ SameTransfer(L, R) \/ Drops(L, R)
         /\ R.tx.started => L.tx.started
<1>1. NoTx.active = FALSE /\ NoTx.started = FALSE  BY DEF NoTx
<1> QED  BY <1>1 DEF SameTransfer, Drops, SameBooks

\* kal_send, with what open_session draws.
LEMMA SendMoves ==
  ASSUME NEW L, IsEnd(L), ~L.tx.active, NEW m, NEW ok, NEW id
  PROVE  Moves(L, kal_send(L, m, [ok |-> ok, id |-> id]), {},
               IF NeedsSession(L) /\ ok THEN {id} ELSE {}, {m})
<1> DEFINE draw == [ok |-> ok, id |-> id]
           tx == [NoTx EXCEPT !.active = TRUE, !.message_id = L.next_message_id,
                              !.total = Segments[m], !.payload = m]
           X == [L EXCEPT !.tx = tx, !.tx_status = "BUSY", !.submitted = @ + 1]
           R == kal_send(L, m, draw)
           ids == IF NeedsSession(L) /\ ok THEN {id} ELSE {}
<1>1. /\ DOMAIN tx = DOMAIN NoTx /\ tx.active /\ ~tx.started
      /\ tx.message_id = L.next_message_id /\ tx.payload = m
  BY DEF NoTx
<1>2. X = [L EXCEPT !.tx = tx, !.tx_status = "BUSY", !.submitted = @ + 1]  OBVIOUS
<1> HIDE DEF tx, X
<1>3. /\ IsEnd(X) /\ SameSession(L, X) /\ SameReceipt(L, X)
      /\ X.tx = tx /\ X.stats = L.stats /\ X.out_frames = L.out_frames
      /\ X.next_message_id = L.next_message_id /\ X.submitted = L.submitted + 1
  BY <1>1, <1>2 DEF IsEnd, SameSession, SameReceipt, NoTx
<1>4. R = IF L.session_open THEN start_or_resume_tx(X)
          ELSE IF NeedsSession(L) THEN open_session(X, draw) ELSE X
  BY <1>2 DEF kal_send, tx
<1>5. CASE L.session_open
  <2>1. R = start_or_resume_tx(X)  BY <1>4, <1>5
  <2> HIDE DEF R
  <2>2. /\ SameSession(X, R) /\ SameTransfer(X, R) /\ SameReceipt(X, R) /\ R.stats = X.stats
        /\ \E S : Queues(X, R, S) /\ \A g \in S : Carries(R, g)
    BY <1>3, <2>1, StartOrResume
  <2>3. SameSession(L, R) /\ SameReceipt(L, R)  BY <1>3, <2>2 DEF SameSession, SameReceipt
  <2>4. Starts(L, R, {m})  BY <1>1, <1>3, <2>2 DEF Starts, SameTransfer, SameBooks
  <2>5. R.session_open /\ R.tx.active  BY <1>5, <2>3, <2>4 DEF SameSession, Starts
  <2>6. \E S : Queues(L, R, S) /\ \A g \in S : Emits(L, R, {}, g)
    BY <1>3, <2>2, <2>5 DEF Queues, Emits
  <2>7. MovesSession(L, R, {}, ids) /\ MovesTransfer(L, R, {}, {m}) /\ MovesReceipt(L, R, {})
    BY <2>3, <2>4
    DEF MovesSession, MovesTransfer, MovesReceipt, Idles, SameReceipt, SameDeliveries
  <2>8. SameDeliveries(L, R)  BY <2>3 DEF SameReceipt, SameDeliveries
  <2> QED  BY <2>5, <2>6, <2>7, <2>8 DEF Moves, R
<1>6. CASE ~L.session_open /\ NeedsSession(L)
  <2>1. R = open_session(X, draw)  BY <1>4, <1>6
  <2>2. NeedsSession(X)  BY <1>3, <1>6 DEF NeedsSession, SameSession
  <2> HIDE DEF R
  <2>3. /\ SameSession(X, R) \/ (ok /\ Draws(X, R, {id}))
        /\ R.tx = X.tx \/ R.tx = NoTx
        /\ R.next_message_id = X.next_message_id
        /\ R.submitted = X.submitted /\ R.stats = X.stats
        /\ SameReceipt(X, R)
        /\ \E S : Queues(X, R, S) /\ \A g \in S : Emits(X, R, {}, g)
    BY <1>3, <2>1, <2>2, OpenSession
  <2>4. SameReceipt(L, R)  BY <1>3, <2>3 DEF SameReceipt
  <2>5. SameSession(L, R) \/ (ok /\ Draws(L, R, {id}))
    BY <1>3, <2>3 DEF SameSession, Draws, SameWindow, SameHelloAck
  <2>6. MovesSession(L, R, {}, ids)
    BY <1>6, <2>5 DEF MovesSession, Draws
  <2>7. ~NoTx.active /\ ~NoTx.started  BY DEF NoTx
  <2>8. MovesTransfer(L, R, {}, {m}) /\ ~R.tx.started
    BY <1>1, <1>3, <2>3, <2>7 DEF MovesTransfer, Starts, DropsNew, SameBooks
  <2>9. MovesReceipt(L, R, {}) /\ SameDeliveries(L, R)
    BY <2>4 DEF MovesReceipt, Idles, SameReceipt, SameDeliveries
  <2>10. \E S : Queues(L, R, S) /\ \A g \in S : Emits(L, R, {}, g)
    <3>1. PICK S : Queues(X, R, S) /\ \A g \in S : Emits(X, R, {}, g)  BY <2>3
    <3>2. Queues(L, R, S)  BY <1>3, <3>1 DEF Queues
    <3>3. ASSUME NEW g, Emits(X, R, {}, g) PROVE Emits(L, R, {}, g)
      BY <1>1, <1>3, <3>3 DEF Emits, SameReceipt
    <3> QED  BY <3>1, <3>2, <3>3
  <2> QED  BY <2>6, <2>8, <2>9, <2>10 DEF Moves, R
<1>7. CASE ~L.session_open /\ ~NeedsSession(L)
  <2>1. R = X  BY <1>4, <1>7
  <2> HIDE DEF R
  <2>2. MovesSession(L, R, {}, ids) /\ MovesReceipt(L, R, {}) /\ SameDeliveries(L, R)
    BY <1>3, <2>1
    DEF MovesSession, MovesReceipt, Idles, SameReceipt, SameDeliveries
  <2>3. MovesTransfer(L, R, {}, {m}) /\ ~R.tx.started
    BY <1>1, <1>3, <2>1 DEF MovesTransfer, Starts, SameBooks
  <2>4. Queues(L, R, {})  BY <1>3, <2>1, QueuesNothing DEF IsEnd
  <2> QED  BY <2>2, <2>3, <2>4 DEF Moves, R
<1> QED  BY <1>5, <1>6, <1>7

\* kal_beacon.
LEMMA BeaconMoves ==
  ASSUME NEW L, IsEnd(L), NEW p
  PROVE  Moves(L, kal_beacon(L, p), {}, {}, {})
<1> DEFINE g == [ZeroFrame EXCEPT !.type = "BEACON", !.session_id = L.session_id,
                    !.message_id = L.next_message_id, !.payload = p]
           R == kal_beacon(L, p)
<1>1. g.type = "BEACON" /\ g.session_id = L.session_id /\ g.message_id = L.next_message_id
  BY DEF ZeroFrame
<1>2. R = queue_frame(L, g)  BY DEF kal_beacon
<1> HIDE DEF g, R
<1>3. /\ SameSession(L, R) /\ SameTransfer(L, R) /\ SameReceipt(L, R) /\ R.tx = L.tx
      /\ Queues(L, R, {g})
  BY <1>2, QueueFrame
<1>4. Emits(L, R, {}, g)  BY <1>1, <1>3 DEF Emits, SameSession, SameTransfer
<1>5. \E S : Queues(L, R, S) /\ \A h \in S : Emits(L, R, {}, h)  BY <1>3, <1>4
<1>6. MovesSession(L, R, {}, {}) /\ MovesTransfer(L, R, {}, {}) /\ MovesReceipt(L, R, {})
  BY <1>3
  DEF MovesSession, MovesTransfer, MovesReceipt, Idles, SameReceipt, SameDeliveries
<1> QED  BY <1>3, <1>5, <1>6 DEF Moves, R

\* kal_cancel.
LEMMA CancelMoves ==
  ASSUME NEW L, IsEnd(L), L.tx.active \in BOOLEAN
  PROVE  Moves(L, kal_cancel(L), {}, {}, {})
<1> DEFINE F == fail_tx(L, "CANCELLED")
           R == kal_cancel(L)
           g == CancelFrame(L)
<1>1. /\ IsEnd(F) /\ SameSession(L, F) /\ SameReceipt(L, F)
      /\ F.tx = NoTx /\ F.next_message_id = L.next_message_id
      /\ F.submitted = L.submitted /\ F.stats = L.stats
      /\ Queues(L, F, {g})
  BY FailTx
<1>2. g.type = "CANCEL"  BY DEF CancelFrame, ZeroFrame
<1>3. R = [F EXCEPT !.rx = NoRx]  BY DEF kal_cancel, clear_rx_message
<1> HIDE DEF F, R, g
<1>4. /\ SameSession(L, R) /\ R.rx = NoRx /\ R.dup_cache = L.dup_cache /\ SameDeliveries(L, R)
      /\ R.tx = NoTx /\ R.next_message_id = L.next_message_id
      /\ R.submitted = L.submitted /\ R.stats = L.stats /\ R.out_frames = F.out_frames
  BY <1>1, <1>3 DEF IsEnd, SameSession, SameReceipt, SameDeliveries
<1>5. Queues(L, R, {g}) /\ Emits(L, R, {}, g)  BY <1>1, <1>2, <1>4 DEF Queues, Emits
<1>6. \E S : Queues(L, R, S) /\ \A h \in S : Emits(L, R, {}, h)  BY <1>5
<1>7. (SameTransfer(L, R) \/ Drops(L, R)) /\ (R.tx.started => L.tx.started)
  BY <1>4, ClearedTransfer
<1>8. MovesSession(L, R, {}, {}) /\ MovesTransfer(L, R, {}, {}) /\ MovesReceipt(L, R, {})
  BY <1>4, <1>7 DEF MovesSession, MovesTransfer, MovesReceipt, Idles
<1> QED  BY <1>4, <1>6, <1>7, <1>8 DEF Moves, R

\* kal_receive.
LEMMA CollectMoves ==
  ASSUME NEW L, IsEnd(L)
  PROVE  Moves(L, [L EXCEPT !.delivered = NoBody], {}, {}, {})
<1> DEFINE R == [L EXCEPT !.delivered = NoBody]
<1>1. /\ SameSession(L, R) /\ SameTransfer(L, R) /\ Collects(L, R) /\ R.tx = L.tx
      /\ R.out_frames = L.out_frames
  BY DEF IsEnd, SameSession, SameTransfer, Collects
<1> HIDE DEF R
<1>2. Queues(L, R, {})  BY <1>1, QueuesNothing DEF IsEnd
<1>3. \E S : Queues(L, R, S) /\ \A h \in S : Emits(L, R, {}, h)  BY <1>2
<1>4. MovesSession(L, R, {}, {}) /\ MovesTransfer(L, R, {}, {}) /\ MovesReceipt(L, R, {})
  BY <1>1 DEF MovesSession, MovesTransfer, MovesReceipt
<1> QED  BY <1>1, <1>3, <1>4 DEF Moves, R

\* What start_or_resume_tx(X) does to L when X differs from L in the books of the
\* transfer only, the deadline armed again or not.
LEMMA ResumeMoves ==
  ASSUME NEW L, NEW X, IsEnd(L), IsEnd(X), NEW heard, L.tx.active,
         SameSession(L, X), SameTransfer(L, X), SameReceipt(L, X),
         X.stats = L.stats, X.out_frames = L.out_frames,
         L.tx.started \/ \E f \in heard : f.type = "ACK",
         NEW R, R \in {start_or_resume_tx(X), [start_or_resume_tx(X) EXCEPT !.deadline_set = TRUE]}
  PROVE  Moves(L, R, heard, {}, {})
<1> DEFINE Q == start_or_resume_tx(X)
<1>1. /\ IsEnd(Q) /\ SameSession(X, Q) /\ SameTransfer(X, Q) /\ SameReceipt(X, Q)
      /\ Q.stats = X.stats
  BY StartOrResume
<1>2. PICK S : Queues(X, Q, S) /\ \A g \in S : Carries(Q, g)  BY StartOrResume
<1>3. R = Q \/ R = [Q EXCEPT !.deadline_set = TRUE]  OBVIOUS
<1> HIDE DEF Q
<1>4. /\ SameSession(L, R) /\ SameReceipt(L, R) /\ SameTransfer(L, R)
      /\ R.out_frames = Q.out_frames /\ R.session_id = Q.session_id /\ R.tx = Q.tx
  <2>1. /\ SameSession(Q, R) /\ SameReceipt(Q, R) /\ R.tx = Q.tx /\ R.stats = Q.stats
        /\ R.next_message_id = Q.next_message_id /\ R.submitted = Q.submitted
        /\ R.out_frames = Q.out_frames
    BY <1>1, <1>3 DEF IsEnd, SameSession, SameReceipt
  <2>2. SameSession(L, R) /\ SameReceipt(L, R) /\ R.session_id = Q.session_id
    BY <1>1, <2>1 DEF SameSession, SameReceipt
  <2>3. SameTransfer(L, R)  BY <1>1, <2>1 DEF SameTransfer
  <2> QED  BY <2>1, <2>2, <2>3
<1>5. Queues(L, R, S)  BY <1>2, <1>4 DEF Queues
<1>6. \A g \in S : Emits(L, R, heard, g)  BY <1>2, <1>4 DEF Emits, SameTransfer, Carries
<1>7. MovesSession(L, R, heard, {}) /\ MovesTransfer(L, R, heard, {}) /\ MovesReceipt(L, R, heard)
  BY <1>4 DEF MovesSession, MovesTransfer, MovesReceipt, Idles, SameReceipt, SameDeliveries
<1> QED  BY <1>4, <1>5, <1>6, <1>7 DEF Moves

\* advance_time.
LEMMA AdvanceMoves ==
  ASSUME NEW L, IsEnd(L), L.tx.active \in BOOLEAN
  PROVE  Moves(L, advance_time(L), {}, {}, {})
<1> DEFINE X == [L EXCEPT !.deadline_set = FALSE]
           R == advance_time(L)
<1>1. /\ IsEnd(X) /\ SameSession(L, X) /\ SameTransfer(L, X) /\ SameReceipt(L, X)
      /\ X.tx = L.tx /\ X.stats = L.stats /\ X.out_frames = L.out_frames
      /\ X.next_message_id = L.next_message_id /\ X.submitted = L.submitted
  BY DEF IsEnd, SameSession, SameTransfer, SameReceipt
<1>2. CASE L.hello_pending /\ L.hello_retries >= MaxRetries
  <2>1. R = [[X EXCEPT !.tx = NoTx] EXCEPT !.hello_pending = FALSE, !.tx_status = "TIMEOUT"]
    BY <1>2 DEF advance_time, GiveUpHello, clear_tx_message
  <2> HIDE DEF R, X
  <2>2. /\ GivesUp(L, R) /\ SameReceipt(L, R)
        /\ R.tx = NoTx /\ R.next_message_id = L.next_message_id
        /\ R.submitted = L.submitted /\ R.stats = L.stats /\ R.out_frames = L.out_frames
    BY <1>1, <1>2, <2>1
    DEF IsEnd, SameSession, SameReceipt, GivesUp, SameWindow, SameHelloAck
  <2>3. Queues(L, R, {})  BY <2>2, QueuesNothing DEF IsEnd
  <2>4. \E S : Queues(L, R, S) /\ \A h \in S : Emits(L, R, {}, h)  BY <2>3
  <2>5. (SameTransfer(L, R) \/ Drops(L, R)) /\ (R.tx.started => L.tx.started)
    BY <2>2, ClearedTransfer
  <2>6. MovesSession(L, R, {}, {}) /\ MovesTransfer(L, R, {}, {}) /\ MovesReceipt(L, R, {})
    BY <2>2, <2>5
    DEF MovesSession, MovesTransfer, MovesReceipt, Idles, SameReceipt, SameDeliveries
  <2>7. SameDeliveries(L, R)  BY <2>2 DEF SameReceipt, SameDeliveries
  <2> QED  BY <2>4, <2>5, <2>6, <2>7 DEF Moves, R
<1>3. CASE L.hello_pending /\ ~(L.hello_retries >= MaxRetries)
  <2> DEFINE H == build_hello(X, "HELLO")
             Q == queue_frame(X, H)
  <2>1. R = [Q EXCEPT !.hello_retries = @ + 1, !.deadline_set = TRUE]
    BY <1>3 DEF advance_time
  <2> HIDE DEF R, X
  <2>2. /\ IsEnd(Q) /\ SameSession(X, Q) /\ SameTransfer(X, Q) /\ SameReceipt(X, Q)
        /\ Q.tx = X.tx /\ Q.stats = X.stats /\ Queues(X, Q, {H})
    BY <1>1, QueueFrame
  <2>3. H.type = "HELLO" /\ H.session_id = X.session_id /\ kal_capability_window(H.value) = X.window
    BY <1>1, HelloSays
  <2> HIDE DEF Q, H
  <2>4. /\ SameSession(L, R) /\ SameReceipt(L, R) /\ R.tx = L.tx /\ R.stats = L.stats
        /\ R.out_frames = Q.out_frames
        /\ R.next_message_id = L.next_message_id /\ R.submitted = L.submitted
    BY <1>1, <2>1, <2>2 DEF IsEnd, SameReceipt, SameSession, SameTransfer
  <2>5. SameTransfer(L, R)  BY <2>4 DEF SameTransfer
  <2>6. Queues(L, R, {H})  BY <1>1, <2>2, <2>4 DEF Queues
  <2>7. Emits(L, R, {}, H)  BY <1>1, <1>3, <2>3, <2>4 DEF Emits, SameSession
  <2>8. \E S : Queues(L, R, S) /\ \A h \in S : Emits(L, R, {}, h)  BY <2>6, <2>7
  <2>9. MovesSession(L, R, {}, {}) /\ MovesTransfer(L, R, {}, {}) /\ MovesReceipt(L, R, {})
    BY <2>4, <2>5
    DEF MovesSession, MovesTransfer, MovesReceipt, Idles, SameReceipt, SameDeliveries
  <2> QED  BY <2>4, <2>5, <2>8, <2>9 DEF Moves, R
<1>4. CASE ~L.hello_pending /\ L.tx.active /\ L.tx.started /\ L.tx.retries >= MaxRetries
  <2> DEFINE g == CancelFrame(X)
  <2>1. R = fail_tx(X, "TIMEOUT")  BY <1>4 DEF advance_time
  <2> HIDE DEF R, X
  <2>2. /\ SameSession(X, R) /\ SameReceipt(X, R)
        /\ R.tx = NoTx /\ R.next_message_id = X.next_message_id
        /\ R.submitted = X.submitted /\ R.stats = X.stats
        /\ Queues(X, R, {g})
    BY <1>1, <2>1, FailTx
  <2>3. g.type = "CANCEL"  BY DEF CancelFrame, ZeroFrame
  <2> HIDE DEF g
  <2>4. SameSession(L, R) /\ SameReceipt(L, R)  BY <1>1, <2>2 DEF SameSession, SameReceipt
  <2>5. Queues(L, R, {g}) /\ Emits(L, R, {}, g)  BY <1>1, <2>2, <2>3 DEF Queues, Emits
  <2>6. \E S : Queues(L, R, S) /\ \A h \in S : Emits(L, R, {}, h)  BY <2>5
  <2>7. (SameTransfer(L, R) \/ Drops(L, R)) /\ (R.tx.started => L.tx.started)
    BY <1>1, <2>2, ClearedTransfer
  <2>8. MovesSession(L, R, {}, {}) /\ MovesTransfer(L, R, {}, {}) /\ MovesReceipt(L, R, {})
    BY <2>4, <2>7
    DEF MovesSession, MovesTransfer, MovesReceipt, Idles, SameReceipt, SameDeliveries
  <2>9. SameDeliveries(L, R)  BY <2>4 DEF SameReceipt, SameDeliveries
  <2> QED  BY <2>6, <2>7, <2>8, <2>9 DEF Moves, R
<1>5. CASE ~L.hello_pending /\ L.tx.active /\ L.tx.started /\ ~(L.tx.retries >= MaxRetries)
  <2> DEFINE Y == Retry(X)
             tx == [X.tx EXCEPT !.retries = @ + 1, !.inflight = {}]
  <2>1. R = start_or_resume_tx(Y)  BY <1>5 DEF advance_time
  <2>2. Y = [X EXCEPT !.tx = tx]  BY DEF Retry
  <2> HIDE DEF R, X, Y
  <2>3. /\ DOMAIN tx = DOMAIN X.tx /\ tx.active = X.tx.active
        /\ tx.message_id = X.tx.message_id /\ tx.payload = X.tx.payload
    BY <1>1 DEF IsEnd
  <2> HIDE DEF tx
  <2>4. /\ IsEnd(Y) /\ SameSession(L, Y) /\ SameTransfer(L, Y) /\ SameReceipt(L, Y)
        /\ Y.stats = L.stats /\ Y.out_frames = L.out_frames
    BY <1>1, <2>2, <2>3 DEF IsEnd, SameSession, SameTransfer, SameReceipt
  <2> QED  BY <1>5, <2>1, <2>4, ResumeMoves DEF R
<1>6. CASE ~L.hello_pending /\ ~(L.tx.active /\ L.tx.started)
  <2>1. R = X  BY <1>6 DEF advance_time
  <2> HIDE DEF R, X
  <2>2. Queues(L, R, {})  BY <1>1, <2>1, QueuesNothing DEF IsEnd
  <2>3. \E S : Queues(L, R, S) /\ \A h \in S : Emits(L, R, {}, h)  BY <2>2
  <2>4. MovesSession(L, R, {}, {}) /\ MovesTransfer(L, R, {}, {}) /\ MovesReceipt(L, R, {})
    BY <1>1, <2>1
    DEF MovesSession, MovesTransfer, MovesReceipt, Idles, SameReceipt, SameDeliveries
  <2> QED  BY <1>1, <2>1, <2>3, <2>4 DEF Moves, R
<1> QED  BY <1>2, <1>3, <1>4, <1>5, <1>6

----------------------------------------------------------------------------
(* Frame handlers.                                                         *)

\* A handler that leaves the end as it is, or drops the reassembly.
LEMMA IgnoreMoves ==
  ASSUME NEW L, IsEnd(L), NEW heard
  PROVE  Moves(L, L, heard, {}, {})
<1>1. Queues(L, L, {})  BY QueuesNothing DEF IsEnd
<1>2. MovesSession(L, L, heard, {}) /\ MovesTransfer(L, L, heard, {}) /\ MovesReceipt(L, L, heard)
  BY DEF MovesSession, SameSession, MovesTransfer, SameTransfer, MovesReceipt, Idles,
         SameDeliveries
<1> QED  BY <1>1, <1>2 DEF Moves, SameTransfer

\* handle_ack: the final ACK confirms, a partial one lets the window move.
LEMMA HandleAckMoves ==
  ASSUME NEW L, IsEnd(L), NEW f, f.type = "ACK"
  PROVE  Moves(L, handle_ack(L, f), {f}, {}, {})
<1> DEFINE R == handle_ack(L, f)
           marked == {s \in Segment : s < L.tx.total /\ (s < f.sequence \/ s \in f.bitmap)}
           T == TxDelivered(L)
           X == MarkAcked(L, marked)
<1>1. CASE R = L
  BY <1>1, IgnoreMoves
<1>2. CASE L.tx.active /\ f.message_id = L.tx.message_id /\ f.flag /\ R = T
  <2> DEFINE stats == [L.stats EXCEPT !.messages_sent = Append(@, L.tx.payload)]
  <2>1. R = [[L EXCEPT !.tx = NoTx] EXCEPT !.deadline_set = FALSE, !.tx_status = "OK",
               !.next_message_id = (@ + 2) % 65536, !.stats = stats]
    BY <1>2 DEF TxDelivered, clear_tx_message
  <2>2. /\ stats.messages_sent = Append(L.stats.messages_sent, L.tx.payload)
        /\ stats.messages_delivered = L.stats.messages_delivered
    BY DEF IsEnd
  <2> HIDE DEF R, stats
  <2>3. /\ SameSession(L, R) /\ R.tx = NoTx /\ R.rx = L.rx /\ R.dup_cache = L.dup_cache
        /\ R.delivered = L.delivered /\ R.stats = stats /\ R.submitted = L.submitted
        /\ R.next_message_id = (L.next_message_id + 2) % 65536 /\ R.out_frames = L.out_frames
    BY <2>1 DEF IsEnd, SameSession
  <2>4. ~NoTx.active /\ ~NoTx.started  BY DEF NoTx
  <2>5. Confirms(L, R, {f})  BY <1>2, <2>2, <2>3, <2>4 DEF Confirms
  <2>6. MovesSession(L, R, {f}, {}) /\ MovesTransfer(L, R, {f}, {}) /\ MovesReceipt(L, R, {f})
    BY <2>2, <2>3, <2>5
    DEF MovesSession, MovesTransfer, MovesReceipt, Idles, SameDeliveries
  <2>7. Queues(L, R, {})  BY <2>3, QueuesNothing DEF IsEnd
  <2> QED  BY <2>2, <2>3, <2>4, <2>6, <2>7 DEF Moves, SameDeliveries, R
<1>3. CASE L.tx.active /\ R = [start_or_resume_tx(X) EXCEPT !.deadline_set = TRUE]
  <2> DEFINE acked == L.tx.acked \cup marked
             tx == [L.tx EXCEPT !.acked = acked, !.inflight = @ \ marked, !.retries = 0,
                                !.base = FirstOutside(acked, @, L.tx.total)]
  <2>1. X = [L EXCEPT !.tx = tx]  BY DEF MarkAcked
  <2>2. /\ DOMAIN tx = DOMAIN L.tx /\ tx.active = L.tx.active
        /\ tx.message_id = L.tx.message_id /\ tx.payload = L.tx.payload
    BY DEF IsEnd
  <2> HIDE DEF X, R, tx
  <2>3. /\ IsEnd(X) /\ SameSession(L, X) /\ SameTransfer(L, X) /\ SameReceipt(L, X)
        /\ X.stats = L.stats /\ X.out_frames = L.out_frames
    BY <2>1, <2>2 DEF IsEnd, SameSession, SameTransfer, SameReceipt
  <2>4. \E g \in {f} : g.type = "ACK"  OBVIOUS
  <2>5. R \in {start_or_resume_tx(X), [start_or_resume_tx(X) EXCEPT !.deadline_set = TRUE]}
    BY <1>3
  <2> QED  BY <1>3, <2>3, <2>4, <2>5, ResumeMoves DEF R
<1>4. \/ R = L
      \/ L.tx.active /\ f.message_id = L.tx.message_id /\ f.flag /\ R = T
      \/ L.tx.active /\ R = [start_or_resume_tx(X) EXCEPT !.deadline_set = TRUE]
  <2> HIDE DEF T, X
  <2> QED  BY DEF handle_ack, T, X
<1> QED  BY <1>1, <1>2, <1>3, <1>4

\* handle_hello_ack.
LEMMA HandleHelloAckMoves ==
  ASSUME NEW L, IsEnd(L), NEW f \in AnyFrame, f.type = "HELLO_ACK"
  PROVE  Moves(L, handle_hello_ack(L, f), {f}, {}, {})
<1> DEFINE R == handle_hello_ack(L, f)
           O == [L EXCEPT !.hello_pending = FALSE, !.session_open = TRUE,
                          !.window = Narrowed(L, f), !.deadline_set = FALSE]
<1>1. CASE R = L
  BY <1>1, IgnoreMoves
<1>2. Narrowed(L, f) \in 0 .. 255
  <2>1. L.window \in Int /\ f.value \in Nat  BY DEF IsEnd, AnyFrame
  <2>2. kal_capability_window(f.value) \in Int  BY <2>1 DEF kal_capability_window
  <2>3. Narrowed(L, f) \in KAL_MIN_WINDOW_FRAMES .. KAL_MAX_WINDOW_FRAMES
    BY <2>1, <2>2, WindowType DEF Narrowed
  <2> QED  BY <2>3 DEF KAL_MIN_WINDOW_FRAMES, KAL_MAX_WINDOW_FRAMES
<1>3. ASSUME L.hello_pending, f.session_id = L.session_id,
             R = O \/ (R = start_or_resume_tx(O) /\ L.tx.active)
      PROVE  Moves(L, R, {f}, {}, {})
  <2>1. /\ IsEnd(O) /\ SameTransfer(L, O) /\ SameReceipt(L, O) /\ SameHelloAck(L, O)
        /\ O.tx = L.tx /\ O.out_frames = L.out_frames /\ O.session_open /\ ~O.hello_pending
        /\ O.window = Narrowed(L, f) /\ O.role = L.role /\ O.session_id = L.session_id
    BY <1>2 DEF IsEnd, SameTransfer, SameReceipt, SameHelloAck
  <2> HIDE DEF R, O
  <2>2. /\ SameSession(O, R) /\ SameTransfer(O, R) /\ SameReceipt(O, R)
        /\ \E S : Queues(O, R, S) /\ \A g \in S : R.tx.active /\ Carries(R, g)
    <3>1. CASE R = O
      <4>1. Queues(O, R, {})  BY <2>1, <3>1, QueuesNothing DEF IsEnd
      <4> QED  BY <3>1, <4>1 DEF SameSession, SameTransfer, SameReceipt
    <3>2. CASE R = start_or_resume_tx(O) /\ L.tx.active
      <4>1. /\ SameSession(O, R) /\ SameTransfer(O, R) /\ SameReceipt(O, R)
            /\ \E S : Queues(O, R, S) /\ \A g \in S : Carries(R, g)
        BY <2>1, <3>2, StartOrResume
      <4>2. R.tx.active  BY <2>1, <3>2, <4>1 DEF SameTransfer
      <4> QED  BY <4>1, <4>2
    <3> QED  BY <1>3, <3>1, <3>2
  <2>3. Opens(L, R, {f})  BY <1>3, <2>1, <2>2 DEF Opens, SameSession, SameHelloAck
  <2>4. SameTransfer(L, R) /\ SameReceipt(L, R) /\ R.session_open
    BY <2>1, <2>2 DEF SameTransfer, SameReceipt, SameSession
  <2>5. \E S : Queues(L, R, S) /\ \A g \in S : Emits(L, R, {f}, g)
    BY <2>1, <2>2, <2>4 DEF Queues, Emits
  <2>6. MovesSession(L, R, {f}, {}) /\ MovesTransfer(L, R, {f}, {}) /\ MovesReceipt(L, R, {f})
    BY <2>3, <2>4
    DEF MovesSession, MovesTransfer, MovesReceipt, Idles, SameReceipt, SameDeliveries
  <2> QED  BY <2>4, <2>5, <2>6 DEF Moves
<1>4. R = L \/ (L.hello_pending /\ f.session_id = L.session_id
                /\ (R = O \/ (R = start_or_resume_tx(O) /\ L.tx.active)))
  <2> HIDE DEF O
  <2> QED  BY DEF handle_hello_ack, O
<1> QED  BY <1>1, <1>3, <1>4

\* handle_cancel.
LEMMA HandleCancelMoves ==
  ASSUME NEW L, IsEnd(L), L.tx.active \in BOOLEAN, NEW f
  PROVE  Moves(L, handle_cancel(L, f), {f}, {}, {})
<1> DEFINE R == handle_cancel(L, f)
<1>1. CASE R = L
  BY <1>1, IgnoreMoves
<1>2. CASE R = [L EXCEPT !.rx = NoRx, !.tx = NoTx, !.deadline_set = FALSE,
                         !.tx_status = "CANCELLED"]
  <2> HIDE DEF R
  <2>1. /\ SameSession(L, R) /\ R.rx = NoRx /\ R.dup_cache = L.dup_cache /\ SameDeliveries(L, R)
        /\ R.tx = NoTx /\ R.next_message_id = L.next_message_id
        /\ R.submitted = L.submitted /\ R.stats = L.stats /\ R.out_frames = L.out_frames
    BY <1>2 DEF IsEnd, SameSession, SameDeliveries
  <2>2. Queues(L, R, {})  BY <2>1, QueuesNothing DEF IsEnd
  <2>3. (SameTransfer(L, R) \/ Drops(L, R)) /\ (R.tx.started => L.tx.started)
    BY <2>1, ClearedTransfer
  <2>4. MovesSession(L, R, {f}, {}) /\ MovesTransfer(L, R, {f}, {}) /\ MovesReceipt(L, R, {f})
    BY <2>1, <2>3 DEF MovesSession, MovesTransfer, MovesReceipt, Idles
  <2> QED  BY <2>1, <2>2, <2>3, <2>4 DEF Moves, R
<1> QED  BY <1>1, <1>2 DEF handle_cancel

\* dup_store remembers the key, and what to answer it with.
LEMMA DupStore ==
  ASSUME NEW L, IsEnd(L), NEW session_id, NEW message_id, NEW ack
  PROVE  LET R == dup_store(L, session_id, message_id, ack)
             key == [session_id |-> session_id, message_id |-> message_id, ack |-> ack]
         IN  /\ IsEnd(R) /\ SameSession(L, R) /\ Remembers(L, R, key)
             /\ R.tx = L.tx /\ R.stats = L.stats /\ R.rx = L.rx /\ R.delivered = L.delivered
             /\ R.next_message_id = L.next_message_id /\ R.submitted = L.submitted
             /\ R.out_frames = L.out_frames
<1> DEFINE kept == IF Len(L.dup_cache) >= DupCacheEntries THEN Tail(L.dup_cache) ELSE L.dup_cache
           key == [session_id |-> session_id, message_id |-> message_id, ack |-> ack]
           cache == Append(kept, key)
           R == dup_store(L, session_id, message_id, ack)
<1>1. kept = L.dup_cache \/ (L.dup_cache # << >> /\ kept = Tail(L.dup_cache))
  <2>1. ~(Len(<< >>) >= DupCacheEntries)  BY BoundsAssumption
  <2> QED  BY <2>1
<1>2. R = [L EXCEPT !.dup_cache = cache]  BY DEF dup_store
<1> HIDE DEF kept, R, key
<1>3. R.dup_cache = cache  BY <1>2 DEF IsEnd
<1>4. Remembers(L, R, key)  BY <1>1, <1>3 DEF Remembers
<1> HIDE DEF cache
<1>5. /\ IsEnd(R) /\ SameSession(L, R)
      /\ R.tx = L.tx /\ R.stats = L.stats /\ R.rx = L.rx /\ R.delivered = L.delivered
      /\ R.next_message_id = L.next_message_id /\ R.submitted = L.submitted
      /\ R.out_frames = L.out_frames
  BY <1>2 DEF IsEnd, SameSession
<1> QED  BY <1>4, <1>5 DEF R, key

\* handle_beacon.
LEMMA HandleBeaconMoves ==
  ASSUME NEW L, IsEnd(L), NEW f, f.type = "BEACON"
  PROVE  Moves(L, handle_beacon(L, f), {f}, {}, {})
<1> DEFINE R == handle_beacon(L, f)
           X == [L EXCEPT !.delivered = f.payload]
           key == [session_id |-> f.session_id, message_id |-> f.message_id, ack |-> ZeroFrame]
<1>1. CASE R = L
  BY <1>1, IgnoreMoves
<1>2. ASSUME L.delivered = NoBody, dup_lookup(L, f.session_id, f.message_id) = {},
             R = dup_store(X, f.session_id, f.message_id, ZeroFrame)
      PROVE  Moves(L, R, {f}, {}, {})
  <2>1. /\ IsEnd(X) /\ SameSession(L, X) /\ X.tx = L.tx /\ X.stats = L.stats /\ X.rx = L.rx
        /\ X.delivered = f.payload /\ X.dup_cache = L.dup_cache
        /\ X.next_message_id = L.next_message_id /\ X.submitted = L.submitted
        /\ X.out_frames = L.out_frames
    BY DEF IsEnd, SameSession
  <2> HIDE DEF R, X
  <2>2. /\ SameSession(X, R) /\ Remembers(X, R, key)
        /\ R.tx = X.tx /\ R.stats = X.stats /\ R.rx = X.rx /\ R.delivered = X.delivered
        /\ R.next_message_id = X.next_message_id /\ R.submitted = X.submitted
        /\ R.out_frames = X.out_frames
    BY <1>2, <2>1, DupStore
  <2>3. key.session_id = f.session_id /\ key.message_id = f.message_id /\ key.ack = ZeroFrame
    OBVIOUS
  <2> HIDE DEF key
  <2>4. Remembers(L, R, key)  BY <2>1, <2>2 DEF Remembers
  <2>5. TakesBeacon(L, R, {f})  BY <1>2, <2>1, <2>2, <2>3, <2>4 DEF TakesBeacon
  <2>6. SameSession(L, R) /\ SameTransfer(L, R)
    BY <2>1, <2>2 DEF SameSession, SameTransfer
  <2>7. Queues(L, R, {})  BY <2>1, <2>2, QueuesNothing DEF IsEnd
  <2>8. MovesSession(L, R, {f}, {}) /\ MovesTransfer(L, R, {f}, {}) /\ MovesReceipt(L, R, {f})
    BY <2>5, <2>6 DEF MovesSession, MovesTransfer, MovesReceipt
  <2>9. R.tx = L.tx  BY <2>1, <2>2
  <2> QED  BY <2>6, <2>7, <2>8, <2>9 DEF Moves
<1>3. \/ R = L
      \/ /\ L.delivered = NoBody /\ dup_lookup(L, f.session_id, f.message_id) = {}
         /\ R = dup_store(X, f.session_id, f.message_id, ZeroFrame)
  <2> HIDE DEF X
  <2> QED  BY DEF handle_beacon, X
<1> QED  BY <1>1, <1>2, <1>3

\* The answer to a HELLO.
LEMMA AcceptHelloSteps ==
  ASSUME NEW L, IsEnd(L), NEW f \in AnyFrame
  PROVE  LET R == AcceptHello(L, f) IN
         /\ R.role = L.role /\ R.window = Narrowed(L, f) /\ R.session_open
         /\ R.session_id = f.session_id /\ R.hello_pending = L.hello_pending
         /\ R.hello_ack_valid /\ R.hello_ack_cached.type = "HELLO_ACK"
         /\ R.hello_ack_cached.session_id = f.session_id
         /\ kal_capability_window(R.hello_ack_cached.value) = R.window
         /\ SameTransfer(L, R) /\ SameReceipt(L, R)
         /\ R.stats = L.stats
         /\ \E S : /\ Queues(L, R, S)
                   /\ \A g \in S : g = R.hello_ack_cached \/ (R.tx.active /\ Carries(R, g))
<1> DEFINE H == [L EXCEPT !.session_id = f.session_id, !.window = Narrowed(L, f),
                          !.challenge = f.challenge]
           hello == build_hello(H, "HELLO_ACK")
           reply == [hello EXCEPT !.message_id = f.message_id]
           X == [H EXCEPT !.hello_ack_cached = reply, !.hello_ack_valid = TRUE,
                          !.session_open = TRUE]
           O == queue_frame(X, reply)
           R == AcceptHello(L, f)
<1>1. Narrowed(L, f) \in 0 .. 255
  <2>1. L.window \in Int /\ f.value \in Nat  BY DEF IsEnd, AnyFrame
  <2>2. kal_capability_window(f.value) \in Int  BY <2>1 DEF kal_capability_window
  <2>3. Narrowed(L, f) \in KAL_MIN_WINDOW_FRAMES .. KAL_MAX_WINDOW_FRAMES
    BY <2>1, <2>2, WindowType DEF Narrowed
  <2> QED  BY <2>3 DEF KAL_MIN_WINDOW_FRAMES, KAL_MAX_WINDOW_FRAMES
<1>2. /\ IsEnd(H) /\ SameTransfer(L, H) /\ SameReceipt(L, H) /\ H.tx = L.tx
      /\ H.stats = L.stats /\ H.out_frames = L.out_frames /\ H.role = L.role
      /\ H.window = Narrowed(L, f) /\ H.session_id = f.session_id
      /\ H.hello_pending = L.hello_pending
      /\ H.next_message_id = L.next_message_id /\ H.submitted = L.submitted
  BY <1>1 DEF IsEnd, SameTransfer, SameReceipt
<1> HIDE DEF H
<1>3. /\ hello.type = "HELLO_ACK" /\ hello.session_id = f.session_id
      /\ kal_capability_window(hello.value) = H.window
  BY <1>2, HelloSays
<1>4. /\ reply.type = "HELLO_ACK" /\ reply.session_id = f.session_id
      /\ kal_capability_window(reply.value) = H.window
  BY <1>3 DEF build_hello, ZeroFrame
<1> HIDE DEF hello, reply
<1>5. /\ IsEnd(X) /\ X.role = L.role /\ X.window = Narrowed(L, f) /\ X.session_open
      /\ X.session_id = f.session_id /\ X.hello_pending = L.hello_pending
      /\ X.hello_ack_valid /\ X.hello_ack_cached = reply
      /\ SameTransfer(L, X) /\ SameReceipt(L, X) /\ X.stats = L.stats
      /\ X.out_frames = L.out_frames
  BY <1>2 DEF IsEnd, SameTransfer, SameReceipt
<1> HIDE DEF X
<1>6. /\ IsEnd(O) /\ SameSession(X, O) /\ SameTransfer(X, O) /\ SameReceipt(X, O)
      /\ O.stats = X.stats /\ Queues(X, O, {reply})
  BY <1>5, QueueFrame
<1>7. R = O \/ (R = start_or_resume_tx(O) /\ O.tx.active)
  <2> HIDE DEF O
  <2> QED  BY DEF AcceptHello, O, X, H, reply, hello
<1> HIDE DEF O, R
<1>8. PICK T : /\ SameSession(O, R) /\ SameTransfer(O, R) /\ SameReceipt(O, R)
               /\ R.stats = O.stats /\ Queues(O, R, T)
               /\ \A g \in T : R.tx.active /\ Carries(R, g)
  <2>1. CASE R = O
    <3>1. Queues(O, R, {})  BY <1>6, <2>1, QueuesNothing DEF IsEnd
    <3> QED  BY <2>1, <3>1 DEF SameSession, SameTransfer, SameReceipt
  <2>2. CASE R = start_or_resume_tx(O) /\ O.tx.active
    <3>1. /\ SameSession(O, R) /\ SameTransfer(O, R) /\ SameReceipt(O, R) /\ R.stats = O.stats
          /\ \E S : Queues(O, R, S) /\ \A g \in S : Carries(R, g)
      BY <1>6, <2>2, StartOrResume
    <3>2. R.tx.active  BY <2>2, <3>1 DEF SameTransfer
    <3> QED  BY <3>1, <3>2
  <2> QED  BY <1>7, <2>1, <2>2
<1>9. SameSession(X, R)  BY <1>6, <1>8 DEF SameSession
<1>10. SameTransfer(L, R) /\ SameReceipt(L, R) /\ R.stats = L.stats
  <2>1. SameTransfer(X, R)  BY <1>6, <1>8 DEF SameTransfer
  <2>2. SameTransfer(L, R)  BY <1>5, <2>1 DEF SameTransfer
  <2> QED  BY <1>5, <1>6, <1>8, <2>2 DEF SameReceipt
<1>11. Queues(L, R, {reply} \cup T)
  <2>1. Queues(L, O, {reply})  BY <1>5, <1>6 DEF Queues
  <2> QED  BY <1>8, <2>1, QueuesMore DEF IsEnd
<1>12. /\ R.role = L.role /\ R.window = Narrowed(L, f) /\ R.session_open
       /\ R.session_id = f.session_id /\ R.hello_pending = L.hello_pending
       /\ R.hello_ack_valid /\ R.hello_ack_cached = reply
  BY <1>5, <1>9 DEF SameSession
<1>13. \A g \in {reply} \cup T : g = R.hello_ack_cached \/ (R.tx.active /\ Carries(R, g))
  BY <1>8, <1>12
<1>14. \E S : /\ Queues(L, R, S)
              /\ \A g \in S : g = R.hello_ack_cached \/ (R.tx.active /\ Carries(R, g))
  BY <1>11, <1>13
<1>15. kal_capability_window(R.hello_ack_cached.value) = R.window
  BY <1>2, <1>4, <1>12
<1> QED  BY <1>4, <1>10, <1>12, <1>14, <1>15 DEF R

\* What AcceptHello(X, f) does to L, for an X that differs from L in the fields
\* handle_hello clears before it.
LEMMA JoinMoves ==
  ASSUME NEW L, IsEnd(L), NEW X, IsEnd(X), NEW f \in AnyFrame, f.type = "HELLO",
         L.role = "initiator" => L.hello_pending \/ ~L.session_open,
         L.session_open => f.session_id # L.session_id,
         X.role = L.role, X.window = L.window,
         X.hello_pending => L.hello_pending /\ L.role # "initiator",
         SameTransfer(L, X) \/ Drops(L, X), SameDeliveries(L, X),
         \/ X.rx = L.rx /\ X.dup_cache = L.dup_cache
         \/ /\ L.session_open /\ L.role # "initiator"
            /\ X.rx = NoRx /\ X.dup_cache = << >>,
         X.out_frames = L.out_frames
  PROVE  Moves(L, AcceptHello(X, f), {f}, {}, {})
<1> DEFINE R == AcceptHello(X, f)
<1>1. /\ R.role = X.role /\ R.window = Narrowed(X, f) /\ R.session_open
      /\ R.session_id = f.session_id /\ R.hello_pending = X.hello_pending
      /\ R.hello_ack_valid /\ R.hello_ack_cached.type = "HELLO_ACK"
      /\ R.hello_ack_cached.session_id = f.session_id
      /\ kal_capability_window(R.hello_ack_cached.value) = R.window
      /\ SameTransfer(X, R) /\ SameReceipt(X, R) /\ R.stats = X.stats
  BY AcceptHelloSteps
<1>2. PICK S : /\ Queues(X, R, S)
               /\ \A g \in S : g = R.hello_ack_cached \/ (R.tx.active /\ Carries(R, g))
  BY AcceptHelloSteps
<1> HIDE DEF R
<1>3. Narrowed(X, f) = Narrowed(L, f)  BY DEF Narrowed
<1>4. Joins(L, R, {f})  BY <1>1, <1>3 DEF Joins
<1>5. SameTransfer(L, R) \/ Drops(L, R)
  BY <1>1 DEF SameTransfer, Drops, SameBooks
<1>6. MovesReceipt(L, R, {f})
  BY <1>1, <1>4 DEF MovesReceipt, Idles, Leaves, SameReceipt, SameDeliveries
<1>7. SameDeliveries(L, R)  BY <1>1 DEF SameReceipt, SameDeliveries
<1>8. Queues(L, R, S)  BY <1>2 DEF Queues
<1>9. \A g \in S : Emits(L, R, {f}, g)  BY <1>1, <1>2 DEF Emits
<1>10. MovesSession(L, R, {f}, {}) /\ MovesTransfer(L, R, {f}, {})
  BY <1>4, <1>5 DEF MovesSession, MovesTransfer
<1> QED  BY <1>1, <1>6, <1>7, <1>8, <1>9, <1>10 DEF Moves, R

\* handle_hello.
LEMMA HandleHelloMoves ==
  ASSUME NEW L, IsEnd(L), L.tx.active \in BOOLEAN, L.session_id \in Nat,
         NEW f \in AnyFrame, f.type = "HELLO"
  PROVE  Moves(L, handle_hello(L, f), {f}, {}, {})
<1> DEFINE R == handle_hello(L, f)
           C == clear_tx_message(L)
           Y == [C EXCEPT !.hello_pending = FALSE]
           D == clear_rx_message(L)
           Z == [D EXCEPT !.dup_cache = << >>]
           Q == queue_frame(L, L.hello_ack_cached)
<1>1. f.session_id \in Nat  BY DEF AnyFrame
<1>2. CASE R = L
  BY <1>2, IgnoreMoves
<1>3. CASE L.role = "initiator" /\ L.hello_pending /\ Yields(L, f) /\ R = AcceptHello(Y, f)
  <2>1. Y = [[L EXCEPT !.tx = NoTx] EXCEPT !.hello_pending = FALSE]  BY DEF clear_tx_message
  <2> HIDE DEF Y
  <2>2. /\ IsEnd(Y) /\ Y.role = L.role /\ Y.window = L.window /\ ~Y.hello_pending
        /\ SameDeliveries(L, Y) /\ Y.rx = L.rx /\ Y.dup_cache = L.dup_cache
        /\ Y.out_frames = L.out_frames /\ Y.tx = NoTx
        /\ Y.next_message_id = L.next_message_id /\ Y.submitted = L.submitted
        /\ Y.stats = L.stats
    BY <2>1 DEF IsEnd, SameDeliveries, NoTx
  <2>3. SameTransfer(L, Y) \/ Drops(L, Y)  BY <2>2, ClearedTransfer
  <2>4. f.session_id # L.session_id  BY <1>1, <1>3 DEF Yields
  <2>5. Moves(L, AcceptHello(Y, f), {f}, {}, {})  BY <1>3, <2>2, <2>3, <2>4, JoinMoves
  <2> QED  BY <1>3, <2>5
<1>4. CASE L.hello_ack_valid /\ R = Q
  <2> HIDE DEF R
  <2>1. /\ SameSession(L, Q) /\ SameTransfer(L, Q) /\ SameReceipt(L, Q) /\ Q.tx = L.tx
        /\ Queues(L, Q, {L.hello_ack_cached})
    BY QueueFrame
  <2> HIDE DEF Q
  <2>2. Emits(L, Q, {f}, L.hello_ack_cached)  BY <1>4, <2>1 DEF Emits, SameSession
  <2>3. \E S : Queues(L, Q, S) /\ \A h \in S : Emits(L, Q, {f}, h)  BY <2>1, <2>2
  <2>4. MovesSession(L, Q, {f}, {}) /\ MovesTransfer(L, Q, {f}, {}) /\ MovesReceipt(L, Q, {f})
    BY <2>1
    DEF MovesSession, MovesTransfer, MovesReceipt, Idles, SameReceipt, SameDeliveries
  <2>5. Moves(L, Q, {f}, {}, {})  BY <2>1, <2>3, <2>4 DEF Moves
  <2> QED  BY <1>4, <2>5 DEF R
<1>5. CASE L.role # "initiator" /\ L.session_open /\ ~InSession(L, f) /\ R = AcceptHello(Z, f)
  <2>1. Z = [[L EXCEPT !.rx = NoRx] EXCEPT !.dup_cache = << >>]  BY DEF clear_rx_message
  <2> HIDE DEF Z
  <2>2. /\ IsEnd(Z) /\ Z.role = L.role /\ Z.window = L.window
        /\ Z.hello_pending = L.hello_pending
        /\ SameDeliveries(L, Z) /\ Z.rx = NoRx /\ Z.dup_cache = << >>
        /\ Z.out_frames = L.out_frames /\ SameTransfer(L, Z)
    BY <2>1 DEF IsEnd, SameDeliveries, SameTransfer, NoRx
  <2>3. f.session_id # L.session_id  BY <1>5 DEF InSession
  <2>4. Moves(L, AcceptHello(Z, f), {f}, {}, {})  BY <1>5, <2>2, <2>3, JoinMoves
  <2> QED  BY <1>5, <2>4
<1>6. CASE /\ ~L.session_open /\ ~(L.role = "initiator" /\ L.hello_pending)
           /\ R = AcceptHello(L, f)
  <2>1. SameTransfer(L, L) /\ SameDeliveries(L, L)  BY DEF SameTransfer, SameDeliveries
  <2>2. Moves(L, AcceptHello(L, f), {f}, {}, {})  BY <1>6, <2>1, JoinMoves
  <2> QED  BY <1>6, <2>2
<1>7. \/ R = L
      \/ L.role = "initiator" /\ L.hello_pending /\ Yields(L, f) /\ R = AcceptHello(Y, f)
      \/ L.hello_ack_valid /\ R = Q
      \/ L.role # "initiator" /\ L.session_open /\ ~InSession(L, f) /\ R = AcceptHello(Z, f)
      \/ /\ ~L.session_open /\ ~(L.role = "initiator" /\ L.hello_pending)
         /\ R = AcceptHello(L, f)
  <2> HIDE DEF Y, Z, Q
  <2> QED  BY DEF handle_hello, Y, Z, Q, C, D, InSession
<1> QED  BY <1>2, <1>3, <1>4, <1>5, <1>6, <1>7

----------------------------------------------------------------------------
(* Reassembly.                                                             *)

\* X is L but for its reassembly, which f has joined.
Joined(L, X, f) ==
  /\ IsEnd(X) /\ SameSession(L, X)
  /\ X.tx = L.tx /\ X.stats = L.stats /\ X.accepts = L.accepts
  /\ X.next_message_id = L.next_message_id /\ X.submitted = L.submitted
  /\ X.dup_cache = L.dup_cache /\ X.delivered = L.delivered /\ X.out_frames = L.out_frames
  /\ X.rx.active /\ X.rx.message_id = f.message_id
  /\ \/ X.rx.session_id = f.session_id
     \/ L.rx.active /\ X.rx.session_id = L.rx.session_id
  /\ X.rx.ack_valid => L.rx.ack_valid /\ X.rx.ack_cached = L.rx.ack_cached

\* handle_data takes f into the reassembly it belongs to, or starts a new one.
LEMMA ReassemblingJoins ==
  ASSUME NEW L, IsEnd(L), NEW f
  PROVE  Joined(L, Reassembling(L, f), f)
<1> DEFINE X == Reassembling(L, f)
           rx == [NoRx EXCEPT !.active = TRUE, !.session_id = f.session_id,
                              !.message_id = f.message_id, !.total = f.value]
<1>1. CASE L.rx.active /\ f.message_id = L.rx.message_id
  <2>1. X = L  BY <1>1 DEF Reassembling
  <2> QED  BY <1>1, <2>1 DEF Joined, SameSession
<1>2. CASE ~(L.rx.active /\ f.message_id = L.rx.message_id)
  <2>1. X = [L EXCEPT !.rx = rx]  BY <1>2 DEF Reassembling
  <2>2. /\ DOMAIN rx = DOMAIN NoRx /\ rx.active /\ rx.session_id = f.session_id
        /\ rx.message_id = f.message_id /\ ~rx.ack_valid
    BY DEF NoRx
  <2> HIDE DEF rx
  <2> HIDE DEF X
  <2>3. IsEnd(X)  BY <2>1, <2>2 DEF IsEnd, NoRx
  <2>4. /\ SameSession(L, X) /\ X.rx = rx
        /\ X.tx = L.tx /\ X.stats = L.stats /\ X.accepts = L.accepts
        /\ X.next_message_id = L.next_message_id /\ X.submitted = L.submitted
        /\ X.dup_cache = L.dup_cache /\ X.delivered = L.delivered
        /\ X.out_frames = L.out_frames
    BY <2>1 DEF IsEnd, SameSession
  <2>5. /\ X.rx.active /\ X.rx.message_id = f.message_id
        /\ X.rx.session_id = f.session_id /\ ~X.rx.ack_valid
    BY <2>2, <2>4
  <2>6. Joined(L, X, f)  BY <2>3, <2>4, <2>5 DEF Joined
  <2> QED  BY <2>6 DEF X
<1> QED  BY <1>1, <1>2

\* What a step leaves alone when f only moves the reassembly.
LEMMA JoinedParts ==
  ASSUME NEW L, NEW X, NEW R, NEW f, Joined(L, X, f),
         SameSession(X, R), R.tx = X.tx, R.stats = X.stats,
         R.next_message_id = X.next_message_id, R.submitted = X.submitted,
         R.dup_cache = X.dup_cache, R.delivered = X.delivered,
         MovesReceipt(L, R, {f}),
         \E S : Queues(X, R, S) /\ \A g \in S : Emits(L, R, {f}, g)
  PROVE  Moves(L, R, {f}, {}, {})
<1>1. SameSession(L, R) /\ SameTransfer(L, R) /\ SameDeliveries(L, R) /\ R.tx = L.tx
  BY DEF Joined, SameSession, SameTransfer, SameDeliveries
<1>2. \E S : Queues(L, R, S) /\ \A g \in S : Emits(L, R, {f}, g)  BY DEF Joined, Queues
<1> QED  BY <1>1, <1>2 DEF Moves, MovesSession, MovesTransfer

\* A frame that joins, with nothing sent.
LEMMA JoinedMoves ==
  ASSUME NEW L, NEW X, NEW f, Fresh(L, f), Joined(L, X, f)
  PROVE  Moves(L, X, {f}, {}, {})
<1>1. Reassembles(L, X, {f})  BY DEF Reassembles, Joined, SameDeliveries
<1>2. MovesReceipt(L, X, {f})  BY <1>1 DEF MovesReceipt
<1>3. Queues(X, X, {})  BY QueuesNothing DEF Joined, IsEnd
<1>4. SameSession(X, X)  BY DEF SameSession
<1>5. \E S : Queues(X, X, S) /\ \A g \in S : Emits(L, X, {f}, g)  BY <1>3
<1> QED  BY <1>2, <1>4, <1>5, JoinedParts

\* The cached partial ACK again.
LEMMA RepeatedAckMoves ==
  ASSUME NEW L, NEW X, NEW f, Fresh(L, f), Joined(L, X, f), X.rx.ack_valid
  PROVE  Moves(L, queue_frame(X, X.rx.ack_cached), {f}, {}, {})
<1> DEFINE R == queue_frame(X, X.rx.ack_cached)
<1>1. IsEnd(X)  BY DEF Joined
<1>2. /\ IsEnd(R) /\ SameSession(X, R) /\ SameTransfer(X, R) /\ SameReceipt(X, R)
      /\ R.tx = X.tx /\ R.stats = X.stats /\ Queues(X, R, {X.rx.ack_cached})
  BY <1>1, QueueFrame
<1> HIDE DEF R
<1>3. R.next_message_id = X.next_message_id /\ R.submitted = X.submitted
      /\ R.rx = X.rx /\ R.dup_cache = X.dup_cache /\ R.delivered = X.delivered
  BY <1>2 DEF SameTransfer, SameReceipt
<1>4. Reassembles(L, R, {f})  BY <1>2, <1>3 DEF Reassembles, Joined, SameDeliveries
<1>5. MovesReceipt(L, R, {f})  BY <1>4 DEF MovesReceipt
<1>6. Emits(L, R, {f}, X.rx.ack_cached)  BY <1>3 DEF Emits, Fresh
<1>7. \E S : Queues(X, R, S) /\ \A g \in S : Emits(L, R, {f}, g)  BY <1>2, <1>6
<1>8. Moves(L, R, {f}, {}, {})  BY <1>2, <1>3, <1>5, <1>7, JoinedParts
<1> QED  BY <1>8 DEF R

\* queue_partial_ack.
LEMMA PartialAckMoves ==
  ASSUME NEW L, NEW X, NEW f, Fresh(L, f), Joined(L, X, f)
  PROVE  Moves(L, queue_partial_ack(X), {f}, {}, {})
<1> DEFINE base == first_missing(X)
           ack == [ZeroFrame EXCEPT !.type = "ACK", !.session_id = X.rx.session_id,
                !.message_id = X.rx.message_id, !.sequence = base,
                !.bitmap = {s \in Received(X) : /\ base < s
                                                /\ s =< base + KAL_ACK_BITS
                                                /\ s < X.rx.total}]
           rx == [X.rx EXCEPT !.ack_cached = ack, !.ack_valid = TRUE]
           Y == [X EXCEPT !.rx = rx]
           R == queue_partial_ack(X)
<1>1. R = queue_frame(Y, ack)  BY DEF queue_partial_ack
<1>2. ack.type = "ACK" /\ ~ack.flag  BY DEF ZeroFrame
<1> HIDE DEF ack, R
<1>3. IsEnd(X)  BY DEF Joined
<1>4. /\ DOMAIN rx = DOMAIN X.rx /\ rx.active = X.rx.active /\ rx.message_id = X.rx.message_id
      /\ rx.session_id = X.rx.session_id /\ rx.ack_cached = ack /\ rx.ack_valid
  BY <1>3 DEF IsEnd
<1> HIDE DEF rx
<1>5. /\ IsEnd(Y) /\ SameSession(X, Y) /\ Y.tx = X.tx /\ Y.stats = X.stats
      /\ Y.next_message_id = X.next_message_id /\ Y.submitted = X.submitted
      /\ Y.dup_cache = X.dup_cache /\ Y.delivered = X.delivered /\ Y.out_frames = X.out_frames
      /\ Y.rx = rx
  BY <1>3, <1>4 DEF IsEnd, SameSession
<1> HIDE DEF Y
<1>6. /\ IsEnd(R) /\ SameSession(Y, R) /\ SameTransfer(Y, R) /\ SameReceipt(Y, R)
      /\ R.tx = Y.tx /\ R.stats = Y.stats /\ Queues(Y, R, {ack})
  BY <1>1, <1>5, QueueFrame
<1>7. /\ SameSession(X, R) /\ R.tx = X.tx /\ R.stats = X.stats
      /\ R.next_message_id = X.next_message_id /\ R.submitted = X.submitted
      /\ R.dup_cache = X.dup_cache /\ R.delivered = X.delivered /\ R.rx = rx
      /\ Queues(X, R, {ack})
  BY <1>5, <1>6 DEF SameSession, SameTransfer, SameReceipt, Queues
<1>8. Reassembles(L, R, {f})
  BY <1>2, <1>4, <1>7 DEF Reassembles, Joined, SameDeliveries
<1>9. MovesReceipt(L, R, {f})  BY <1>8 DEF MovesReceipt
<1>10. Emits(L, R, {f}, ack)  BY <1>4, <1>7 DEF Emits, Fresh
<1>11. \E S : Queues(X, R, S) /\ \A g \in S : Emits(L, R, {f}, g)  BY <1>7, <1>10
<1> QED  BY <1>7, <1>9, <1>11, JoinedParts DEF R

\* finish_rx_message drops a reassembly that is not intact.
LEMMA DroppedMoves ==
  ASSUME NEW L, NEW X, NEW f, Fresh(L, f), Joined(L, X, f)
  PROVE  Moves(L, clear_rx_message(X), {f}, {}, {})
<1> DEFINE R == clear_rx_message(X)
<1>1. R = [X EXCEPT !.rx = NoRx]  BY DEF clear_rx_message
<1> HIDE DEF R
<1>2. IsEnd(X)  BY DEF Joined
<1>3. /\ SameSession(X, R) /\ R.tx = X.tx /\ R.stats = X.stats
      /\ R.next_message_id = X.next_message_id /\ R.submitted = X.submitted
      /\ R.dup_cache = X.dup_cache /\ R.delivered = X.delivered
      /\ R.out_frames = X.out_frames /\ R.rx = NoRx
  BY <1>1, <1>2 DEF IsEnd, SameSession
<1>4. MovesReceipt(L, R, {f})  BY <1>3 DEF MovesReceipt, Idles, Joined, SameDeliveries
<1>5. Queues(X, R, {})  BY <1>2, <1>3, QueuesNothing DEF IsEnd
<1>6. \E S : Queues(X, R, S) /\ \A g \in S : Emits(L, R, {f}, g)  BY <1>5
<1>7. Moves(L, R, {f}, {}, {})  BY <1>3, <1>4, <1>6, JoinedParts
<1> QED  BY <1>7 DEF R

\* finish_rx_message delivers the payload of the frame that completed the message.
LEMMA DeliveredMoves ==
  ASSUME NEW L, NEW X, NEW f, Fresh(L, f), Joined(L, X, f), L.dup_cache \in Seq(DupEntry),
         f.payload \in Message
  PROVE  LET ack == DeliveredAck(X) IN
         Moves(L, clear_rx_message(
                    dup_store(queue_frame(Deliver(X, f.payload), ack),
                              X.rx.session_id, X.rx.message_id, ack)), {f}, {}, {})
<1> DEFINE ack == DeliveredAck(X)
           key == [session_id |-> X.rx.session_id, message_id |-> X.rx.message_id, ack |-> ack]
           D == Deliver(X, f.payload)
           Q == queue_frame(D, ack)
           C == dup_store(Q, X.rx.session_id, X.rx.message_id, ack)
           R == clear_rx_message(C)
           stats == [X.stats EXCEPT !.messages_delivered = Append(@, f.payload)]
<1>1. IsEnd(X)  BY DEF Joined
<1>2. ack.type = "ACK" /\ ack.flag /\ ack.message_id = f.message_id
  BY DEF DeliveredAck, ZeroFrame, Joined
<1>3. /\ key.session_id = X.rx.session_id /\ key.message_id = f.message_id /\ key.ack = ack
  BY DEF Joined
<1>4. /\ DOMAIN stats = DOMAIN X.stats
      /\ stats.messages_delivered = Append(X.stats.messages_delivered, f.payload)
      /\ stats.messages_sent = X.stats.messages_sent
  BY <1>1 DEF IsEnd
<1>5. D = [X EXCEPT !.delivered = f.payload, !.stats = stats]  BY DEF Deliver
<1> HIDE DEF stats, D, ack
<1>6. /\ IsEnd(D) /\ SameSession(X, D) /\ D.tx = X.tx /\ D.stats = stats
      /\ D.next_message_id = X.next_message_id /\ D.submitted = X.submitted
      /\ D.dup_cache = X.dup_cache /\ D.delivered = f.payload
      /\ D.out_frames = X.out_frames
  BY <1>1, <1>4, <1>5 DEF IsEnd, SameSession
<1>7. /\ IsEnd(Q) /\ SameSession(D, Q) /\ SameTransfer(D, Q) /\ SameReceipt(D, Q)
      /\ Q.tx = D.tx /\ Q.stats = D.stats /\ Queues(D, Q, {ack})
  BY <1>6, QueueFrame
<1> HIDE DEF Q
<1>8. /\ IsEnd(C) /\ SameSession(Q, C) /\ Remembers(Q, C, key)
      /\ C.tx = Q.tx /\ C.stats = Q.stats /\ C.delivered = Q.delivered
      /\ C.next_message_id = Q.next_message_id /\ C.submitted = Q.submitted
      /\ C.out_frames = Q.out_frames
  BY <1>7, DupStore
<1>9. R = [C EXCEPT !.rx = NoRx]  BY DEF clear_rx_message
<1> HIDE DEF C, R, key
<1>10. /\ SameSession(C, R) /\ R.tx = C.tx /\ R.stats = C.stats /\ R.delivered = C.delivered
       /\ R.next_message_id = C.next_message_id /\ R.submitted = C.submitted
       /\ R.out_frames = C.out_frames /\ R.dup_cache = C.dup_cache /\ R.rx = NoRx
  BY <1>8, <1>9 DEF IsEnd, SameSession
<1>11. SameSession(L, R)
  <2>1. SameSession(D, R)  BY <1>7, <1>8, <1>10 DEF SameSession
  <2> QED  BY <1>6, <2>1 DEF SameSession, Joined
<1>12. /\ R.tx = L.tx /\ R.delivered = f.payload
       /\ R.next_message_id = L.next_message_id /\ R.submitted = L.submitted
       /\ R.stats.messages_sent = L.stats.messages_sent
       /\ R.stats.messages_delivered = Append(L.stats.messages_delivered, f.payload)
  <2>1. /\ R.tx = D.tx /\ R.stats = D.stats /\ R.delivered = D.delivered
        /\ R.next_message_id = D.next_message_id /\ R.submitted = D.submitted
    BY <1>7, <1>8, <1>10 DEF SameTransfer, SameReceipt
  <2> QED  BY <1>4, <1>6, <2>1 DEF Joined
<1>13. Remembers(L, R, key)
  <2>1. Q.dup_cache = L.dup_cache  BY <1>6, <1>7 DEF SameReceipt, Joined
  <2> QED  BY <1>8, <1>10, <2>1 DEF Remembers
<1>14. Queues(L, R, {ack})  BY <1>6, <1>7, <1>8, <1>10 DEF Queues, Joined
<1>15. Delivers(L, R, {f})
  <2>1. \/ key.session_id = f.session_id
        \/ L.rx.active /\ key.session_id = L.rx.session_id
    BY <1>3 DEF Joined
  <2>2. key.ack.type = "ACK" /\ key.ack.flag /\ key.ack.message_id = f.message_id  BY <1>2, <1>3
  <2> QED  BY <1>3, <1>10, <1>12, <1>13, <2>1, <2>2 DEF Delivers
<1>16. Emits(L, R, {f}, ack)
  <2>1. PICK kept \in Seq(DupEntry) : R.dup_cache = Append(kept, key)
    <3>1. L.dup_cache # << >> => Tail(L.dup_cache) \in Seq(DupEntry)  BY HeadTailProperties
    <3> QED  BY <1>13, <3>1 DEF Remembers
  <2>2. kept \in Seq(DupEntry \cup {key})
    <3>1. DupEntry \subseteq DupEntry \cup {key}  OBVIOUS
    <3> QED  BY <3>1, SeqMonotonic
  <2> HIDE DEF key
  <2>3. Len(kept) + 1 \in DOMAIN R.dup_cache /\ R.dup_cache[Len(kept) + 1] = key
    BY <2>1, <2>2
  <2> QED  BY <1>3, <2>3 DEF Emits
<1>17. SameTransfer(L, R)  BY <1>12 DEF SameTransfer
<1>18. MovesSession(L, R, {f}, {}) /\ MovesTransfer(L, R, {f}, {}) /\ MovesReceipt(L, R, {f})
  BY <1>11, <1>15, <1>17 DEF MovesSession, MovesTransfer, MovesReceipt
<1>19. \E S : Queues(L, R, S) /\ \A g \in S : Emits(L, R, {f}, g)  BY <1>14, <1>16
<1>20. Moves(L, R, {f}, {}, {})  BY <1>12, <1>17, <1>18, <1>19 DEF Moves
<1> QED  BY <1>20 DEF R, C, Q, D, ack

\* StoreSegment, whether it completes the message, acknowledges or only stores.
LEMMA StoreMoves ==
  ASSUME NEW L, NEW X, NEW f, Fresh(L, f), Joined(L, X, f), L.dup_cache \in Seq(DupEntry),
         L.accepts \subseteq Message, DOMAIN X.rx.payload = Segment,
         f.sequence \in Nat, ~(f.sequence >= X.rx.total)
  PROVE  Moves(L, StoreSegment(X, f), {f}, {}, {})
<1> DEFINE stored == [X.rx.payload EXCEPT ![f.sequence] = f.payload]
           rx == [X.rx EXCEPT !.payload = stored]
           Y == [X EXCEPT !.rx = rx]
           body == Assembled(Y)
           ack == DeliveredAck(Y)
           done == clear_rx_message(dup_store(queue_frame(Deliver(Y, body), ack),
                                              Y.rx.session_id, Y.rx.message_id, ack))
           R == StoreSegment(X, f)
<1>1. IsEnd(X)  BY DEF Joined
<1>2. /\ DOMAIN rx = DOMAIN X.rx /\ rx.active = X.rx.active /\ rx.message_id = X.rx.message_id
      /\ rx.session_id = X.rx.session_id /\ rx.total = X.rx.total
      /\ rx.ack_valid = X.rx.ack_valid /\ rx.ack_cached = X.rx.ack_cached /\ rx.payload = stored
  BY <1>1 DEF IsEnd
<1>3. Y = [X EXCEPT !.rx = rx]  OBVIOUS
<1> HIDE DEF rx, Y
<1>4. /\ IsEnd(Y) /\ SameSession(X, Y) /\ Y.tx = X.tx /\ Y.stats = X.stats
      /\ Y.next_message_id = X.next_message_id /\ Y.submitted = X.submitted
      /\ Y.dup_cache = X.dup_cache /\ Y.delivered = X.delivered /\ Y.out_frames = X.out_frames
      /\ Y.rx = rx /\ Y.accepts = X.accepts
  BY <1>1, <1>2, <1>3 DEF IsEnd, SameSession
<1>5. Joined(L, Y, f)  BY <1>2, <1>4 DEF Joined, SameSession
<1>6. ASSUME body \in L.accepts PROVE body = f.payload
  <2> DEFINE whole == {m \in Message : /\ Segments[m] = Y.rx.total
                                       /\ \A s \in 0 .. Y.rx.total - 1 : Y.rx.payload[s] = m}
  <2>1. body = IF whole = {} THEN Garbled ELSE CHOOSE m \in whole : TRUE  BY DEF Assembled
  <2>2. body \in whole  BY <1>6, <2>1, DataAssumption
  <2>3. Y.rx.total \in 1 .. MaxSegments  BY <2>2, DataAssumption
  <2>4. f.sequence \in 0 .. Y.rx.total - 1 /\ f.sequence \in Segment
    <3>1. Y.rx.total = X.rx.total  BY <1>2, <1>4
    <3>2. MaxSegments \in Int  BY DataAssumption
    <3> QED  BY <2>3, <3>1, <3>2 DEF Segment
  <2>5. Y.rx.payload[f.sequence] = f.payload  BY <1>2, <1>4, <2>4
  <2> QED  BY <2>2, <2>4, <2>5
<1>7. R \in {clear_rx_message(Y), queue_partial_ack(Y), Y} \/ (body \in L.accepts /\ R = done)
  <2>1. Y.accepts = L.accepts  BY <1>4 DEF Joined
  <2>2. R \in {finish_rx_message(Y), queue_partial_ack(Y), Y}  BY DEF StoreSegment, Y, rx
  <2> QED  BY <2>1, <2>2 DEF finish_rx_message, Intact
<1> HIDE DEF R, body, ack
<1>8. CASE R = clear_rx_message(Y)  BY <1>5, <1>8, DroppedMoves DEF R
<1>9. CASE R = queue_partial_ack(Y)  BY <1>5, <1>9, PartialAckMoves DEF R
<1>10. CASE R = Y  BY <1>5, <1>10, JoinedMoves DEF R
<1>11. CASE body \in L.accepts /\ R = done
  <2>1. body = f.payload /\ f.payload \in Message  BY <1>6, <1>11
  <2> QED  BY <1>5, <1>11, <2>1, DeliveredMoves DEF R, ack
<1> QED  BY <1>7, <1>8, <1>9, <1>10, <1>11

\* handle_data.
LEMMA HandleDataMoves ==
  ASSUME NEW L, IsEnd(L), NEW f \in AnyFrame, f.type = "DATA", L.dup_cache \in Seq(DupEntry),
         L.accepts \subseteq Message, DOMAIN L.rx.payload = Segment
  PROVE  Moves(L, handle_data(L, f), {f}, {}, {})
<1> DEFINE hits == dup_lookup(L, f.session_id, f.message_id)
           X == Reassembling(L, f)
           Q == queue_frame(L, L.dup_cache[CHOOSE i \in hits : TRUE].ack)
           continued == L.rx.active /\ f.message_id = L.rx.message_id
           R == handle_data(L, f)
<1>1. CASE R = L  BY <1>1, IgnoreMoves
<1>2. CASE hits # {} /\ R = Q
  <2> DEFINE ack == L.dup_cache[CHOOSE i \in hits : TRUE].ack
  <2>1. PICK i \in DOMAIN L.dup_cache : ack = L.dup_cache[i].ack
    <3>1. (CHOOSE i \in hits : TRUE) \in hits  BY <1>2
    <3> QED  BY <3>1 DEF dup_lookup
  <2> HIDE DEF ack, R
  <2>2. /\ SameSession(L, Q) /\ SameTransfer(L, Q) /\ SameReceipt(L, Q) /\ Q.tx = L.tx
        /\ Queues(L, Q, {ack})
    BY QueueFrame DEF ack
  <2> HIDE DEF Q
  <2>3. Emits(L, Q, {f}, ack)  BY <2>1, <2>2 DEF Emits, SameReceipt
  <2>4. \E S : Queues(L, Q, S) /\ \A g \in S : Emits(L, Q, {f}, g)  BY <2>2, <2>3
  <2>5. MovesSession(L, Q, {f}, {}) /\ MovesTransfer(L, Q, {f}, {}) /\ MovesReceipt(L, Q, {f})
    BY <2>2
    DEF MovesSession, MovesTransfer, MovesReceipt, Idles, SameReceipt, SameDeliveries
  <2>6. Moves(L, Q, {f}, {}, {})  BY <2>2, <2>4, <2>5 DEF Moves
  <2> QED  BY <1>2, <2>6 DEF R
<1>3. CASE R = clear_rx_message(L)
  <2>1. R = [L EXCEPT !.rx = NoRx]  BY <1>3 DEF clear_rx_message
  <2> HIDE DEF R
  <2>2. /\ SameSession(L, R) /\ SameTransfer(L, R) /\ R.tx = L.tx
        /\ R.rx = NoRx /\ R.dup_cache = L.dup_cache /\ SameDeliveries(L, R)
        /\ R.out_frames = L.out_frames
    BY <2>1 DEF IsEnd, SameSession, SameTransfer, SameDeliveries
  <2>3. Queues(L, R, {})  BY <2>2, QueuesNothing DEF IsEnd
  <2>4. MovesSession(L, R, {f}, {}) /\ MovesTransfer(L, R, {f}, {}) /\ MovesReceipt(L, R, {f})
    BY <2>2 DEF MovesSession, MovesTransfer, MovesReceipt, Idles
  <2>5. Moves(L, R, {f}, {}, {})  BY <2>2, <2>3, <2>4 DEF Moves
  <2> QED  BY <2>5 DEF R
<1>4. ASSUME InSession(L, f), hits = {}, continued \/ L.delivered = NoBody,
             \/ R = X
             \/ ~(f.sequence >= X.rx.total) /\ R \in {RepeatSegment(X, f), StoreSegment(X, f)}
      PROVE  Moves(L, R, {f}, {}, {})
  <2>1. Fresh(L, f)  BY <1>4 DEF Fresh
  <2>2. Joined(L, X, f)  BY ReassemblingJoins
  <2>3. X = L \/ X.rx.payload = [s \in Segment |-> NoBody]
    <3> DEFINE rx == [NoRx EXCEPT !.active = TRUE, !.session_id = f.session_id,
                                  !.message_id = f.message_id, !.total = f.value]
    <3>1. X = L \/ X = [L EXCEPT !.rx = rx]  BY DEF Reassembling
    <3>2. rx.payload = [s \in Segment |-> NoBody]  BY DEF NoRx
    <3> HIDE DEF X, rx
    <3> QED  BY <3>1, <3>2 DEF IsEnd
  <2>4. DOMAIN X.rx.payload = Segment  BY <2>3
  <2>5. f.sequence \in Nat  BY DEF AnyFrame
  <2> HIDE DEF X, R
  <2>6. CASE R = X  BY <2>1, <2>2, <2>6, JoinedMoves
  <2>7. CASE ~(f.sequence >= X.rx.total) /\ R = StoreSegment(X, f)
    BY <2>1, <2>2, <2>4, <2>5, <2>7, StoreMoves
  <2>8. CASE R = RepeatSegment(X, f)
    <3>1. \/ R = X \/ R = queue_partial_ack(X)
          \/ X.rx.ack_valid /\ R = queue_frame(X, X.rx.ack_cached)
      BY <2>8 DEF RepeatSegment
    <3>2. Moves(L, X, {f}, {}, {}) /\ Moves(L, queue_partial_ack(X), {f}, {}, {})
      BY <2>1, <2>2, JoinedMoves, PartialAckMoves
    <3>3. X.rx.ack_valid => Moves(L, queue_frame(X, X.rx.ack_cached), {f}, {}, {})
      BY <2>1, <2>2, RepeatedAckMoves
    <3> QED  BY <3>1, <3>2, <3>3
  <2> QED  BY <1>4, <2>6, <2>7, <2>8
<1>5. \/ R = L
      \/ hits # {} /\ R = Q
      \/ R = clear_rx_message(L)
      \/ /\ InSession(L, f) /\ hits = {} /\ (continued \/ L.delivered = NoBody)
         /\ \/ R = X
            \/ ~(f.sequence >= X.rx.total) /\ R \in {RepeatSegment(X, f), StoreSegment(X, f)}
  <2> HIDE DEF Q, X, hits
  <2> QED  BY DEF handle_data, Q, X, hits
<1> QED  BY <1>1, <1>2, <1>3, <1>4, <1>5

\* What the types say of the fields of an end.
LEMMA EndFields ==
  ASSUME NEW own, NEW theirs, NEW L \in EndState(own, theirs)
  PROVE  /\ IsEnd(L) /\ L.tx.active \in BOOLEAN /\ L.session_id \in Nat
         /\ L.dup_cache \in Seq(DupEntry) /\ L.accepts \subseteq Message
         /\ DOMAIN L.rx.payload = Segment
<1>1. L.tx \in TxState(own) /\ L.rx \in RxState(theirs) /\ L.stats \in Stats(own, theirs)
  BY DEF EndState
<1>2. L.tx.active \in BOOLEAN /\ DOMAIN L.tx = DOMAIN NoTx  BY <1>1 DEF TxState, NoTx
<1>3. DOMAIN L.rx.payload = Segment /\ DOMAIN L.rx = DOMAIN NoRx  BY <1>1 DEF RxState, NoRx
<1>4. DOMAIN L.stats = {"messages_delivered", "messages_sent"}  BY <1>1 DEF Stats
<1>5. L.window \in 0 .. 255 /\ L.profile \in 0 .. 255
  BY DEF EndState, KAL_MIN_WINDOW_FRAMES, KAL_MAX_WINDOW_FRAMES, KAL_PROFILE_COUNT
<1>6. Row(L.out_frames)
  <2>1. L.out_frames \in Seq(Frame(own))  BY DEF EndState
  <2> QED  BY <2>1 DEF Row
<1>7. IsEnd(L)  BY <1>2, <1>3, <1>4, <1>5, <1>6 DEF EndState, IsEnd, NoTx, NoRx
<1> QED  BY <1>2, <1>3, <1>7 DEF EndState

\* Every handler.
LEMMA HandleFrameMoves ==
  ASSUME NEW own, NEW theirs, NEW L \in EndState(own, theirs), NEW f \in AnyFrame
  PROVE  Moves(L, handle_frame(L, f), {f}, {}, {})
<1>1. /\ IsEnd(L) /\ L.tx.active \in BOOLEAN /\ L.session_id \in Nat
      /\ L.dup_cache \in Seq(DupEntry) /\ L.accepts \subseteq Message
      /\ DOMAIN L.rx.payload = Segment
  BY EndFields
<1>2. CASE f.type = "HELLO"  BY <1>1, <1>2, HandleHelloMoves DEF handle_frame
<1>3. CASE f.type = "HELLO_ACK"  BY <1>1, <1>3, HandleHelloAckMoves DEF handle_frame
<1>4. CASE f.type = "DATA"  BY <1>1, <1>4, HandleDataMoves DEF handle_frame
<1>5. CASE f.type = "ACK"  BY <1>1, <1>5, HandleAckMoves DEF handle_frame
<1>6. CASE f.type = "CANCEL"  BY <1>1, <1>6, HandleCancelMoves DEF handle_frame
<1>7. CASE f.type = "BEACON"  BY <1>1, <1>7, HandleBeaconMoves DEF handle_frame
<1>8. CASE f.type \notin FrameTypes
  <2>1. handle_frame(L, f) = L  BY <1>8 DEF handle_frame, FrameTypes
  <2> QED  BY <1>1, <2>1, IgnoreMoves
<1> QED  BY <1>2, <1>3, <1>4, <1>5, <1>6, <1>7, <1>8 DEF FrameTypes

----------------------------------------------------------------------------
(* Channels.                                                               *)

\* g is in the sequence c; h is in it behind g.
Has(c, g) == \E i \in DOMAIN c : c[i] = g
HasBehind(c, g, h) == \E i, j \in DOMAIN c : i < j /\ c[i] = g /\ c[j] = h

\* What e has queued travels behind what it has put on the air.
Channel(e) == air[e] \o link[e].out_frames

\* What is taken from a channel is its head.
Takes(heard, k, k1) ==
  /\ \A f \in heard : Has(k, f) /\ \A g : Has(k1, g) => HasBehind(k, f, g)
  /\ \A g : Has(k1, g) => Has(k, g)
  /\ \A g, h : HasBehind(k1, g, h) => HasBehind(k, g, h)

\* What a step from L to R puts into a channel goes behind everything in it.
Puts(L, R, heard, c, c1) ==
  /\ \A g : Has(c1, g) => Has(c, g) \/ Emits(L, R, heard, g)
  /\ \A g, h : HasBehind(c1, g, h) =>
       \/ HasBehind(c, g, h)
       \/ Emits(L, R, heard, h) /\ (Has(c, g) \/ Emits(L, R, heard, g))

\* Every step of an end but the two that forget.
Turns(L, R, heard, ids, sends) ==
  /\ MovesSession(L, R, heard, ids)
  /\ MovesTransfer(L, R, heard, sends)
  /\ MovesReceipt(L, R, heard)
  /\ SameTransfer(L, R) \/ SameDeliveries(L, R)
  /\ R.tx.started => L.tx.started \/ R.session_open \/ \E f \in heard : f.type = "ACK"

\* kal_link_reset, and an entry of the duplicate cache that reaches its expiry.
Resets(L, R) ==
  /\ R.role = L.role /\ R.window = L.window
  /\ ~R.session_open /\ ~R.hello_pending /\ R.session_id = 0 /\ ~R.hello_ack_valid

Forgets(L, R) ==
  /\ SameSession(L, R) \/ Resets(L, R)
  /\ R.tx \in {L.tx, NoTx} /\ R.next_message_id \in {L.next_message_id, FirstMessageId(L.role)}
  /\ R.submitted = L.submitted /\ R.stats = L.stats
  /\ R.rx \in {L.rx, NoRx}
  /\ \A i \in DOMAIN R.dup_cache : \E j \in DOMAIN L.dup_cache : R.dup_cache[i] = L.dup_cache[j]
  /\ R.delivered \in {L.delivered, NoBody}

\* A step of end e.
Step(e, heard, ids, sends) ==
  LET d == Peer(e) IN
  /\ link'[d] = link[d]
  /\ \A f, g \in heard : f = g
  /\ heard # {} => ids = {} /\ sends = {}
  /\ Takes(heard, Channel(d), Channel(d)')
  /\ Puts(link[e], link'[e], heard, Channel(e), Channel(e)')
  /\ ids \subseteq SessionIds \ drawn /\ drawn' = drawn \cup ids
  /\ sends = {} \/ (sends = {NextMessage(e)} /\ Sendable(e))
  /\ \/ Turns(link[e], link'[e], heard, ids, sends) /\ NothingForgotten' = NothingForgotten
     \/ Forgets(link[e], link'[e]) /\ ~NothingForgotten'

\* What is queued is behind what was.
LEMMA ChannelGrows ==
  ASSUME NEW U, NEW c \in Seq(U), NEW S, NEW q \in Seq(S)
  PROVE  /\ \A g : Has(c \o q, g) => Has(c, g) \/ g \in S
         /\ \A g, h : HasBehind(c \o q, g, h) =>
              HasBehind(c, g, h) \/ (h \in S /\ (Has(c, g) \/ g \in S))
<1> DEFINE V == U \cup S
           w == c \o q
<1>1. c \in Seq(V) /\ q \in Seq(V)
  <2>1. U \subseteq V /\ S \subseteq V  OBVIOUS
  <2> HIDE DEF V
  <2>2. c \in Seq(V)  BY <2>1, SeqMonotonic
  <2>3. q \in Seq(V)  BY <2>1, SeqMonotonic
  <2> QED  BY <2>2, <2>3
<1> HIDE DEF V
<1>2. /\ DOMAIN w = 1 .. Len(c) + Len(q) /\ Len(c) \in Nat /\ Len(q) \in Nat
      /\ \A i \in DOMAIN w : w[i] = IF i =< Len(c) THEN c[i] ELSE q[i - Len(c)]
  <2>1. \A s, t \in Seq(V) : /\ s \o t \in Seq(V) /\ Len(s \o t) = Len(s) + Len(t)
                             /\ \A i \in 1 .. Len(s) + Len(t) : (s \o t)[i] =
                                  IF i =< Len(s) THEN s[i] ELSE t[i - Len(s)]
    BY ConcatProperties
  <2>2. /\ w \in Seq(V) /\ Len(w) = Len(c) + Len(q)
        /\ \A i \in 1 .. Len(c) + Len(q) : w[i] = IF i =< Len(c) THEN c[i] ELSE q[i - Len(c)]
    BY <1>1, <2>1
  <2> HIDE DEF w
  <2> QED  BY <1>1, <2>2
<1> HIDE DEF w
<1>3. DOMAIN c = 1 .. Len(c) /\ \A j \in 1 .. Len(q) : q[j] \in S  OBVIOUS
<1>4. \A i \in DOMAIN w : \/ i \in DOMAIN c /\ w[i] = c[i]
                          \/ i > Len(c) /\ w[i] \in S
  BY <1>2, <1>3
<1>5. \A g : Has(w, g) => Has(c, g) \/ g \in S  BY <1>4 DEF Has
<1>6. ASSUME NEW g, NEW h, HasBehind(w, g, h)
      PROVE  HasBehind(c, g, h) \/ (h \in S /\ (Has(c, g) \/ g \in S))
  <2>1. PICK i, j \in DOMAIN w : i < j /\ w[i] = g /\ w[j] = h  BY <1>6 DEF HasBehind
  <2>2. CASE j \in DOMAIN c /\ w[j] = c[j]
    <3>1. i \in DOMAIN c /\ w[i] = c[i]  BY <1>2, <1>3, <1>4, <2>1, <2>2
    <3> QED  BY <2>1, <2>2, <3>1 DEF HasBehind
  <2>3. CASE h \in S
    <3>1. Has(w, g)  BY <2>1 DEF Has
    <3> QED  BY <1>5, <2>3, <3>1
  <2> QED  BY <1>4, <2>1, <2>2, <2>3
<1> QED  BY <1>5, <1>6 DEF w

\* The head of a channel is before the rest.
LEMMA ChannelAdvances ==
  ASSUME NEW U, NEW c \in Seq(U), c # << >>
  PROVE  /\ Has(c, Head(c))
         /\ \A g : Has(Tail(c), g) => Has(c, g) /\ HasBehind(c, Head(c), g)
         /\ \A g, h : HasBehind(Tail(c), g, h) => HasBehind(c, g, h)
<1> DEFINE t == Tail(c)
<1>1. /\ Len(c) \in Nat /\ Len(c) > 0 /\ DOMAIN c = 1 .. Len(c) /\ Head(c) = c[1]
      /\ DOMAIN t = 1 .. Len(c) - 1 /\ \A i \in DOMAIN t : t[i] = c[i + 1]
  OBVIOUS
<1> HIDE DEF t
<1>2. Has(c, Head(c))  BY <1>1 DEF Has
<1>3. \A i \in DOMAIN t : i + 1 \in DOMAIN c /\ 1 < i + 1  BY <1>1
<1>4. 1 \in DOMAIN c  BY <1>1
<1>5. \A g : Has(t, g) => Has(c, g) /\ HasBehind(c, Head(c), g)
  BY <1>1, <1>3, <1>4 DEF Has, HasBehind
<1>6. \A g, h : HasBehind(t, g, h) => HasBehind(c, g, h)
  <2> SUFFICES ASSUME NEW g, NEW h, HasBehind(t, g, h) PROVE HasBehind(c, g, h)
    OBVIOUS
  <2>1. PICK i, j \in DOMAIN t : i < j /\ t[i] = g /\ t[j] = h  BY DEF HasBehind
  <2>2. i + 1 < j + 1 /\ c[i + 1] = g /\ c[j + 1] = h  BY <1>1, <2>1
  <2> QED  BY <1>3, <2>1, <2>2 DEF HasBehind
<1> QED  BY <1>2, <1>5, <1>6 DEF t

\* The queue of a channel can be cut off.
LEMMA ChannelCut ==
  ASSUME NEW U, NEW a \in Seq(U), NEW o \in Seq(U)
  PROVE  /\ \A g : Has(a \o << >>, g) => Has(a \o o, g)
         /\ \A g, h : HasBehind(a \o << >>, g, h) => HasBehind(a \o o, g, h)
<1> DEFINE w == a \o o
<1>1. a \o << >> = a  OBVIOUS
<1>2. /\ DOMAIN a \subseteq DOMAIN w /\ \A i \in DOMAIN a : w[i] = a[i]
  OBVIOUS
<1> HIDE DEF w
<1>3. \A g : Has(a, g) => Has(w, g)  BY <1>2 DEF Has
<1>4. \A g, h : HasBehind(a, g, h) => HasBehind(w, g, h)  BY <1>2 DEF HasBehind
<1> QED  BY <1>1, <1>3, <1>4 DEF w

\* Playing a frame leaves the channel as it is, hearing one takes its head.
LEMMA ChannelMoves ==
  ASSUME NEW U, NEW a \in Seq(U), NEW o \in Seq(U)
  PROVE  /\ o # << >> => Append(a, Head(o)) \o Tail(o) = a \o o
         /\ a # << >> => /\ Tail(a) \o o = Tail(a \o o)
                         /\ Head(a) = Head(a \o o) /\ a \o o # << >>
         /\ a \o o \in Seq(U)
<1>1. ASSUME o # << >> PROVE Append(a, Head(o)) \o Tail(o) = a \o o
  <2> DEFINE b == Append(a, Head(o))
             x == b \o Tail(o)
             y == a \o o
  <2>1. Head(o) \in U /\ Tail(o) \in Seq(U)  BY <1>1
  <2>2. b \in Seq(U) /\ Len(b) = Len(a) + 1  BY <2>1
  <2>3. x \in Seq(U) /\ y \in Seq(U)  BY <2>1, <2>2
  <2>4. Len(x) = Len(y)  BY <1>1, <2>1, <2>2
  <2>5. \A i \in 1 .. Len(x) : x[i] = y[i]
    <3> SUFFICES ASSUME NEW i \in 1 .. Len(x) PROVE x[i] = y[i]
      OBVIOUS
    <3>1. Len(x) = Len(a) + Len(o)  BY <1>1, <2>1, <2>2
    <3>2. i =< Len(a) \/ i = Len(a) + 1 \/ i > Len(a) + 1  BY <3>1
    <3>3. Head(o) = o[1] /\ \A j \in 1 .. Len(o) - 1 : Tail(o)[j] = o[j + 1]  BY <1>1
    <3>4. CASE i =< Len(a)  BY <1>1, <2>1, <2>2, <3>1, <3>4
    <3>5. CASE i = Len(a) + 1  BY <1>1, <2>1, <2>2, <3>1, <3>3, <3>5
    <3>6. CASE i > Len(a) + 1
      <4>1. i - (Len(a) + 1) \in 1 .. Len(o) - 1 /\ i - Len(a) \in 1 .. Len(o)
        BY <1>1, <3>1, <3>6
      <4>2. x[i] = Tail(o)[i - (Len(a) + 1)]  BY <2>1, <2>2, <3>1, <3>6
      <4>3. y[i] = o[i - Len(a)]
        <5>1. \A s, t \in Seq(U) : \A j \in 1 .. Len(s) + Len(t) :
                (s \o t)[j] = IF j =< Len(s) THEN s[j] ELSE t[j - Len(s)]
          BY ConcatProperties
        <5>2. i \in 1 .. Len(a) + Len(o) /\ ~(i =< Len(a))  BY <1>1, <3>1, <3>6
        <5> QED  BY <5>1, <5>2
      <4> QED  BY <3>3, <4>1, <4>2, <4>3
    <3> QED  BY <3>2, <3>4, <3>5, <3>6
  <2> HIDE DEF x, y
  <2> QED  BY <2>3, <2>4, <2>5, SeqEqual DEF x, y
<1>2. ASSUME a # << >> PROVE /\ Tail(a) \o o = Tail(a \o o)
                             /\ Head(a) = Head(a \o o) /\ a \o o # << >>
  <2> DEFINE x == Tail(a) \o o
             z == a \o o
             y == Tail(z)
  <2>1. Tail(a) \in Seq(U) /\ Len(Tail(a)) = Len(a) - 1 /\ Len(a) > 0
        /\ \A j \in 1 .. Len(a) - 1 : Tail(a)[j] = a[j + 1]
    BY <1>2
  <2>2. z \in Seq(U) /\ Len(z) = Len(a) + Len(o) /\ z[1] = a[1]
    BY <2>1
  <2>3. z # << >> /\ Head(a) = Head(z)  BY <1>2, <2>1, <2>2
  <2>4. y \in Seq(U) /\ Len(y) = Len(z) - 1 /\ \A j \in 1 .. Len(y) : y[j] = z[j + 1]
    BY <2>2, <2>3
  <2>5. x \in Seq(U) /\ Len(x) = Len(y)  BY <2>1, <2>2, <2>4
  <2>6. \A i \in 1 .. Len(x) : x[i] = y[i]
    <3> SUFFICES ASSUME NEW i \in 1 .. Len(x) PROVE x[i] = y[i]
      OBVIOUS
    <3>1. y[i] = z[i + 1]  BY <2>4, <2>5
    <3>2. CASE i =< Len(a) - 1
      <4>1. z[i + 1] = a[i + 1]  BY <2>1, <2>2, <2>5, <3>2
      <4>2. x[i] = Tail(a)[i]  BY <2>1, <2>5, <3>2
      <4> QED  BY <2>1, <3>1, <3>2, <4>1, <4>2
    <3>3. CASE i > Len(a) - 1
      <4>1. z[i + 1] = o[i + 1 - Len(a)]  BY <2>1, <2>2, <2>4, <2>5, <3>3
      <4>2. x[i] = o[i - (Len(a) - 1)]  BY <2>1, <2>2, <2>4, <2>5, <3>3
      <4>3. i - (Len(a) - 1) = i + 1 - Len(a)  BY <2>1, <2>5
      <4> QED  BY <3>1, <4>1, <4>2, <4>3
    <3> QED  BY <2>1, <2>5, <3>2, <3>3
  <2>7. x = y
    <3> HIDE DEF x, y
    <3> QED  BY <2>4, <2>5, <2>6, SeqEqual
  <2> QED  BY <2>3, <2>7
<1>3. a \o o \in Seq(U)  OBVIOUS
<1> QED  BY <1>1, <1>2, <1>3

\* An end that queues, and one that hears nothing.
LEMMA QueuedPuts ==
  ASSUME NEW U, NEW a \in Seq(U), NEW L, NEW R, NEW heard, L.out_frames \in Seq(U),
         \E S : Queues(L, R, S) /\ \A g \in S : Emits(L, R, heard, g)
  PROVE  Puts(L, R, heard, a \o L.out_frames, a \o R.out_frames)
<1>1. PICK S : Queues(L, R, S) /\ \A g \in S : Emits(L, R, heard, g)  OBVIOUS
<1>2. PICK q \in Seq(S) : R.out_frames = L.out_frames \o q  BY <1>1 DEF Queues
<1> DEFINE V == U \cup S
           c == a \o L.out_frames
<1>3. a \in Seq(V) /\ L.out_frames \in Seq(V) /\ q \in Seq(V)
  <2>1. U \subseteq V /\ S \subseteq V  OBVIOUS
  <2> HIDE DEF V
  <2> QED  BY <2>1, SeqMonotonic
<1>4. a \o R.out_frames = c \o q
  <2>1. \A s, t, u \in Seq(V) : (s \o t) \o u = s \o (t \o u)  BY ConcatAssociative
  <2> HIDE DEF V
  <2>2. (a \o L.out_frames) \o q = a \o (L.out_frames \o q)  BY <1>3, <2>1
  <2> QED  BY <1>2, <2>2
<1>5. c \in Seq(U)  OBVIOUS
<1> HIDE DEF c
<1>6. /\ \A g : Has(c \o q, g) => Has(c, g) \/ g \in S
      /\ \A g, h : HasBehind(c \o q, g, h) =>
           HasBehind(c, g, h) \/ (h \in S /\ (Has(c, g) \/ g \in S))
  BY <1>5, ChannelGrows
<1> QED  BY <1>1, <1>4, <1>6 DEF Puts, c

\* Who hears nothing takes nothing off the channel.
LEMMA KeptTakes ==
  ASSUME NEW k
  PROVE  Takes({}, k, k)
BY DEF Takes

\* Who queues nothing leaves its channel as it is.
LEMMA KeptPuts ==
  ASSUME NEW L, NEW R, NEW heard, NEW c
  PROVE  Puts(L, R, heard, c, c)
BY DEF Puts

\* What takes the whole of an end's part in the transfers along.
LEMMA SameTurns ==
  ASSUME NEW L, NEW R, SameSession(L, R), SameTransfer(L, R), SameReceipt(L, R), R.tx = L.tx
  PROVE  Turns(L, R, {}, {}, {})
BY DEF Turns, MovesSession, MovesTransfer, MovesReceipt, Idles, SameReceipt, SameDeliveries

\* What a step finds and leaves at the two ends.
LEMMA StepTypes ==
  ASSUME IInv, IInv', NEW e \in End
  PROVE  /\ link[e] \in EndState(Message, Message) /\ link'[e] \in EndState(Message, Message)
         /\ air[e] \in Seq(Frame(Message)) /\ link[e].out_frames \in Seq(Frame(Message))
         /\ Channel(e) \in Seq(Frame(Message))
         /\ IsEnd(link[e]) /\ link[e].tx.active \in BOOLEAN
         /\ Peer(e) \in End /\ Peer(e) # e
         /\ DOMAIN link = End /\ DOMAIN air = End
<1>1. link[e] \in EndState(Message, Message) /\ air[e] \in Seq(Frame(Message))
      /\ DOMAIN link = End /\ DOMAIN air = End
  BY DEF IInv
<1>2. link'[e] \in EndState(Message, Message)  BY DEF IInv
<1>3. link[e].out_frames \in Seq(Frame(Message))  BY <1>1 DEF EndState
<1>4. Channel(e) \in Seq(Frame(Message))  BY <1>1, <1>3 DEF Channel
<1> QED  BY <1>1, <1>2, <1>3, <1>4, EndFields, PeerType

\* An operation that queues: the air stays.
LEMMA OperationSteps ==
  ASSUME IInv, IInv', NEW e \in End, NEW R, Becomes(e, R), air' = air,
         NEW ids, NEW sends, Moves(link[e], R, {}, ids, sends),
         ids \subseteq SessionIds \ drawn, drawn' = drawn \cup ids,
         sends = {} \/ (sends = {NextMessage(e)} /\ Sendable(e)),
         NothingForgotten' = NothingForgotten
  PROVE  Step(e, {}, ids, sends)
<1> DEFINE d == Peer(e)
<1>1. /\ d \in End /\ d # e /\ DOMAIN link = End
      /\ air[e] \in Seq(Frame(Message)) /\ link[e].out_frames \in Seq(Frame(Message))
  BY StepTypes
<1>2. link'[e] = R /\ link'[d] = link[d]  BY <1>1 DEF Becomes
<1>3. Channel(d)' = Channel(d)  BY <1>2 DEF Channel
<1>4. Channel(e)' = air[e] \o R.out_frames  BY <1>2 DEF Channel
<1>5. Puts(link[e], R, {}, Channel(e), Channel(e)')
  <2>1. \E S : Queues(link[e], R, S) /\ \A g \in S : Emits(link[e], R, {}, g)
    BY DEF Moves
  <2> QED  BY <1>1, <1>4, <2>1, QueuedPuts DEF Channel
<1>6. Turns(link[e], R, {}, ids, sends)  BY DEF Moves, Turns
<1>7. Takes({}, Channel(d), Channel(d)')  BY <1>3, KeptTakes
<1> QED  BY <1>2, <1>5, <1>6, <1>7 DEF Step

\* What Spend leaves of NothingForgotten.
LEMMA SpendForgets ==
  ASSUME IInv, NEW k \in Spent, Spend(k)
  PROVE  NothingForgotten' = (NothingForgotten /\ k \notin {"age", "reset"})
<1>1. /\ spent \in [Spent -> Nat]
      /\ spent' = [j \in Spent |-> spent[j] + (IF j \in {k, "any"} THEN 1 ELSE 0)]
  BY DEF IInv, Spend
<1>2. "age" \in Spent /\ "reset" \in Spent  BY DEF Spent
<1>3. /\ spent["age"] \in Nat /\ spent["reset"] \in Nat
      /\ spent'["age"] = spent["age"] + (IF k = "age" THEN 1 ELSE 0)
      /\ spent'["reset"] = spent["reset"] + (IF k = "reset" THEN 1 ELSE 0)
  BY <1>1, <1>2
<1> QED  BY <1>3 DEF NothingForgotten

\* Every step that hears nothing is a step of its end.
LEMMA ActionSteps ==
  ASSUME IInv, IInv', NEW e \in End,
         \/ Send(e) \/ SendOpening(e) \/ SendWithoutEntropy(e)
         \/ SendBeacon(e) \/ Cancel(e) \/ Reset(e) \/ Collect(e)
         \/ Expire(e) \/ Age(e) \/ Pull(e) \/ Lose(e)
  PROVE  \E ids, sends : Step(e, {}, ids, sends)
<1> DEFINE d == Peer(e)
           L == link[e]
<1>1. /\ link[e] \in EndState(Message, Message)
      /\ air[e] \in Seq(Frame(Message)) /\ link[e].out_frames \in Seq(Frame(Message))
      /\ IsEnd(link[e]) /\ link[e].tx.active \in BOOLEAN
      /\ d \in End /\ d # e
      /\ DOMAIN link = End /\ DOMAIN air = End
  BY StepTypes
<1>2. air[d] \in Seq(Frame(Message)) /\ link[d].out_frames \in Seq(Frame(Message))
  BY <1>1, StepTypes
<1> HIDE DEF d
<1>3. spent' = spent => NothingForgotten' = NothingForgotten  BY DEF NothingForgotten
<1>4. CASE Send(e)
  <2>1. /\ Sendable(e) /\ ~NeedsSession(L) /\ air' = air /\ drawn' = drawn /\ spent' = spent
        /\ Becomes(e, kal_send(L, NextMessage(e), [ok |-> TRUE, id |-> 0]))
    BY <1>4 DEF Send
  <2>2. Moves(L, kal_send(L, NextMessage(e), [ok |-> TRUE, id |-> 0]), {}, {}, {NextMessage(e)})
    <3>1. ~L.tx.active  BY <2>1 DEF Sendable
    <3>2. (IF NeedsSession(L) /\ TRUE THEN {0} ELSE {}) = {}  BY <2>1
    <3> HIDE DEF L
    <3>3. Moves(L, kal_send(L, NextMessage(e), [ok |-> TRUE, id |-> 0]), {},
                IF NeedsSession(L) /\ TRUE THEN {0} ELSE {}, {NextMessage(e)})
      BY <1>1, <3>1, SendMoves DEF L
    <3> QED  BY <3>2, <3>3
  <2>3. Step(e, {}, {}, {NextMessage(e)})
    BY <1>3, <2>1, <2>2, OperationSteps
  <2> QED  BY <2>3
<1>5. CASE SendOpening(e)
  <2>1. PICK id \in SessionIds \ drawn :
          /\ Becomes(e, kal_send(L, NextMessage(e), [ok |-> TRUE, id |-> id]))
          /\ drawn' = drawn \cup {id}
    BY <1>5 DEF SendOpening
  <2>2. Sendable(e) /\ NeedsSession(L) /\ air' = air /\ spent' = spent
    BY <1>5 DEF SendOpening
  <2>3. Moves(L, kal_send(L, NextMessage(e), [ok |-> TRUE, id |-> id]), {}, {id}, {NextMessage(e)})
    <3>1. ~L.tx.active  BY <2>2 DEF Sendable
    <3>2. (IF NeedsSession(L) /\ TRUE THEN {id} ELSE {}) = {id}  BY <2>2
    <3> HIDE DEF L
    <3>3. Moves(L, kal_send(L, NextMessage(e), [ok |-> TRUE, id |-> id]), {},
                IF NeedsSession(L) /\ TRUE THEN {id} ELSE {}, {NextMessage(e)})
      BY <1>1, <3>1, SendMoves DEF L
    <3> QED  BY <3>2, <3>3
  <2>4. Step(e, {}, {id}, {NextMessage(e)})
    BY <1>3, <2>1, <2>2, <2>3, OperationSteps
  <2> QED  BY <2>4
<1>6. CASE SendWithoutEntropy(e)
  <2>1. /\ Sendable(e) /\ NeedsSession(L) /\ air' = air /\ drawn' = drawn
        /\ Becomes(e, kal_send(L, NextMessage(e), [ok |-> FALSE, id |-> 0]))
        /\ Spend("entropy") /\ "entropy" \in Spent
    BY <1>6 DEF SendWithoutEntropy, Spent
  <2>2. Moves(L, kal_send(L, NextMessage(e), [ok |-> FALSE, id |-> 0]), {}, {}, {NextMessage(e)})
    <3>1. ~L.tx.active  BY <2>1 DEF Sendable
    <3>2. (IF NeedsSession(L) /\ FALSE THEN {0} ELSE {}) = {}  OBVIOUS
    <3> HIDE DEF L
    <3>3. Moves(L, kal_send(L, NextMessage(e), [ok |-> FALSE, id |-> 0]), {},
                IF NeedsSession(L) /\ FALSE THEN {0} ELSE {}, {NextMessage(e)})
      BY <1>1, <3>1, SendMoves DEF L
    <3> QED  BY <3>2, <3>3
  <2>3. NothingForgotten' = NothingForgotten  BY <2>1, SpendForgets DEF NothingForgotten
  <2>4. Step(e, {}, {}, {NextMessage(e)})  BY <2>1, <2>2, <2>3, OperationSteps
  <2> QED  BY <2>4
<1>7. CASE SendBeacon(e)
  <2>1. Spend("beacon") /\ "beacon" \in Spent /\ air' = air /\ drawn' = drawn
    BY <1>7 DEF SendBeacon, Spent
  <2>2. PICK p \in Beacon : Becomes(e, kal_beacon(L, p))  BY <1>7 DEF SendBeacon
  <2>3. Moves(L, kal_beacon(L, p), {}, {}, {})  BY <1>1, BeaconMoves
  <2>4. NothingForgotten' = NothingForgotten  BY <2>1, SpendForgets DEF NothingForgotten
  <2>5. Step(e, {}, {}, {})  BY <2>1, <2>2, <2>3, <2>4, OperationSteps
  <2> QED  BY <2>5
<1>8. CASE Cancel(e)
  <2>1. Spend("cancel") /\ "cancel" \in Spent /\ air' = air /\ drawn' = drawn
        /\ Becomes(e, kal_cancel(L))
    BY <1>8 DEF Cancel, Spent
  <2>2. Moves(L, kal_cancel(L), {}, {}, {})  BY <1>1, CancelMoves
  <2>3. NothingForgotten' = NothingForgotten  BY <2>1, SpendForgets DEF NothingForgotten
  <2>4. Step(e, {}, {}, {})  BY <2>1, <2>2, <2>3, OperationSteps
  <2> QED  BY <2>4
<1>9. CASE Collect(e)
  <2>1. Becomes(e, [L EXCEPT !.delivered = NoBody]) /\ air' = air /\ drawn' = drawn
        /\ spent' = spent
    BY <1>9 DEF Collect
  <2>2. Moves(L, [L EXCEPT !.delivered = NoBody], {}, {}, {})  BY <1>1, CollectMoves
  <2>3. Step(e, {}, {}, {})  BY <1>3, <2>1, <2>2, OperationSteps
  <2> QED  BY <2>3
<1>10. CASE Expire(e)
  <2>1. Becomes(e, advance_time(L)) /\ air' = air /\ drawn' = drawn /\ spent' = spent
    BY <1>10 DEF Expire
  <2>2. Moves(L, advance_time(L), {}, {}, {})  BY <1>1, AdvanceMoves
  <2>3. Step(e, {}, {}, {})  BY <1>3, <2>1, <2>2, OperationSteps
  <2> QED  BY <2>3
<1>11. CASE Reset(e)
  <2> DEFINE R == kal_link_reset(L)
  <2>1. link' = [link EXCEPT ![e] = R] /\ air' = air /\ drawn' = drawn
        /\ Spend("reset") /\ "reset" \in Spent
    BY <1>11 DEF Reset, Becomes, Spent
  <2>2. ~NothingForgotten'  BY <2>1, SpendForgets
  <2>3. Resets(L, R) /\ R.out_frames = << >> /\ Forgets(L, R)
    <3>1. /\ Resets(L, R) /\ R.out_frames = << >> /\ R.tx = NoTx /\ R.rx = NoRx
          /\ R.submitted = L.submitted /\ R.stats = L.stats /\ R.dup_cache = << >>
          /\ R.delivered = NoBody /\ R.next_message_id = FirstMessageId(L.role)
      BY <1>1 DEF kal_link_reset, IsEnd, Resets
    <3>2. ~NoTx.active  BY DEF NoTx
    <3> HIDE DEF R
    <3> QED  BY <3>1, <3>2 DEF Forgets
  <2> HIDE DEF R
  <2>4. link'[e] = R /\ link'[d] = link[d]  BY <1>1, <2>1
  <2>5. Channel(d)' = Channel(d) /\ Channel(e)' = air[e] \o << >>  BY <2>1, <2>3, <2>4 DEF Channel
  <2>6. Puts(L, R, {}, Channel(e), Channel(e)')
    BY <1>1, <2>5, ChannelCut DEF Puts, Channel
  <2>7. Step(e, {}, {}, {})
    BY <2>1, <2>2, <2>3, <2>4, <2>5, <2>6, KeptTakes DEF Step, d
  <2> QED  BY <2>7
<1>12. CASE Age(e)
  <2> DEFINE R == [L EXCEPT !.dup_cache = Tail(@)]
  <2>1. link' = [link EXCEPT ![e] = R] /\ air' = air /\ drawn' = drawn
        /\ Spend("age") /\ "age" \in Spent /\ L.dup_cache # << >>
    BY <1>12 DEF Age, Becomes, Spent
  <2>2. ~NothingForgotten'  BY <2>1, SpendForgets
  <2>3. R.out_frames = L.out_frames /\ Forgets(L, R)
    <3>1. /\ SameSession(L, R) /\ R.out_frames = L.out_frames /\ R.tx = L.tx /\ R.rx = L.rx
          /\ R.submitted = L.submitted /\ R.stats = L.stats /\ R.dup_cache = Tail(L.dup_cache)
          /\ R.delivered = L.delivered /\ R.next_message_id = L.next_message_id
      BY <1>1 DEF IsEnd, SameSession
    <3>2. L.dup_cache \in Seq(DupEntry)  BY <1>1 DEF EndState
    <3>3. \A i \in DOMAIN Tail(L.dup_cache) : \E j \in DOMAIN L.dup_cache :
            Tail(L.dup_cache)[i] = L.dup_cache[j]
      <4>1. \A i \in DOMAIN Tail(L.dup_cache) : /\ i + 1 \in DOMAIN L.dup_cache
                                              /\ Tail(L.dup_cache)[i] = L.dup_cache[i + 1]
        BY <2>1, <3>2
      <4> QED  BY <4>1
    <3> HIDE DEF R
    <3> QED  BY <3>1, <3>3 DEF Forgets
  <2> HIDE DEF R
  <2>4. link'[e] = R /\ link'[d] = link[d]  BY <1>1, <2>1
  <2>5. Channel(d)' = Channel(d) /\ Channel(e)' = Channel(e)  BY <2>1, <2>3, <2>4 DEF Channel
  <2>6. Step(e, {}, {}, {})
    BY <2>1, <2>2, <2>3, <2>4, <2>5, KeptTakes, KeptPuts DEF Step, d
  <2> QED  BY <2>6
<1>13. CASE Pull(e)
  <2> DEFINE R == [L EXCEPT !.out_frames = Tail(@)]
  <2>1. /\ link' = [link EXCEPT ![e] = R] /\ drawn' = drawn /\ spent' = spent
        /\ L.out_frames # << >> /\ air' = [air EXCEPT ![e] = Append(@, Head(L.out_frames))]
    BY <1>13 DEF Pull, Becomes
  <2>2. /\ SameSession(L, R) /\ SameTransfer(L, R) /\ SameReceipt(L, R) /\ R.tx = L.tx
        /\ R.out_frames = Tail(L.out_frames)
    BY <1>1 DEF IsEnd, SameSession, SameTransfer, SameReceipt
  <2> HIDE DEF R
  <2>3. /\ link'[e] = R /\ link'[d] = link[d] /\ air'[d] = air[d]
        /\ air'[e] = Append(air[e], Head(L.out_frames))
    BY <1>1, <2>1
  <2>4. Channel(d)' = Channel(d)  BY <2>3 DEF Channel
  <2>5. Channel(e)' = Channel(e)
    <3>1. Channel(e)' = Append(air[e], Head(L.out_frames)) \o Tail(L.out_frames)
      BY <2>2, <2>3 DEF Channel
    <3>2. \A a, o \in Seq(Frame(Message)) :
            o # << >> => Append(a, Head(o)) \o Tail(o) = a \o o
      BY ChannelMoves
    <3>3. Append(air[e], Head(L.out_frames)) \o Tail(L.out_frames) = air[e] \o L.out_frames
      BY <1>1, <2>1, <3>2
    <3> QED  BY <3>1, <3>3 DEF Channel
  <2>6. Turns(L, R, {}, {}, {})  BY <2>2, SameTurns
  <2>7. Step(e, {}, {}, {})
    BY <1>3, <2>1, <2>3, <2>4, <2>5, <2>6, KeptTakes, KeptPuts DEF Step, d
  <2> QED  BY <2>7
<1>14. CASE Lose(e)
  <2>1. /\ link' = link /\ drawn' = drawn /\ Spend("lose") /\ "lose" \in Spent
        /\ air' = [air EXCEPT ![e] = Tail(@)] /\ air[e] # << >>
    BY <1>14 DEF Lose, Spent
  <2>2. air'[e] = Tail(air[e]) /\ air'[d] = air[d]  BY <1>1, <2>1
  <2>3. Channel(d)' = Channel(d) /\ Channel(e)' = Tail(air[e]) \o L.out_frames
    BY <2>1, <2>2 DEF Channel
  <2>4. NothingForgotten' = NothingForgotten  BY <2>1, SpendForgets DEF NothingForgotten
  <2>5. /\ Channel(e) \in Seq(Frame(Message)) /\ Channel(e) # << >>
        /\ Channel(e)' = Tail(Channel(e))
    BY <1>1, <2>1, <2>3, ChannelMoves DEF Channel
  <2>6. Puts(L, link'[e], {}, Channel(e), Channel(e)')
    BY <2>5, ChannelAdvances DEF Puts
  <2>7. Turns(L, link'[e], {}, {}, {})
    BY <2>1, SameTurns DEF SameSession, SameTransfer, SameReceipt
  <2>8. Step(e, {}, {}, {})
    BY <2>1, <2>3, <2>4, <2>6, <2>7, KeptTakes DEF Step, d
  <2> QED  BY <2>8
<1> QED
  BY <1>4, <1>5, <1>6, <1>7, <1>8, <1>9, <1>10, <1>11, <1>12, <1>13, <1>14

\* And so is a step that hears the first frame on the air.
LEMMA HearSteps ==
  ASSUME IInv, IInv', NEW e \in End, NEW type \in FrameTypes \cup {"NONE"}, Hear(e, type)
  PROVE  /\ Head(air[Peer(e)]) \in AnyFrame
         /\ Step(e, {Head(air[Peer(e)])}, {}, {})
<1> DEFINE d == Peer(e)
           L == link[e]
<1>1. /\ link[e] \in EndState(Message, Message)
      /\ air[e] \in Seq(Frame(Message)) /\ link[e].out_frames \in Seq(Frame(Message))
      /\ IsEnd(link[e]) /\ link[e].tx.active \in BOOLEAN
      /\ d \in End /\ d # e
      /\ DOMAIN link = End /\ DOMAIN air = End
  BY StepTypes
<1>2. air[d] \in Seq(Frame(Message)) /\ link[d].out_frames \in Seq(Frame(Message))
  BY <1>1, StepTypes
<1> HIDE DEF d
<1>3. spent' = spent => NothingForgotten' = NothingForgotten  BY DEF NothingForgotten
<1> DEFINE f == Head(air[d])
           R == handle_frame(L, f)
<1>4. /\ link' = [link EXCEPT ![e] = R] /\ air' = [air EXCEPT ![d] = Tail(@)]
      /\ air[d] # << >> /\ drawn' = drawn /\ spent' = spent
  BY DEF Hear, Becomes, d
<1>5. f \in AnyFrame  BY <1>2, <1>4 DEF Frame
<1>6. Moves(L, R, {f}, {}, {})  BY <1>1, <1>5, HandleFrameMoves
<1> HIDE DEF R
<1>7. /\ link'[e] = R /\ link'[d] = link[d] /\ air'[e] = air[e] /\ air'[d] = Tail(air[d])
  BY <1>1, <1>4
<1>8. Channel(e)' = air[e] \o R.out_frames /\ Channel(d)' = Tail(air[d]) \o link[d].out_frames
  BY <1>7 DEF Channel
<1>9. /\ Channel(d) \in Seq(Frame(Message)) /\ Channel(d) # << >> /\ f = Head(Channel(d))
      /\ Channel(d)' = Tail(Channel(d))
  <2>1. \A a, o \in Seq(Frame(Message)) :
          a # << >> => /\ Tail(a) \o o = Tail(a \o o) /\ Head(a) = Head(a \o o)
                       /\ a \o o # << >> /\ a \o o \in Seq(Frame(Message))
    BY ChannelMoves
  <2> DEFINE o == link[d].out_frames
  <2>2. /\ Tail(air[d]) \o o = Tail(air[d] \o o) /\ Head(air[d]) = Head(air[d] \o o)
        /\ air[d] \o o # << >> /\ air[d] \o o \in Seq(Frame(Message))
    BY <1>2, <1>4, <2>1
  <2> QED  BY <1>8, <2>2 DEF Channel
<1> HIDE DEF f
<1>10. Takes({f}, Channel(d), Channel(d)')  BY <1>9, ChannelAdvances DEF Takes
<1>11. Puts(L, R, {f}, Channel(e), Channel(e)')
  <2>1. \E S : Queues(L, R, S) /\ \A g \in S : Emits(L, R, {f}, g)  BY <1>6 DEF Moves
  <2> QED  BY <1>1, <1>8, <2>1, QueuedPuts DEF Channel
<1>12. Turns(L, R, {f}, {}, {})  BY <1>6 DEF Moves, Turns
<1>13. Step(e, {f}, {}, {})
  BY <1>3, <1>4, <1>7, <1>10, <1>11, <1>12 DEF Step, d
<1> QED  BY <1>5, <1>13 DEF d, f

\* Every step of the system is a step of an end.
LEMMA Steps ==
  ASSUME IInv, IInv', [Next]_vars
  PROVE  \E e \in End : \E heard \in SUBSET AnyFrame : \E ids, sends : Step(e, heard, ids, sends)
<1>1. CASE UNCHANGED vars
  <2>1. PICK e \in End : TRUE  BY EndsAssumption
  <2>2. /\ link' = link /\ drawn' = drawn \cup {} /\ NothingForgotten' = NothingForgotten
        /\ \A d : Channel(d)' = Channel(d)
    BY <1>1 DEF vars, NothingForgotten, Channel
  <2>3. Turns(link[e], link'[e], {}, {}, {})
    BY <2>2, SameTurns DEF SameSession, SameTransfer, SameReceipt
  <2>4. Step(e, {}, {}, {})  BY <2>2, <2>3, KeptTakes, KeptPuts DEF Step
  <2> QED  BY <2>4
<1>2. ASSUME NEW e \in End,
             \/ Send(e) \/ SendOpening(e) \/ SendWithoutEntropy(e)
             \/ SendBeacon(e) \/ Cancel(e) \/ Reset(e) \/ Collect(e)
             \/ Expire(e) \/ Age(e) \/ Pull(e) \/ Lose(e)
             \/ \E type \in FrameTypes \cup {"NONE"} : Hear(e, type)
      PROVE  \E heard \in SUBSET AnyFrame : \E ids, sends : Step(e, heard, ids, sends)
  <2>1. CASE \E type \in FrameTypes \cup {"NONE"} : Hear(e, type)
    <3> DEFINE heard == {Head(air[Peer(e)])}
    <3>1. heard \in SUBSET AnyFrame /\ Step(e, heard, {}, {})  BY <2>1, HearSteps
    <3> HIDE DEF heard
    <3> QED  BY <3>1
  <2>2. CASE ~\E type \in FrameTypes \cup {"NONE"} : Hear(e, type)
    <3>1. \E ids, sends : Step(e, {}, ids, sends)  BY <1>2, <2>2, ActionSteps
    <3>2. {} \in SUBSET AnyFrame  OBVIOUS
    <3> QED  BY <3>1, <3>2
  <2> QED  BY <2>1, <2>2
<1> QED  BY <1>1, <1>2 DEF Next

----------------------------------------------------------------------------
(* Sessions.                                                               *)

\* A reassembly keeps a partial ACK, the cache the final ACK of a delivery, or a beacon.
FinalOrNone(ack) == ack.type = "NONE" \/ (ack.type = "ACK" /\ ack.flag)

AckKept(L) ==
  /\ L.rx.ack_valid => L.rx.ack_cached.type = "ACK" /\ ~L.rx.ack_cached.flag
  /\ \A i \in DOMAIN L.dup_cache : FinalOrNone(L.dup_cache[i].ack)

\* The entries that Remembers leaves: the new one last, and of the others none new.
LEMMA RemembersWhat ==
  ASSUME NEW L, NEW R, L.dup_cache \in Seq(DupEntry), NEW key, Remembers(L, R, key)
  PROVE  /\ R.dup_cache # << >> /\ Len(R.dup_cache) \in DOMAIN R.dup_cache
         /\ R.dup_cache[Len(R.dup_cache)] = key
         /\ \A i \in DOMAIN R.dup_cache :
              R.dup_cache[i] = key \/ \E j \in DOMAIN L.dup_cache : R.dup_cache[i] = L.dup_cache[j]
<1> DEFINE U == DupEntry \cup {key}
           t == IF R.dup_cache = Append(L.dup_cache, key) THEN L.dup_cache ELSE Tail(L.dup_cache)
<1>1. t \in Seq(U) /\ R.dup_cache = Append(t, key) /\ key \in U
  <2>1. DupEntry \subseteq U /\ key \in U  OBVIOUS
  <2> HIDE DEF U
  <2>2. L.dup_cache \in Seq(U)  BY <2>1, SeqMonotonic
  <2>3. L.dup_cache # << >> => Tail(L.dup_cache) \in Seq(U)  BY <2>2
  <2> QED  BY <2>1, <2>2, <2>3 DEF Remembers
<1>2. \A i \in DOMAIN t : \E j \in DOMAIN L.dup_cache : t[i] = L.dup_cache[j]
  <2>1. CASE t = L.dup_cache  BY <2>1
  <2>2. CASE L.dup_cache # << >> /\ t = Tail(L.dup_cache)
    <3>1. \A i \in DOMAIN Tail(L.dup_cache) : /\ i + 1 \in DOMAIN L.dup_cache
                                            /\ Tail(L.dup_cache)[i] = L.dup_cache[i + 1]
      BY <2>2
    <3> HIDE DEF t
    <3> QED  BY <2>2, <3>1
  <2> QED  BY <2>1, <2>2 DEF Remembers
<1> HIDE DEF U, t
<1>3. /\ Len(R.dup_cache) = Len(t) + 1 /\ Len(t) \in Nat /\ DOMAIN R.dup_cache = 1 .. Len(t) + 1
      /\ R.dup_cache[Len(t) + 1] = key /\ \A i \in 1 .. Len(t) : R.dup_cache[i] = t[i]
      /\ DOMAIN t = 1 .. Len(t)
  BY <1>1
<1>4. \A i \in DOMAIN R.dup_cache : i = Len(t) + 1 \/ i \in DOMAIN t  BY <1>3
<1>5. R.dup_cache # << >>  BY <1>1
<1> QED  BY <1>2, <1>3, <1>4, <1>5

\* A turn leaves ACKs and beacons in the cache.
LEMMA AckKeptTurns ==
  ASSUME NEW L, NEW R, L.dup_cache \in Seq(DupEntry), AckKept(L), NEW heard,
         MovesReceipt(L, R, heard)
  PROVE  AckKept(R)
<1>1. NoRx.ack_valid = FALSE /\ ZeroFrame.type = "NONE"  BY DEF NoRx, ZeroFrame
<1>2. CASE Idles(L, R)  BY <1>1, <1>2 DEF Idles, AckKept
<1>3. CASE Leaves(L, R, heard)  BY <1>1, <1>3 DEF Leaves, AckKept
<1>4. CASE Reassembles(L, R, heard)  BY <1>4 DEF Reassembles, AckKept
<1>5. CASE Delivers(L, R, heard)
  <2>1. PICK key : key.ack.type = "ACK" /\ key.ack.flag /\ R.rx = NoRx /\ Remembers(L, R, key)
    BY <1>5 DEF Delivers
  <2>2. \A i \in DOMAIN R.dup_cache :
          R.dup_cache[i] = key \/ \E j \in DOMAIN L.dup_cache : R.dup_cache[i] = L.dup_cache[j]
    BY <2>1, RemembersWhat
  <2>3. \A i \in DOMAIN R.dup_cache : FinalOrNone(R.dup_cache[i].ack)
    BY <2>1, <2>2 DEF AckKept, FinalOrNone
  <2> QED  BY <1>1, <2>1, <2>3 DEF AckKept
<1>6. CASE TakesBeacon(L, R, heard)
  <2>1. PICK key : key.ack = ZeroFrame /\ R.rx = L.rx /\ Remembers(L, R, key)
    BY <1>6 DEF TakesBeacon
  <2>2. \A i \in DOMAIN R.dup_cache :
          R.dup_cache[i] = key \/ \E j \in DOMAIN L.dup_cache : R.dup_cache[i] = L.dup_cache[j]
    BY <2>1, RemembersWhat
  <2>3. \A i \in DOMAIN R.dup_cache : FinalOrNone(R.dup_cache[i].ack)
    BY <1>1, <2>1, <2>2 DEF AckKept, FinalOrNone
  <2> QED  BY <2>1, <2>3 DEF AckKept
<1>7. CASE Collects(L, R)  BY <1>7 DEF Collects, AckKept
<1> QED  BY <1>2, <1>3, <1>4, <1>5, <1>6, <1>7 DEF MovesReceipt

\* An end that forgets keeps no ACK of a reassembly.
LEMMA AckKeptForgets ==
  ASSUME NEW L, NEW R, AckKept(L), Forgets(L, R)
  PROVE  AckKept(R)
<1>1. NoRx.ack_valid = FALSE  BY DEF NoRx
<1> QED  BY <1>1 DEF Forgets, AckKept

\* Of the frames that open a session, an end queues a HELLO of the session it asks for,
\* and its HELLO_ACK.
LEMMA EmitsHello ==
  ASSUME NEW L, NEW R, AckKept(L), AckKept(R), NEW heard, NEW g, Emits(L, R, heard, g)
  PROVE  /\ g.type = "HELLO" =>
              \/ /\ R.hello_pending /\ g.session_id = R.session_id
                 /\ kal_capability_window(g.value) = R.window
              \/ R.hello_ack_valid /\ g = R.hello_ack_cached
         /\ g.type = "HELLO_ACK" => R.hello_ack_valid /\ g = R.hello_ack_cached
BY DEF Emits, AckKept, FinalOrNone, Carries

\* What is known of one end, and of what it has sent, whatever the other does.  own is
\* the window it offers, common the smaller of the two, ids the session ids drawn.
Alone(L, c, role, own, common, ids) ==
  /\ AckKept(L)
  /\ L.role = role
  /\ role = "responder" => ~L.hello_pending
  /\ L.session_open \/ L.hello_pending => L.session_id \in ids
  /\ ~(L.session_open /\ L.hello_pending)
  /\ L.window \in {own, common}
  /\ L.session_open => L.window = common
  /\ L.hello_ack_valid => /\ L.session_open /\ L.hello_ack_cached.type = "HELLO_ACK"
                          /\ L.hello_ack_cached.session_id = L.session_id
                          /\ kal_capability_window(L.hello_ack_cached.value) = common
  /\ \A g : Has(c, g) /\ g.type = "HELLO" =>
       /\ role = "initiator" /\ g.session_id \in ids
       /\ kal_capability_window(g.value) \in {own, common}
  /\ \A g : Has(c, g) /\ g.type = "HELLO_ACK" =>
       g.session_id \in ids /\ kal_capability_window(g.value) = common

\* The smaller of two windows.
Smaller(x, y) == IF x < y THEN x ELSE y

\* What Narrowed makes of a window of either end.
LEMMA NarrowedCommon ==
  ASSUME NEW L, NEW f, NEW own, NEW other,
         own \in KAL_MIN_WINDOW_FRAMES .. KAL_MAX_WINDOW_FRAMES,
         other \in KAL_MIN_WINDOW_FRAMES .. KAL_MAX_WINDOW_FRAMES,
         L.window \in {own, Smaller(own, other)},
         kal_capability_window(f.value) \in {other, Smaller(own, other)}
  PROVE  Narrowed(L, f) = Smaller(own, other)
BY DEF Narrowed, Smaller, clamp_window, KAL_MIN_WINDOW_FRAMES, KAL_MAX_WINDOW_FRAMES

\* A step keeps what is known of the end that takes it.
LEMMA AloneSteps ==
  ASSUME NEW L \in EndState(Message, Message), NEW R, NEW M, NEW c, NEW c1, NEW k, NEW k1,
         NEW heard, NEW sends, NEW ids, NEW new, NEW role, NEW peer,
         NEW own \in KAL_MIN_WINDOW_FRAMES .. KAL_MAX_WINDOW_FRAMES,
         NEW other \in KAL_MIN_WINDOW_FRAMES .. KAL_MAX_WINDOW_FRAMES,
         role \in {"initiator", "responder"},
         Alone(L, c, role, own, Smaller(own, other), ids),
         Alone(M, k, peer, other, Smaller(own, other), ids),
         Takes(heard, k, k1), Puts(L, R, heard, c, c1),
         Turns(L, R, heard, new, sends) \/ Forgets(L, R)
  PROVE  Alone(R, c1, role, own, Smaller(own, other), ids \cup new)
<1> DEFINE common == Smaller(own, other)
<1>1. AckKept(R)
  <2>1. L.dup_cache \in Seq(DupEntry)  BY DEF EndState
  <2> QED  BY <2>1, AckKeptTurns, AckKeptForgets DEF Alone, Turns
<1>2. \A f \in heard : f.type = "HELLO" =>
        /\ f.session_id \in ids /\ Narrowed(L, f) = common
  <2> SUFFICES ASSUME NEW f \in heard, f.type = "HELLO"
               PROVE  f.session_id \in ids /\ Narrowed(L, f) = common
    OBVIOUS
  <2>1. f.session_id \in ids /\ kal_capability_window(f.value) \in {other, common}
    BY DEF Takes, Alone
  <2>2. L.window \in {own, common}  BY DEF Alone
  <2> QED  BY <2>1, <2>2, NarrowedCommon
<1>3. \A f \in heard : f.type = "HELLO_ACK" => Narrowed(L, f) = common
  <2> SUFFICES ASSUME NEW f \in heard, f.type = "HELLO_ACK"
               PROVE  Narrowed(L, f) = common
    OBVIOUS
  <2>1. kal_capability_window(f.value) \in {other, common}  BY DEF Takes, Alone
  <2>2. L.window \in {own, common}  BY DEF Alone
  <2> QED  BY <2>1, <2>2, NarrowedCommon
<1> HIDE DEF common
<1> DEFINE Kept(X, i) ==
             /\ X.role = role
             /\ role = "responder" => ~X.hello_pending
             /\ X.session_open \/ X.hello_pending => X.session_id \in i
             /\ ~(X.session_open /\ X.hello_pending)
             /\ X.window \in {own, common}
             /\ X.session_open => X.window = common
             /\ X.hello_ack_valid => /\ X.session_open /\ X.hello_ack_cached.type = "HELLO_ACK"
                                     /\ X.hello_ack_cached.session_id = X.session_id
                                     /\ kal_capability_window(X.hello_ack_cached.value) = common
<1>4. Kept(L, ids)  BY DEF Alone, common
<1>5. Kept(R, ids \cup new)
  <2>1. CASE SameSession(L, R)  BY <1>4, <2>1 DEF SameSession
  <2>2. CASE Resets(L, R)  BY <1>4, <2>2 DEF Resets
  <2>3. CASE Draws(L, R, new)  BY <1>4, <2>3 DEF Draws, SameWindow, SameHelloAck
  <2>4. CASE GivesUp(L, R)  BY <1>4, <2>4 DEF GivesUp, SameWindow, SameHelloAck
  <2>5. CASE Joins(L, R, heard)  BY <1>2, <1>4, <2>5 DEF Joins
  <2>6. CASE Opens(L, R, heard)  BY <1>3, <1>4, <2>6 DEF Opens, SameHelloAck
  <2> QED  BY <2>1, <2>2, <2>3, <2>4, <2>5, <2>6 DEF Turns, MovesSession, Forgets
<1>6. \A g : Has(c1, g) => Has(c, g) \/ Emits(L, R, heard, g)  BY DEF Puts
<1>7. AckKept(L)  BY DEF Alone
<1>8. \A g : Has(c1, g) /\ g.type = "HELLO" =>
       /\ role = "initiator" /\ g.session_id \in ids \cup new
       /\ kal_capability_window(g.value) \in {own, common}
  <2> SUFFICES ASSUME NEW g, Has(c1, g), g.type = "HELLO"
               PROVE  /\ role = "initiator" /\ g.session_id \in ids \cup new
                      /\ kal_capability_window(g.value) \in {own, common}
    OBVIOUS
  <2>1. CASE Has(c, g)  BY <2>1 DEF Alone, common
  <2>2. CASE Emits(L, R, heard, g)
    <3>1. /\ R.hello_pending /\ g.session_id = R.session_id
          /\ kal_capability_window(g.value) = R.window
      <4>1. \/ /\ R.hello_pending /\ g.session_id = R.session_id
               /\ kal_capability_window(g.value) = R.window
            \/ R.hello_ack_valid /\ g = R.hello_ack_cached
        BY <1>1, <1>7, <2>2, EmitsHello
      <4> QED  BY <1>5, <4>1
    <3> QED  BY <1>5, <3>1
  <2> QED  BY <1>6, <2>1, <2>2
<1>9. \A g : Has(c1, g) /\ g.type = "HELLO_ACK" =>
       g.session_id \in ids \cup new /\ kal_capability_window(g.value) = common
  <2> SUFFICES ASSUME NEW g, Has(c1, g), g.type = "HELLO_ACK"
               PROVE  g.session_id \in ids \cup new /\ kal_capability_window(g.value) = common
    OBVIOUS
  <2>1. CASE Has(c, g)  BY <2>1 DEF Alone, common
  <2>2. CASE Emits(L, R, heard, g)
    <3>1. R.hello_ack_valid /\ g = R.hello_ack_cached  BY <1>1, <1>7, <2>2, EmitsHello
    <3> QED  BY <1>5, <3>1
  <2> QED  BY <1>6, <2>1, <2>2
<1> QED  BY <1>1, <1>5, <1>8, <1>9 DEF Alone, common

\* And of the end that does not.
LEMMA AloneWaits ==
  ASSUME NEW M, NEW k, NEW k1, NEW heard, NEW role, NEW own, NEW common, NEW ids, NEW new,
         Alone(M, k, role, own, common, ids), Takes(heard, k, k1)
  PROVE  Alone(M, k1, role, own, common, ids \cup new)
<1>1. \A g : Has(k1, g) => Has(k, g)  BY DEF Takes
<1>2. AckKept(M) /\ M.role = role  BY DEF Alone
<1>3. \A g : Has(k1, g) /\ g.type = "HELLO" =>
       /\ role = "initiator" /\ g.session_id \in ids \cup new
       /\ kal_capability_window(g.value) \in {own, common}
  BY <1>1 DEF Alone
<1>4. \A g : Has(k1, g) /\ g.type = "HELLO_ACK" =>
       g.session_id \in ids \cup new /\ kal_capability_window(g.value) = common
  BY <1>1 DEF Alone
<1> QED  BY <1>3, <1>4 DEF Alone

\* What an initiator i and a responder r agree on.  An initiator's HELLOs ask for its
\* latest session last; once r has answered it, they ask for no other, and r is in
\* no other.
Answered(i, k) == \E g : Has(k, g) /\ g.type = "HELLO_ACK" /\ g.session_id = i.session_id

Agree(i, c, r, k) ==
  /\ \A g, h : HasBehind(c, g, h) /\ g.type = "HELLO" /\ h.type = "HELLO"
               /\ g.session_id = i.session_id => h.session_id = i.session_id
  /\ \/ i.session_open \/ Answered(i, k)
     \/ r.session_open /\ r.session_id = i.session_id
     => \A g : Has(c, g) /\ g.type = "HELLO" => g.session_id = i.session_id
  /\ (i.session_open \/ Answered(i, k)) /\ r.session_open => r.session_id = i.session_id

\* Behind means in.
LEMMA BehindHas == \A c, g, h : HasBehind(c, g, h) => Has(c, g) /\ Has(c, h)
BY DEF HasBehind, Has

\* A step of the initiator.
LEMMA AgreeInitiator ==
  ASSUME NEW L, NEW R, NEW M, NEW c, NEW c1, NEW k, NEW k1, NEW heard, NEW sends,
         NEW ids, NEW new, 0 \notin ids \cup new, ids \cap new = {},
         NEW own, NEW other, NEW common,
         Alone(L, c, "initiator", own, common, ids), Alone(M, k, "responder", other, common, ids),
         Alone(R, c1, "initiator", own, common, ids \cup new),
         Agree(L, c, M, k),
         Takes(heard, k, k1), Puts(L, R, heard, c, c1),
         Turns(L, R, heard, new, sends) \/ Forgets(L, R)
  PROVE  Agree(R, c1, M, k1)
<1>1. \A g : Has(c1, g) /\ g.type = "HELLO" =>
        (Has(c, g) /\ g.session_id \in ids) \/ g.session_id = R.session_id
  <2> SUFFICES ASSUME NEW g, Has(c1, g), g.type = "HELLO"
               PROVE  (Has(c, g) /\ g.session_id \in ids) \/ g.session_id = R.session_id
    OBVIOUS
  <2>1. Has(c, g) \/ Emits(L, R, heard, g)  BY DEF Puts
  <2>2. CASE Has(c, g)  BY <2>2 DEF Alone
  <2>3. CASE Emits(L, R, heard, g)
    <3>1. AckKept(L) /\ AckKept(R)  BY DEF Alone
    <3>2. g.session_id = R.session_id \/ (R.hello_ack_valid /\ g = R.hello_ack_cached)
      BY <2>3, <3>1, EmitsHello
    <3> QED  BY <3>2 DEF Alone
  <2> QED  BY <2>1, <2>2, <2>3
<1>2. \A g, h : HasBehind(c1, g, h) /\ h.type = "HELLO" =>
        HasBehind(c, g, h) \/ h.session_id = R.session_id
  <2> SUFFICES ASSUME NEW g, NEW h, HasBehind(c1, g, h), h.type = "HELLO"
               PROVE  HasBehind(c, g, h) \/ h.session_id = R.session_id
    OBVIOUS
  <2>1. HasBehind(c, g, h) \/ Emits(L, R, heard, h)  BY DEF Puts
  <2>2. CASE Emits(L, R, heard, h)
    <3>1. AckKept(L) /\ AckKept(R)  BY DEF Alone
    <3>2. h.session_id = R.session_id \/ (R.hello_ack_valid /\ h = R.hello_ack_cached)
      BY <2>2, <3>1, EmitsHello
    <3> QED  BY <3>2 DEF Alone
  <2> QED  BY <2>1, <2>2
<1>3. \A g : Has(k1, g) /\ g.type = "HELLO_ACK" => Has(k, g) /\ g.session_id \in ids
  BY DEF Takes, Alone
<1>4. M.session_open => M.session_id \in ids  BY DEF Alone
<1>5. CASE R.session_id = L.session_id /\ (R.session_open => L.session_open \/ Answered(L, k))
  <2>1. Answered(R, k1) => Answered(L, k)  BY <1>3, <1>5 DEF Answered
  <2>2. \A g, h : HasBehind(c1, g, h) /\ g.type = "HELLO" /\ h.type = "HELLO"
               /\ g.session_id = R.session_id => h.session_id = R.session_id
    BY <1>2, <1>5 DEF Agree
  <2>3. \/ R.session_open \/ Answered(R, k1)
        \/ M.session_open /\ M.session_id = R.session_id
        => \A g : Has(c1, g) /\ g.type = "HELLO" => g.session_id = R.session_id
    BY <1>1, <1>5, <2>1 DEF Agree
  <2>4. (R.session_open \/ Answered(R, k1)) /\ M.session_open => M.session_id = R.session_id
    BY <1>5, <2>1 DEF Agree
  <2> QED  BY <2>2, <2>3, <2>4 DEF Agree
<1>6. CASE ~R.session_open /\ R.session_id \notin ids
  <2>1. ~Answered(R, k1)  BY <1>3, <1>6 DEF Answered
  <2>2. \A g, h : HasBehind(c1, g, h) /\ g.type = "HELLO" /\ h.type = "HELLO"
               /\ g.session_id = R.session_id => h.session_id = R.session_id
    <3> SUFFICES ASSUME NEW g, NEW h, HasBehind(c1, g, h), g.type = "HELLO", h.type = "HELLO",
                        g.session_id = R.session_id, HasBehind(c, g, h)
                 PROVE  FALSE
      BY <1>2
    <3>1. Has(c, g)  BY BehindHas
    <3> QED  BY <1>6, <3>1 DEF Alone
  <2> QED  BY <1>4, <1>6, <2>1, <2>2 DEF Agree
<1>7. \A f \in heard : f.type # "HELLO"  BY DEF Takes, Alone
<1>8. CASE SameSession(L, R)  BY <1>5, <1>8 DEF SameSession
<1>9. CASE Resets(L, R)  BY <1>6, <1>9 DEF Resets
<1>10. CASE Draws(L, R, new)  BY <1>6, <1>10 DEF Draws
<1>11. CASE GivesUp(L, R)  BY <1>5, <1>11 DEF GivesUp
<1>12. CASE Joins(L, R, heard)  BY <1>7, <1>12 DEF Joins
<1>13. CASE Opens(L, R, heard)
  <2>1. Answered(L, k)  BY <1>13 DEF Opens, Answered, Takes
  <2> QED  BY <1>5, <1>13, <2>1 DEF Opens
<1> QED  BY <1>8, <1>9, <1>10, <1>11, <1>12, <1>13 DEF Turns, MovesSession, Forgets

\* A step of the responder.
LEMMA AgreeResponder ==
  ASSUME NEW L, NEW R, NEW M, NEW c, NEW c1, NEW k, NEW k1, NEW heard, NEW sends,
         NEW ids, NEW new, NEW own, NEW other, NEW common,
         Alone(L, c, "responder", own, common, ids), Alone(M, k, "initiator", other, common, ids),
         Alone(R, c1, "responder", own, common, ids \cup new),
         Agree(M, k, L, c),
         Takes(heard, k, k1), Puts(L, R, heard, c, c1),
         Turns(L, R, heard, new, sends) \/ Forgets(L, R)
  PROVE  Agree(M, k1, R, c1)
<1>1. \A g : Has(k1, g) => Has(k, g)  BY DEF Takes
<1>2. \A g, h : HasBehind(k1, g, h) /\ g.type = "HELLO" /\ h.type = "HELLO"
               /\ g.session_id = M.session_id => h.session_id = M.session_id
  BY DEF Takes, Agree
<1>3. Answered(M, c1) => Answered(M, c) \/ (R.session_open /\ R.session_id = M.session_id)
  <2> SUFFICES ASSUME NEW g, Has(c1, g), g.type = "HELLO_ACK", g.session_id = M.session_id
               PROVE  Answered(M, c) \/ (R.session_open /\ R.session_id = M.session_id)
    BY DEF Answered
  <2>1. Has(c, g) \/ Emits(L, R, heard, g)  BY DEF Puts
  <2>2. CASE Emits(L, R, heard, g)
    <3>1. AckKept(L) /\ AckKept(R)  BY DEF Alone
    <3>2. R.hello_ack_valid /\ g = R.hello_ack_cached  BY <2>2, <3>1, EmitsHello
    <3> QED  BY <3>2 DEF Alone
  <2> QED  BY <2>1, <2>2 DEF Answered
<1>4. CASE R.session_open => L.session_open /\ R.session_id = L.session_id
  <2>1. \/ M.session_open \/ Answered(M, c1)
        \/ R.session_open /\ R.session_id = M.session_id
        => \A g : Has(k1, g) /\ g.type = "HELLO" => g.session_id = M.session_id
    BY <1>1, <1>3, <1>4 DEF Agree
  <2>2. (M.session_open \/ Answered(M, c1)) /\ R.session_open => R.session_id = M.session_id
    BY <1>3, <1>4 DEF Agree
  <2> QED  BY <1>2, <2>1, <2>2 DEF Agree
<1>5. CASE Joins(L, R, heard)
  <2>1. PICK f \in heard : f.type = "HELLO" /\ R.session_open /\ R.session_id = f.session_id
    BY <1>5 DEF Joins
  <2>2. Has(k, f) /\ \A g : Has(k1, g) => HasBehind(k, f, g)  BY DEF Takes
  <2>3. M.session_open \/ Answered(M, c) => f.session_id = M.session_id
    BY <2>1, <2>2 DEF Agree
  <2>4. f.session_id = M.session_id =>
          \A g : Has(k1, g) /\ g.type = "HELLO" => g.session_id = M.session_id
    BY <2>1, <2>2 DEF Agree
  <2>5. (M.session_open \/ Answered(M, c1)) => R.session_id = M.session_id
    BY <1>3, <2>1, <2>3
  <2> QED  BY <1>2, <2>1, <2>4, <2>5 DEF Agree
<1>6. L.role = "responder" /\ ~L.hello_pending  BY DEF Alone
<1> QED
  BY <1>4, <1>5, <1>6
  DEF Turns, MovesSession, Forgets, SameSession, Resets, Draws, GivesUp, Opens

\* The smaller of the two windows, which both ends use once they are in session.
CommonWindow(e) == Smaller(clamp_window(Window[e]), clamp_window(Window[Peer(e)]))

Sessions ==
  /\ \A e \in End : Alone(link[e], Channel(e), Role[e], clamp_window(Window[e]), CommonWindow(e), drawn)
  /\ \A i, r \in End : Role[i] = "initiator" /\ Role[r] = "responder" =>
       Agree(link[i], Channel(i), link[r], Channel(r))
  /\ \A e \in End : Role[e] = "responder" /\ Role[Peer(e)] = "responder" => ~link[e].session_open

\* Windows are within the limits of the code, and their smaller one is one for both.
LEMMA WindowFacts ==
  ASSUME NEW e \in End
  PROVE  /\ clamp_window(Window[e]) \in KAL_MIN_WINDOW_FRAMES .. KAL_MAX_WINDOW_FRAMES
         /\ CommonWindow(Peer(e)) = CommonWindow(e)
         /\ Role[e] \in {"initiator", "responder"}
<1>1. \A d \in End : clamp_window(Window[d]) \in KAL_MIN_WINDOW_FRAMES .. KAL_MAX_WINDOW_FRAMES
  BY OptionsAssumption DEF clamp_window, KAL_MIN_WINDOW_FRAMES, KAL_MAX_WINDOW_FRAMES
<1>2. Peer(e) \in End /\ Peer(Peer(e)) = e  BY PeerType
<1>3. CommonWindow(Peer(e)) = CommonWindow(e)
  BY <1>1, <1>2 DEF CommonWindow, Smaller, KAL_MIN_WINDOW_FRAMES, KAL_MAX_WINDOW_FRAMES
<1> QED  BY <1>1, <1>3, OptionsAssumption

\* Nothing is open, queued or on the air at first.
LEMMA InitSessions == Init => Sessions
<1> SUFFICES ASSUME Init PROVE Sessions
  OBVIOUS
<1>1. \A e \in End : link[e] = kal_link_create(e) /\ air[e] = << >>  BY DEF Init
<1>2. \A e \in End : /\ link[e].role = Role[e] /\ link[e].window = clamp_window(Window[e])
                     /\ ~link[e].session_open /\ ~link[e].hello_pending /\ ~link[e].hello_ack_valid
                     /\ link[e].rx = NoRx /\ link[e].dup_cache = << >> /\ link[e].out_frames = << >>
  <2>1. \A e \in End : LET L == kal_link_create(e) IN
          /\ L.role = Role[e] /\ L.window = clamp_window(Window[e])
          /\ L.session_open = FALSE /\ L.hello_pending = FALSE /\ L.hello_ack_valid = FALSE
          /\ L.rx = NoRx /\ L.dup_cache = << >> /\ L.out_frames = << >>
    BY DEF kal_link_create
  <2> QED  BY <1>1, <2>1
<1>3. \A e \in End : Channel(e) = << >>  BY <1>1, <1>2 DEF Channel
<1>4. \A g, h : ~Has(<< >>, g) /\ ~HasBehind(<< >>, g, h)  BY DEF Has, HasBehind
<1>5. ~NoRx.ack_valid  BY DEF NoRx
<1>6. \A e \in End : AckKept(link[e])  BY <1>2, <1>5 DEF AckKept
<1>7. ASSUME NEW e \in End
      PROVE  Alone(link[e], Channel(e), Role[e], clamp_window(Window[e]), CommonWindow(e), drawn)
  BY <1>2, <1>3, <1>4, <1>6 DEF Alone
<1>8. ASSUME NEW i \in End, NEW r \in End PROVE Agree(link[i], Channel(i), link[r], Channel(r))
  BY <1>2, <1>3, <1>4 DEF Agree, Answered
<1> QED  BY <1>2, <1>7, <1>8 DEF Sessions

\* Every step of an end keeps the sessions in agreement.
LEMMA StepSessions ==
  ASSUME IInv, IInv', Sessions, NEW e \in End, NEW heard, NEW ids, NEW sends,
         Step(e, heard, ids, sends)
  PROVE  Sessions'
<1> DEFINE d == Peer(e)
           L == link[e]
           R == link'[e]
           M == link[d]
           c == Channel(e)
           c1 == Channel(e)'
           k == Channel(d)
           k1 == Channel(d)'
           own == clamp_window(Window[e])
           other == clamp_window(Window[d])
           common == Smaller(own, other)
<1>1. /\ d \in End /\ d # e /\ \A x \in End : x = e \/ x = d
      /\ Peer(d) = e /\ L \in EndState(Message, Message)
  BY StepTypes, PeerType
<1>2. /\ own \in KAL_MIN_WINDOW_FRAMES .. KAL_MAX_WINDOW_FRAMES
      /\ other \in KAL_MIN_WINDOW_FRAMES .. KAL_MAX_WINDOW_FRAMES
      /\ CommonWindow(e) = common /\ CommonWindow(d) = common
      /\ Role[e] \in {"initiator", "responder"} /\ Role[d] \in {"initiator", "responder"}
  BY <1>1, WindowFacts DEF CommonWindow
<1>3. /\ M = link'[d] /\ Takes(heard, k, k1) /\ Puts(L, R, heard, c, c1)
      /\ ids \subseteq SessionIds \ drawn /\ drawn' = drawn \cup ids
      /\ Turns(L, R, heard, ids, sends) \/ Forgets(L, R)
  BY DEF Step
<1>4. 0 \notin drawn \cup ids /\ drawn \cap ids = {}
  <2>1. drawn \subseteq SessionIds /\ 0 \notin SessionIds  BY DataAssumption DEF IInv
  <2> QED  BY <1>3, <2>1
<1>5. /\ Alone(L, c, Role[e], own, common, drawn) /\ Alone(M, k, Role[d], other, common, drawn)
      /\ Role[e] = "initiator" /\ Role[d] = "responder" => Agree(L, c, M, k)
      /\ Role[d] = "initiator" /\ Role[e] = "responder" => Agree(M, k, L, c)
      /\ Role[d] = "responder" /\ Role[e] = "responder" => ~L.session_open /\ ~M.session_open
  BY <1>1, <1>2 DEF Sessions
<1> HIDE DEF d, L, R, M, c, c1, k, k1, own, other
<1>6. Alone(R, c1, Role[e], own, common, drawn \cup ids)
  BY <1>1, <1>2, <1>3, <1>5, AloneSteps
<1>7. Alone(M, k1, Role[d], other, common, drawn \cup ids)
  BY <1>3, <1>5, AloneWaits
<1>8. Role[e] = "initiator" /\ Role[d] = "responder" => Agree(R, c1, M, k1)
  <2> SUFFICES ASSUME Role[e] = "initiator", Role[d] = "responder" PROVE Agree(R, c1, M, k1)
    OBVIOUS
  <2>1. /\ Alone(L, c, "initiator", own, common, drawn) /\ Alone(M, k, "responder", other, common, drawn)
        /\ Alone(R, c1, "initiator", own, common, drawn \cup ids) /\ Agree(L, c, M, k)
    BY <1>5, <1>6
  <2> QED  BY <1>3, <1>4, <2>1, AgreeInitiator
<1>9. Role[d] = "initiator" /\ Role[e] = "responder" => Agree(M, k1, R, c1)
  <2> SUFFICES ASSUME Role[d] = "initiator", Role[e] = "responder" PROVE Agree(M, k1, R, c1)
    OBVIOUS
  <2>1. /\ Alone(L, c, "responder", own, common, drawn) /\ Alone(M, k, "initiator", other, common, drawn)
        /\ Alone(R, c1, "responder", own, common, drawn \cup ids) /\ Agree(M, k, L, c)
    BY <1>5, <1>6
  <2> QED  BY <1>3, <2>1, AgreeResponder
<1>10. Role[d] = "responder" /\ Role[e] = "responder" => ~R.session_open /\ ~M.session_open
  <2> SUFFICES ASSUME Role[d] = "responder", Role[e] = "responder" PROVE ~R.session_open
    BY <1>5
  <2>1. \A f \in heard : f.type # "HELLO"  BY <1>3, <1>5 DEF Takes, Alone
  <2>2. ~L.session_open /\ ~L.hello_pending /\ L.role = "responder"  BY <1>5 DEF Alone
  <2> QED
    BY <1>3, <2>1, <2>2
    DEF Turns, MovesSession, Forgets, SameSession, Resets, Draws, GivesUp, Joins, Opens
<1>11. /\ Alone(R, c1, Role[e], own, CommonWindow(e), drawn')
       /\ Alone(M, k1, Role[d], other, CommonWindow(d), drawn')
  BY <1>2, <1>3, <1>6, <1>7
<1> DEFINE P(x) == Alone(link[x], Channel(x), Role[x], clamp_window(Window[x]), CommonWindow(x), drawn)'
           A(i, r) == Agree(link[i], Channel(i), link[r], Channel(r))'
<1>12. P(e) /\ P(d)
  <2>1. P(e)  BY <1>11 DEF R, c1, own
  <2>2. P(d)  BY <1>3, <1>11 DEF M, k1, other
  <2> QED  BY <2>1, <2>2
<1>13. \A x \in End : P(x)
  <2> HIDE DEF P
  <2> QED  BY <1>1, <1>12
<1>14. ASSUME NEW i \in End, NEW r \in End, Role[i] = "initiator", Role[r] = "responder"
       PROVE  A(i, r)
  <2>1. (i = e /\ r = d) \/ (i = d /\ r = e)  BY <1>1, <1>14
  <2>2. CASE i = e /\ r = d  BY <1>3, <1>8, <1>14, <2>2 DEF R, c1, M, k1
  <2>3. CASE i = d /\ r = e  BY <1>3, <1>9, <1>14, <2>3 DEF R, c1, M, k1
  <2> QED  BY <2>1, <2>2, <2>3
<1>15. ASSUME NEW x \in End, Role[x] = "responder", Role[Peer(x)] = "responder"
       PROVE  ~link'[x].session_open
  <2>1. (x = e /\ Peer(x) = d) \/ (x = d /\ Peer(x) = e)  BY <1>1 DEF d
  <2> QED  BY <1>3, <1>10, <1>15, <2>1 DEF R, M
<1> QED  BY <1>13, <1>14, <1>15 DEF Sessions

\* In every reachable state each end uses the smaller of the two windows, has a session id
\* that was drawn, and holds a cached HELLO_ACK of that session only (handle_hello, kal_link.c);
\* an initiator and a responder that are both in session are in the same one, and every
\* HELLO_ACK still in flight says so.  Any loss, reset, cancel or beacon included.
THEOREM SessionsHold == Spec => [](IInv /\ Sessions)
<1>1. Init => IInv /\ Sessions  BY InitInv, InitSessions
<1>2. IInv /\ Sessions /\ [Next]_vars => (IInv /\ Sessions)'
  <2> SUFFICES ASSUME IInv, Sessions, [Next]_vars PROVE IInv' /\ Sessions'
    OBVIOUS
  <2>1. IInv'  BY NextInv
  <2>2. PICK e \in End : \E heard \in SUBSET AnyFrame : \E ids, sends : Step(e, heard, ids, sends)
    BY <2>1, Steps
  <2> QED  BY <2>1, <2>2, StepSessions
<1> QED  BY <1>1, <1>2, PTL DEF Spec

\* Two ends in session have one session id and one window, whatever was lost and whoever
\* reset (handle_hello and handle_hello_ack).  One of them has to be a responder: two initiators
\* lose this when one forgets its session and calls again.
THEOREM SessionsAgree ==
  ASSUME \E e \in End : Role[e] = "responder"
  PROVE  Spec => []OneSession
<1>1. Sessions => OneSession
  <2> SUFFICES ASSUME Sessions, NEW e \in End, NEW d \in End,
                      link[e].session_open, link[d].session_open
               PROVE  /\ link[e].session_id = link[d].session_id
                      /\ link[e].window = link[d].window
    BY DEF OneSession
  <2>1. d = e \/ d = Peer(e)  BY PeerType
  <2>2. CASE d = e  BY <2>2
  <2>3. CASE d = Peer(e)
    <3>1. /\ Peer(d) = e /\ CommonWindow(d) = CommonWindow(e)
          /\ Role[e] \in {"initiator", "responder"} /\ Role[d] \in {"initiator", "responder"}
      BY <2>3, PeerType, WindowFacts
    <3>2. link[e].window = CommonWindow(e) /\ link[d].window = CommonWindow(d)
      BY DEF Sessions, Alone
    <3>3. Role[e] = "responder" \/ Role[d] = "responder"  BY <2>3, PeerType
    <3>4. ~(Role[e] = "responder" /\ Role[d] = "responder")  BY <2>3 DEF Sessions
    <3>5. link[e].session_id = link[d].session_id  BY <3>1, <3>3, <3>4 DEF Sessions, Agree
    <3> QED  BY <3>1, <3>2, <3>5
  <2> QED  BY <2>1, <2>2, <2>3
<1> QED  BY <1>1, SessionsHold, PTL

----------------------------------------------------------------------------
(* What kal_tx_status tells.                                               *)

\* An end that has a transfer, or says how the last one ended.
Told(L) == ~Untold(L)

\* The shape of an end and of its transfer.
Fields(L) == <<DOMAIN L, DOMAIN L.tx>>

\* Neither the status nor whether there is a transfer changes.
TellsAlike(L, R) ==
  /\ Fields(R) = Fields(L)
  /\ R.tx_status = L.tx_status /\ R.tx.active = L.tx.active

\* What an end tells does not change then,
LEMMA ToldAlike ==
  ASSUME NEW L, NEW R, Told(L), TellsAlike(L, R)
  PROVE  Told(R)
BY DEF Told, Untold, TellsAlike

\* nor in two such steps.
LEMMA AlikeTwice ==
  ASSUME NEW L, NEW M, NEW R, TellsAlike(L, M), TellsAlike(M, R)
  PROVE  TellsAlike(L, R)
BY DEF TellsAlike

\* The shape of a struct kal_link.
HasFields(L) ==
  Fields(L) = << {"role", "profile", "window", "accepts", "session_open", "hello_pending",
                  "session_id", "challenge", "next_message_id", "hello_ack_valid",
                  "hello_ack_cached", "hello_retries", "tx", "tx_status", "deadline_set", "rx",
                  "dup_cache", "delivered", "out_frames", "submitted", "stats"},
                 {"active", "started", "message_id", "total", "base", "retries", "payload",
                  "acked", "inflight"} >>

\* The helpers that queue, and those of the receive path, tell nothing.
LEMMA HelpersTell ==
  ASSUME NEW L, HasFields(L)
  PROVE  /\ TellsAlike(L, L)
         /\ \A f : TellsAlike(L, queue_frame(L, f))
         /\ \A rx : TellsAlike(L, [L EXCEPT !.rx = rx])
         /\ \A c : TellsAlike(L, [L EXCEPT !.dup_cache = c])
         /\ \A b, s : TellsAlike(L, [L EXCEPT !.delivered = b, !.stats = s])
         /\ \A b : TellsAlike(L, [L EXCEPT !.delivered = b])
         /\ \A o : TellsAlike(L, [L EXCEPT !.out_frames = o])
         /\ \A b : TellsAlike(L, [L EXCEPT !.deadline_set = b])
<1>1. TellsAlike(L, L)  BY DEF TellsAlike
<1>2. \A o : TellsAlike(L, [L EXCEPT !.out_frames = o])
  BY DEF TellsAlike, Fields, HasFields
<1>3. \A f : TellsAlike(L, queue_frame(L, f))
  <2>1. \A f : \/ queue_frame(L, f) = L
               \/ queue_frame(L, f) = [L EXCEPT !.out_frames = Append(L.out_frames, f)]
    BY DEF queue_frame
  <2> QED  BY <1>1, <1>2, <2>1
<1>4. \A rx : TellsAlike(L, [L EXCEPT !.rx = rx])  BY DEF TellsAlike, Fields, HasFields
<1>5. \A c : TellsAlike(L, [L EXCEPT !.dup_cache = c])  BY DEF TellsAlike, Fields, HasFields
<1>6. /\ \A b, s : TellsAlike(L, [L EXCEPT !.delivered = b, !.stats = s])
      /\ \A b : TellsAlike(L, [L EXCEPT !.delivered = b])
      /\ \A b : TellsAlike(L, [L EXCEPT !.deadline_set = b])
  BY DEF TellsAlike, Fields, HasFields
<1> QED  BY <1>1, <1>2, <1>3, <1>4, <1>5, <1>6

\* The shape stays.
LEMMA AlikeFields == \A L, R : HasFields(L) /\ TellsAlike(L, R) => HasFields(R)
BY DEF TellsAlike, HasFields

\* start_or_resume_tx tells nothing.
LEMMA StartTells ==
  ASSUME NEW L, HasFields(L)
  PROVE  TellsAlike(L, start_or_resume_tx(L))
<1> DEFINE Q == queue_window(L)
           S == [Q EXCEPT !.tx = [Q.tx EXCEPT !.started = TRUE], !.deadline_set = TRUE]
<1>1. TellsAlike(L, Q)
  <2> DEFINE t == [L.tx EXCEPT !.inflight = @ \cup Batch(L)]
             o == L.out_frames
                    \o [i \in 1 .. Cardinality(Batch(L)) |-> DataFrame(L, Ranked(Batch(L), i - 1))]
  <2>1. Q = [L EXCEPT !.out_frames = o, !.tx = t]  BY DEF queue_window
  <2>2. DOMAIN t = DOMAIN L.tx /\ t.active = L.tx.active  BY DEF HasFields, Fields
  <2> HIDE DEF t, o, Q
  <2> QED  BY <2>1, <2>2 DEF TellsAlike, HasFields, Fields
<1>2. HasFields(Q)  BY <1>1, AlikeFields
<1>3. start_or_resume_tx(L) = L \/ start_or_resume_tx(L) = S  BY DEF start_or_resume_tx
<1> HIDE DEF Q
<1>4. TellsAlike(Q, S)
  <2> DEFINE t == [Q.tx EXCEPT !.started = TRUE]
  <2>1. DOMAIN t = DOMAIN Q.tx /\ t.active = Q.tx.active  BY <1>2 DEF HasFields, Fields
  <2> HIDE DEF t
  <2> QED  BY <1>2, <2>1 DEF TellsAlike, HasFields, Fields
<1>5. TellsAlike(L, S)  BY <1>1, <1>4, AlikeTwice
<1> HIDE DEF S
<1> QED  BY <1>3, <1>5, HelpersTell

\* Nor does it from an end that differs in the books of its transfer only.
LEMMA ResumeTells ==
  ASSUME NEW L, HasFields(L), NEW tx, DOMAIN tx = DOMAIN L.tx, tx.active = L.tx.active
  PROVE  TellsAlike(L, start_or_resume_tx([L EXCEPT !.tx = tx]))
<1> DEFINE X == [L EXCEPT !.tx = tx]
<1>1. TellsAlike(L, X)  BY DEF TellsAlike, HasFields, Fields
<1> HIDE DEF X
<1>2. HasFields(X)  BY <1>1, AlikeFields
<1>3. TellsAlike(X, start_or_resume_tx(X))  BY <1>2, StartTells
<1>4. TellsAlike(L, start_or_resume_tx(X))  BY <1>1, <1>3, AlikeTwice
<1> QED  BY <1>4 DEF X

\* Every other way a transfer ends tells the application.
LEMMA FailTells ==
  ASSUME NEW L, HasFields(L), NEW status, status # "BUSY"
  PROVE  Told(fail_tx(L, status))
<1> DEFINE Q == queue_frame(L, CancelFrame(L))
<1>1. HasFields(Q)  BY HelpersTell, AlikeFields
<1>2. fail_tx(L, status) = [[Q EXCEPT !.tx = NoTx] EXCEPT !.tx_status = status,
                                                         !.deadline_set = FALSE]
  BY DEF fail_tx, clear_tx_message
<1> HIDE DEF Q
<1> QED  BY <1>1, <1>2 DEF HasFields, Fields, Told, Untold

\* kal_send, unless there is no room for a HELLO.
LEMMA SendTells ==
  ASSUME NEW L, HasFields(L), NEW m, NEW ok, NEW id
  PROVE  \/ Told(kal_send(L, m, [ok |-> ok, id |-> id]))
         \/ NeedsSession(L) /\ ok /\ Len(L.out_frames) >= OutQueueFrames
<1> DEFINE draw == [ok |-> ok, id |-> id]
           tx == [NoTx EXCEPT !.active = TRUE, !.message_id = L.next_message_id,
                              !.total = Segments[m], !.payload = m]
           S == [L EXCEPT !.tx = tx, !.tx_status = "BUSY", !.submitted = @ + 1]
           H == [S EXCEPT !.session_id = draw.id, !.challenge = draw.id]
           R == kal_send(L, m, draw)
           full == Len(L.out_frames) >= OutQueueFrames
<1>1. DOMAIN tx = DOMAIN NoTx /\ tx.active  BY DEF NoTx
<1> HIDE DEF tx
<1>2. HasFields(S) /\ S.tx.active /\ S.out_frames = L.out_frames
  BY <1>1 DEF HasFields, Fields, NoTx
<1>3. R = IF L.session_open THEN start_or_resume_tx(S)
          ELSE IF NeedsSession(L) THEN open_session(S, draw) ELSE S
  BY DEF kal_send, tx
<1> HIDE DEF S, R
<1>4. CASE R = start_or_resume_tx(S)
  <2>1. TellsAlike(S, R)  BY <1>2, <1>4, StartTells
  <2> QED  BY <1>2, <2>1 DEF TellsAlike, Told, Untold, R
<1>5. CASE R = S
  BY <1>2, <1>5 DEF Told, Untold, R
<1>6. CASE NeedsSession(L) /\ R = open_session(S, draw)
  <2>1. HasFields(H) /\ H.tx = S.tx  BY <1>2 DEF HasFields, Fields
  <2>2. NoTx.active = FALSE  BY DEF NoTx
  <2> DEFINE Q == queue_frame(H, build_hello(H, "HELLO"))
  <2>3. \/ R = [[S EXCEPT !.tx = NoTx] EXCEPT !.tx_status = "MODEM"]
        \/ ok /\ full
        \/ R = [Q EXCEPT !.hello_pending = TRUE, !.hello_retries = 0, !.deadline_set = TRUE]
    BY <1>2, <1>6 DEF open_session, clear_tx_message
  <2> HIDE DEF H
  <2>4. HasFields(Q) /\ TellsAlike(H, Q)  BY <2>1, HelpersTell, AlikeFields
  <2> HIDE DEF Q
  <2>5. CASE R = [[S EXCEPT !.tx = NoTx] EXCEPT !.tx_status = "MODEM"]
    BY <1>2, <2>5 DEF Told, Untold, HasFields, Fields, R
  <2>6. CASE ok /\ full  BY <1>6, <2>6
  <2>7. CASE R = [Q EXCEPT !.hello_pending = TRUE, !.hello_retries = 0, !.deadline_set = TRUE]
    <3>1. R.tx.active  BY <1>2, <2>1, <2>4, <2>7 DEF TellsAlike, HasFields, Fields
    <3> QED  BY <3>1 DEF Told, Untold, R
  <2> QED  BY <2>3, <2>5, <2>6, <2>7
<1> QED  BY <1>3, <1>4, <1>5, <1>6

\* advance_time.
LEMMA AdvanceTells ==
  ASSUME NEW L, HasFields(L), Told(L)
  PROVE  Told(advance_time(L))
<1> DEFINE X == [L EXCEPT !.deadline_set = FALSE]
           Q == queue_frame(X, build_hello(X, "HELLO"))
           tx == [X.tx EXCEPT !.retries = @ + 1, !.inflight = {}]
           R == advance_time(L)
<1>1. TellsAlike(L, X)  BY HelpersTell
<1> HIDE DEF X
<1>2. HasFields(X) /\ Told(X)  BY <1>1, AlikeFields, ToldAlike
<1>3. \/ R = [[X EXCEPT !.tx = NoTx] EXCEPT !.hello_pending = FALSE, !.tx_status = "TIMEOUT"]
      \/ L.hello_pending /\ R = [Q EXCEPT !.hello_retries = @ + 1, !.deadline_set = TRUE]
      \/ R = fail_tx(X, "TIMEOUT") \/ R = start_or_resume_tx([X EXCEPT !.tx = tx]) \/ R = X
  BY DEF advance_time, GiveUpHello, clear_tx_message, Retry, X
<1>4. TellsAlike(X, Q)  BY <1>2, HelpersTell
<1>5. HasFields(Q) /\ Told(Q)  BY <1>2, <1>4, AlikeFields, ToldAlike
<1>6. DOMAIN tx = DOMAIN X.tx /\ tx.active = X.tx.active  BY <1>2 DEF HasFields, Fields
<1> HIDE DEF Q, R, tx
<1>7. CASE R = [[X EXCEPT !.tx = NoTx] EXCEPT !.hello_pending = FALSE, !.tx_status = "TIMEOUT"]
  BY <1>2, <1>7 DEF Told, Untold, HasFields, Fields, R
<1>8. CASE R = [Q EXCEPT !.hello_retries = @ + 1, !.deadline_set = TRUE]
  <2>1. TellsAlike(Q, R)  BY <1>5, <1>8 DEF TellsAlike, HasFields, Fields
  <2> QED  BY <1>5, <2>1, ToldAlike DEF R
<1>9. CASE R = fail_tx(X, "TIMEOUT")  BY <1>2, <1>9, FailTells DEF R
<1>10. CASE R = start_or_resume_tx([X EXCEPT !.tx = tx])
  <2>1. TellsAlike(X, R)  BY <1>2, <1>6, <1>10, ResumeTells
  <2> QED  BY <1>2, <2>1, ToldAlike DEF R
<1>11. CASE R = X  BY <1>2, <1>11 DEF R
<1> QED  BY <1>3, <1>7, <1>8, <1>9, <1>10, <1>11

\* handle_data.
LEMMA DataTells ==
  ASSUME NEW L, HasFields(L), NEW f
  PROVE  TellsAlike(L, handle_data(L, f))
<1> DEFINE Kin(X) == HasFields(X) /\ TellsAlike(L, X)
<1>1. Kin(L)  BY HelpersTell
<1>2. \A X : Kin(X) =>
        /\ \A g : Kin(queue_frame(X, g))
        /\ \A rx : Kin([X EXCEPT !.rx = rx])
        /\ \A c : Kin([X EXCEPT !.dup_cache = c])
        /\ \A b, s : Kin([X EXCEPT !.delivered = b, !.stats = s])
  <2> SUFFICES ASSUME NEW X, Kin(X)
               PROVE  /\ \A g : Kin(queue_frame(X, g))
                      /\ \A rx : Kin([X EXCEPT !.rx = rx])
                      /\ \A c : Kin([X EXCEPT !.dup_cache = c])
                      /\ \A b, s : Kin([X EXCEPT !.delivered = b, !.stats = s])
    OBVIOUS
  <2>1. \A Y : TellsAlike(X, Y) => Kin(Y)  BY AlikeFields, AlikeTwice
  <2> HIDE DEF Kin
  <2>2. HasFields(X)  BY DEF Kin
  <2> QED  BY <2>1, <2>2, HelpersTell
<1> HIDE DEF Kin
<1>3. \A X : Kin(X) => Kin(queue_partial_ack(X))
  BY <1>2 DEF queue_partial_ack
<1>4. \A X : Kin(X) => Kin(finish_rx_message(X))
  BY <1>2 DEF finish_rx_message, clear_rx_message, dup_store, Deliver
<1>5. \A X : Kin(X) => Kin(StoreSegment(X, f))
  BY <1>2, <1>3, <1>4 DEF StoreSegment
<1>6. \A X : Kin(X) => Kin(RepeatSegment(X, f))
  BY <1>2, <1>3 DEF RepeatSegment
<1>7. Kin(Reassembling(L, f))
  BY <1>1, <1>2 DEF Reassembling
<1>8. Kin(handle_data(L, f))
  <2> HIDE DEF Kin
  <2> QED  BY <1>1, <1>2, <1>5, <1>6, <1>7 DEF handle_data, clear_rx_message
<1> QED  BY <1>8 DEF Kin

\* handle_ack.
LEMMA AckTells ==
  ASSUME NEW L, HasFields(L), Told(L), NEW f
  PROVE  Told(handle_ack(L, f))
<1> DEFINE marked == {s \in Segment : s < L.tx.total /\ (s < f.sequence \/ s \in f.bitmap)}
           acked == L.tx.acked \cup marked
           tx == [L.tx EXCEPT !.acked = acked, !.inflight = @ \ marked, !.retries = 0,
                              !.base = FirstOutside(acked, @, L.tx.total)]
           S == start_or_resume_tx([L EXCEPT !.tx = tx])
           R == handle_ack(L, f)
<1>1. DOMAIN tx = DOMAIN L.tx /\ tx.active = L.tx.active  BY DEF HasFields, Fields
<1>2. R = L \/ R = TxDelivered(L) \/ R = [S EXCEPT !.deadline_set = TRUE]
  BY DEF handle_ack, MarkAcked
<1> HIDE DEF tx, R
<1>3. TellsAlike(L, S)  BY <1>1, ResumeTells
<1> HIDE DEF S
<1>4. HasFields(S)  BY <1>3, AlikeFields
<1>5. CASE R = [S EXCEPT !.deadline_set = TRUE]
  <2>1. TellsAlike(S, R)  BY <1>4, <1>5, HelpersTell
  <2> QED  BY <1>3, <2>1, AlikeTwice, ToldAlike DEF R
<1>6. CASE R = TxDelivered(L)
  <2>1. R.tx_status = "OK"
    BY <1>6 DEF TxDelivered, clear_tx_message, HasFields, Fields
  <2> QED  BY <2>1 DEF Told, Untold, R
<1> QED  BY <1>2, <1>5, <1>6 DEF R

\* AcceptHello opens a session and tells nothing of the transfer.
LEMMA AcceptTells ==
  ASSUME NEW L, HasFields(L), NEW f
  PROVE  TellsAlike(L, AcceptHello(L, f))
<1> DEFINE H == [L EXCEPT !.session_id = f.session_id, !.window = Narrowed(L, f),
                          !.challenge = f.challenge]
           reply == [build_hello(H, "HELLO_ACK") EXCEPT !.message_id = f.message_id]
           P == [H EXCEPT !.hello_ack_cached = reply, !.hello_ack_valid = TRUE,
                          !.session_open = TRUE]
           O == queue_frame(P, reply)
           R == AcceptHello(L, f)
<1>1. TellsAlike(L, H)  BY DEF TellsAlike, HasFields, Fields
<1>2. R = IF O.tx.active /\ ~O.tx.started THEN start_or_resume_tx(O) ELSE O  BY DEF AcceptHello
<1> HIDE DEF H, reply
<1>3. HasFields(H)  BY <1>1, AlikeFields
<1>4. TellsAlike(H, P)  BY <1>3 DEF TellsAlike, HasFields, Fields
<1> HIDE DEF P
<1>5. HasFields(P) /\ TellsAlike(L, P)  BY <1>1, <1>3, <1>4, AlikeFields, AlikeTwice
<1>6. HasFields(O) /\ TellsAlike(L, O)
  <2>1. TellsAlike(P, O)  BY <1>5, HelpersTell
  <2> QED  BY <1>5, <2>1, AlikeFields, AlikeTwice
<1> HIDE DEF O, R
<1>7. TellsAlike(O, R)  BY <1>2, <1>6, StartTells, HelpersTell
<1>8. TellsAlike(L, R)  BY <1>6, <1>7, AlikeTwice
<1> QED  BY <1>8 DEF R

\* handle_hello, unless the end yields.
LEMMA HelloTells ==
  ASSUME NEW L, HasFields(L), Told(L), NEW f,
         ~(L.role = "initiator" /\ L.hello_pending /\ Yields(L, f))
  PROVE  Told(handle_hello(L, f))
<1> DEFINE C == [[L EXCEPT !.rx = NoRx] EXCEPT !.dup_cache = << >>]
           R == handle_hello(L, f)
<1>1. \/ R = L \/ R = queue_frame(L, L.hello_ack_cached)
      \/ R = AcceptHello(C, f) \/ R = AcceptHello(L, f)
  BY DEF handle_hello, clear_rx_message
<1>2. HasFields(C) /\ TellsAlike(L, C)
  <2> DEFINE D == [L EXCEPT !.rx = NoRx]
  <2>1. HasFields(D) /\ TellsAlike(L, D)  BY HelpersTell, AlikeFields
  <2> HIDE DEF D
  <2>2. TellsAlike(D, [D EXCEPT !.dup_cache = << >>])  BY <2>1, HelpersTell
  <2>3. TellsAlike(L, [D EXCEPT !.dup_cache = << >>])  BY <2>1, <2>2, AlikeTwice
  <2> QED  BY <2>3, AlikeFields DEF D
<1> HIDE DEF C, R
<1>3. TellsAlike(C, AcceptHello(C, f)) /\ TellsAlike(L, AcceptHello(L, f))
  BY <1>2, AcceptTells
<1>4. TellsAlike(L, AcceptHello(C, f))  BY <1>2, <1>3, AlikeTwice
<1>5. TellsAlike(L, R)  BY <1>1, <1>3, <1>4, HelpersTell
<1> QED  BY <1>5, ToldAlike DEF R

\* handle_hello_ack.
LEMMA HelloAckTells ==
  ASSUME NEW L, HasFields(L), Told(L), NEW f
  PROVE  Told(handle_hello_ack(L, f))
<1> DEFINE O == [L EXCEPT !.hello_pending = FALSE, !.session_open = TRUE,
                          !.window = Narrowed(L, f), !.deadline_set = FALSE]
           R == handle_hello_ack(L, f)
<1>1. R \in {L, O, start_or_resume_tx(O)}
  <2> HIDE DEF O
  <2> QED  BY DEF handle_hello_ack, O
<1>2. TellsAlike(L, O)  BY DEF TellsAlike, HasFields, Fields
<1> HIDE DEF O, R
<1>3. TellsAlike(O, start_or_resume_tx(O))  BY <1>2, AlikeFields, StartTells
<1>4. TellsAlike(L, start_or_resume_tx(O))  BY <1>2, <1>3, AlikeTwice
<1>5. TellsAlike(L, R)  BY <1>1, <1>2, <1>4, HelpersTell
<1> QED  BY <1>5, ToldAlike DEF R

\* The handlers, unless the end yields.
LEMMA HandlerTells ==
  ASSUME NEW L, HasFields(L), Told(L), NEW f,
         ~(f.type = "HELLO" /\ L.role = "initiator" /\ L.hello_pending /\ Yields(L, f))
  PROVE  Told(handle_frame(L, f))
<1>1. CASE f.type = "HELLO"  BY <1>1, HelloTells DEF handle_frame
<1>2. CASE f.type = "HELLO_ACK"  BY <1>2, HelloAckTells DEF handle_frame
<1>3. CASE f.type = "DATA"
  <2>1. handle_frame(L, f) = handle_data(L, f)  BY <1>3 DEF handle_frame
  <2> QED  BY <2>1, DataTells, ToldAlike
<1>4. CASE f.type = "ACK"  BY <1>4, AckTells DEF handle_frame
<1>5. CASE f.type = "CANCEL"
  <2> DEFINE C == [L EXCEPT !.rx = NoRx, !.tx = NoTx, !.deadline_set = FALSE,
                            !.tx_status = "CANCELLED"]
  <2>1. handle_frame(L, f) \in {L, C}  BY <1>5 DEF handle_frame, handle_cancel
  <2>2. Told(C)  BY DEF Told, Untold, HasFields, Fields
  <2> HIDE DEF C
  <2> QED  BY <2>1, <2>2
<1>6. CASE f.type = "BEACON"
  <2> DEFINE B == [L EXCEPT !.delivered = f.payload]
             c == Append(IF Len(B.dup_cache) >= DupCacheEntries THEN Tail(B.dup_cache)
                           ELSE B.dup_cache,
                         [session_id |-> f.session_id, message_id |-> f.message_id,
                          ack |-> ZeroFrame])
             C == [B EXCEPT !.dup_cache = c]
  <2>1. handle_frame(L, f) \in {L, C}  BY <1>6 DEF handle_frame, handle_beacon, dup_store
  <2>2. HasFields(B) /\ TellsAlike(L, B)  BY HelpersTell, AlikeFields
  <2> HIDE DEF B, c
  <2>3. TellsAlike(B, C)  BY <2>2, HelpersTell
  <2>4. TellsAlike(L, C)  BY <2>2, <2>3, AlikeTwice
  <2> HIDE DEF C
  <2> QED  BY <2>1, <2>4, ToldAlike
<1>7. CASE f.type \notin FrameTypes
  <2>1. handle_frame(L, f) = L  BY <1>7 DEF handle_frame, FrameTypes
  <2> QED  BY <2>1
<1> QED  BY <1>1, <1>2, <1>3, <1>4, <1>5, <1>6, <1>7 DEF FrameTypes

\* A step that hands the end no message submits none.
LEMMA MovesSubmitNothing ==
  ASSUME NEW L, NEW R, NEW heard, Moves(L, R, heard, {}, {})
  PROVE  R.submitted = L.submitted
BY DEF Moves, MovesTransfer, SameTransfer, Starts, DropsNew, Drops, Confirms

\* Whether an end has submitted nothing and, if it was told, still is.
Informs(L, R) == R.submitted = L.submitted /\ (Told(L) => Told(R))

\* What changes neither the transfer nor the status.
LEMMA AlikeInforms ==
  ASSUME NEW L, NEW R, TellsAlike(L, R), R.submitted = L.submitted
  PROVE  Informs(L, R)
BY ToldAlike DEF Informs

\* A step that is no call of kal_send and no HELLO yielded to informs its end.
LEMMA OperationInforms ==
  ASSUME IInv, NEW e \in End
  PROVE  /\ \A p \in Beacon : Informs(link[e], kal_beacon(link[e], p))
         /\ Informs(link[e], kal_cancel(link[e]))
         /\ Informs(link[e], kal_link_reset(link[e]))
         /\ Informs(link[e], [link[e] EXCEPT !.delivered = NoBody])
         /\ Informs(link[e], advance_time(link[e]))
         /\ Informs(link[e], [link[e] EXCEPT !.dup_cache = Tail(@)])
         /\ Informs(link[e], [link[e] EXCEPT !.out_frames = Tail(@)])
<1> DEFINE L == link[e]
<1>1. L \in EndState(Message, Message)  BY DEF IInv
<1>2. IsEnd(L) /\ HasFields(L) /\ L.tx.active \in BOOLEAN
  <2>1. IsEnd(L) /\ L.tx.active \in BOOLEAN  BY <1>1, EndFields
  <2> QED  BY <2>1 DEF IsEnd, HasFields, Fields
<1> HIDE DEF L
<1>3. \A p \in Beacon : Informs(L, kal_beacon(L, p))
  <2> SUFFICES ASSUME NEW p \in Beacon PROVE Informs(L, kal_beacon(L, p))
    OBVIOUS
  <2>1. TellsAlike(L, kal_beacon(L, p))  BY <1>2, HelpersTell DEF kal_beacon
  <2>2. Moves(L, kal_beacon(L, p), {}, {}, {})  BY <1>2, BeaconMoves
  <2> QED  BY <2>1, <2>2, MovesSubmitNothing, AlikeInforms
<1>4. Informs(L, kal_cancel(L))
  <2> DEFINE Q == queue_frame(L, CancelFrame(L))
             F == fail_tx(L, "CANCELLED")
  <2>1. HasFields(Q)  BY <1>2, HelpersTell, AlikeFields
  <2>2. F = [[Q EXCEPT !.tx = NoTx] EXCEPT !.tx_status = "CANCELLED", !.deadline_set = FALSE]
    BY DEF fail_tx, clear_tx_message
  <2>3. Told(F)  BY <1>2, FailTells
  <2> HIDE DEF Q, F
  <2>4. HasFields(F)  BY <2>1, <2>2 DEF HasFields, Fields, NoTx
  <2>5. kal_cancel(L) = [F EXCEPT !.rx = NoRx]  BY DEF kal_cancel, clear_rx_message, F
  <2>6. Told(kal_cancel(L))  BY <2>3, <2>4, <2>5, HelpersTell, ToldAlike
  <2>7. Moves(L, kal_cancel(L), {}, {}, {})  BY <1>2, CancelMoves
  <2> QED  BY <2>6, <2>7, MovesSubmitNothing DEF Informs
<1>5. Informs(L, kal_link_reset(L))
  <2> DEFINE R == kal_link_reset(L)
  <2>1. R.tx_status = "OK" /\ R.submitted = L.submitted
    BY <1>2 DEF kal_link_reset, HasFields, Fields
  <2> HIDE DEF R
  <2> QED  BY <2>1 DEF Informs, Told, Untold, R
<1>6. Informs(L, [L EXCEPT !.delivered = NoBody])
  <2>1. [L EXCEPT !.delivered = NoBody].submitted = L.submitted  BY <1>2 DEF HasFields, Fields
  <2> QED  BY <1>2, <2>1, HelpersTell, AlikeInforms
<1>7. Informs(L, advance_time(L))
  <2>1. Moves(L, advance_time(L), {}, {}, {})  BY <1>2, AdvanceMoves
  <2>2. Told(L) => Told(advance_time(L))  BY <1>2, AdvanceTells
  <2> QED  BY <2>1, <2>2, MovesSubmitNothing DEF Informs
<1>8. Informs(L, [L EXCEPT !.dup_cache = Tail(@)])
  <2>1. [L EXCEPT !.dup_cache = Tail(@)].submitted = L.submitted  BY <1>2 DEF HasFields, Fields
  <2> QED  BY <1>2, <2>1, HelpersTell, AlikeInforms
<1>9. Informs(L, [L EXCEPT !.out_frames = Tail(@)])
  <2>1. [L EXCEPT !.out_frames = Tail(@)].submitted = L.submitted  BY <1>2 DEF HasFields, Fields
  <2> QED  BY <1>2, <2>1, HelpersTell, AlikeInforms
<1> QED  BY <1>3, <1>4, <1>5, <1>6, <1>7, <1>8, <1>9 DEF L

\* The same of a handler.
LEMMA HandlerInforms ==
  ASSUME IInv, NEW e \in End, NEW type \in FrameTypes \cup {"NONE"}, Hear(e, type), ~YieldsTo(e)
  PROVE  Informs(link[e], handle_frame(link[e], Head(air[Peer(e)])))
<1> DEFINE L == link[e]
           f == Head(air[Peer(e)])
<1>1. L \in EndState(Message, Message)  BY DEF IInv
<1>2. HasFields(L)
  <2>1. IsEnd(L)  BY <1>1, EndFields
  <2> QED  BY <2>1 DEF IsEnd, HasFields, Fields
<1>3. f \in AnyFrame
  <2>1. Peer(e) \in End  BY PeerType
  <2>2. air[Peer(e)] \in Seq(Frame(Message)) /\ air[Peer(e)] # << >>
    BY <2>1 DEF Hear, IInv
  <2> QED  BY <2>2 DEF Frame
<1>4. ~(f.type = "HELLO" /\ L.role = "initiator" /\ L.hello_pending /\ Yields(L, f))
  <2>1. f.type = type  BY DEF Hear
  <2> QED  BY <2>1 DEF YieldsTo
<1> HIDE DEF L, f
<1>5. Moves(L, handle_frame(L, f), {f}, {}, {})  BY <1>1, <1>3, HandleFrameMoves
<1>6. handle_frame(L, f).submitted = L.submitted  BY <1>5, MovesSubmitNothing
<1>7. Told(L) => Told(handle_frame(L, f))  BY <1>2, <1>4, HandlerTells
<1> QED  BY <1>6, <1>7 DEF Informs, L, f

\* A call of kal_send tells the application, or finds no room for its HELLO.
LEMMA SendInforms ==
  ASSUME IInv, NEW e \in End, Send(e) \/ SendOpening(e) \/ SendWithoutEntropy(e)
  PROVE  Told(link'[e]) \/ FindsNoRoom(e)
<1> DEFINE L == link[e]
           full == Len(L.out_frames) >= OutQueueFrames
<1>1. L \in EndState(Message, Message) /\ DOMAIN link = End  BY DEF IInv
<1>2. HasFields(L)
  <2>1. IsEnd(L)  BY <1>1, EndFields
  <2> QED  BY <2>1 DEF IsEnd, HasFields, Fields
<1>3. \A m, ok, id : \/ Told(kal_send(L, m, [ok |-> ok, id |-> id]))
                     \/ NeedsSession(L) /\ ok /\ full
  <2> HIDE DEF L, full
  <2> SUFFICES ASSUME NEW m, NEW ok, NEW id
               PROVE  \/ Told(kal_send(L, m, [ok |-> ok, id |-> id]))
                      \/ NeedsSession(L) /\ ok /\ full
    OBVIOUS
  <2> QED  BY <1>2, SendTells DEF full
<1>4. \A R : Becomes(e, R) => link'[e] = R  BY <1>1 DEF Becomes
<1>5. CASE Send(e)
  <2>1. link'[e] = kal_send(L, NextMessage(e), [ok |-> TRUE, id |-> 0])  BY <1>4, <1>5 DEF Send
  <2> QED  BY <1>3, <1>5, <2>1 DEF Send
<1>6. CASE SendOpening(e)
  <2>1. PICK id \in SessionIds \ drawn :
          Becomes(e, kal_send(L, NextMessage(e), [ok |-> TRUE, id |-> id]))
    BY <1>6 DEF SendOpening
  <2>2. Told(link'[e]) \/ full  BY <1>3, <1>4, <2>1
  <2> QED  BY <1>6, <2>2 DEF FindsNoRoom
<1>7. CASE SendWithoutEntropy(e)
  <2>1. link'[e] = kal_send(L, NextMessage(e), [ok |-> FALSE, id |-> 0])
    BY <1>4, <1>7 DEF SendWithoutEntropy
  <2> QED  BY <1>3, <2>1
<1> QED  BY <1>5, <1>6, <1>7

\* An end is left untold by a step only if it was before and nothing was submitted, or in
\* one of the two ways.
LEMMA StepTells ==
  ASSUME IInv, [Next]_vars, NEW e \in End, Untold(link'[e])
  PROVE  \/ Untold(link[e]) /\ link'[e].submitted = link[e].submitted
         \/ YieldsTo(e) \/ FindsNoRoom(e)
<1> DEFINE Left == Untold(link[e]) /\ link'[e].submitted = link[e].submitted
<1>1. CASE link'[e] = link[e]  BY <1>1
<1>2. ASSUME NEW d \in End,
             \/ Send(d) \/ SendOpening(d) \/ SendWithoutEntropy(d)
             \/ SendBeacon(d) \/ Cancel(d) \/ Reset(d) \/ Collect(d)
             \/ Expire(d) \/ Age(d) \/ Pull(d) \/ Lose(d)
             \/ \E type \in FrameTypes \cup {"NONE"} : Hear(d, type)
      PROVE  Left \/ YieldsTo(e) \/ FindsNoRoom(e)
  <2>1. DOMAIN link = End  BY DEF IInv
  <2>2. ASSUME d # e PROVE link'[e] = link[e]
    BY <1>2, <2>1, <2>2
    DEF Send, SendOpening, SendWithoutEntropy, SendBeacon, Cancel, Reset, Collect, Expire, Age,
        Pull, Lose, Hear, Becomes
  <2>3. ASSUME NEW R, Becomes(e, R), Informs(link[e], R) PROVE Left
    <3>1. link'[e] = R  BY <2>1, <2>3 DEF Becomes
    <3> QED  BY <2>3, <3>1 DEF Informs, Told
  <2> HIDE DEF Left
  <2>4. CASE d = e
    <3>1. CASE Send(e) \/ SendOpening(e) \/ SendWithoutEntropy(e)
      BY <3>1, SendInforms DEF Told
    <3>2. CASE SendBeacon(e)  BY <2>3, <3>2, OperationInforms DEF SendBeacon
    <3>3. CASE Cancel(e)  BY <2>3, <3>3, OperationInforms DEF Cancel
    <3>4. CASE Reset(e)  BY <2>3, <3>4, OperationInforms DEF Reset
    <3>5. CASE Collect(e)  BY <2>3, <3>5, OperationInforms DEF Collect
    <3>6. CASE Expire(e)  BY <2>3, <3>6, OperationInforms DEF Expire
    <3>7. CASE Age(e)  BY <2>3, <3>7, OperationInforms DEF Age
    <3>8. CASE Pull(e)  BY <2>3, <3>8, OperationInforms DEF Pull
    <3>9. CASE Lose(e)
      <4>1. link' = link  BY <3>9 DEF Lose
      <4> QED  BY <1>1, <4>1 DEF Left
    <3>10. ASSUME NEW type \in FrameTypes \cup {"NONE"}, Hear(e, type), ~YieldsTo(e)
           PROVE  Left
      <4>1. Becomes(e, handle_frame(link[e], Head(air[Peer(e)])))  BY <3>10 DEF Hear
      <4> QED  BY <2>3, <3>10, <4>1, HandlerInforms
    <3> QED  BY <1>2, <2>4, <3>1, <3>2, <3>3, <3>4, <3>5, <3>6, <3>7, <3>8, <3>9, <3>10
  <2> QED  BY <2>2, <2>4 DEF Left
<1>3. CASE UNCHANGED vars  BY <1>3 DEF vars
<1> QED  BY <1>2, <1>3 DEF Next

\* A transfer that ends and leaves kal_tx_status at KAL_ERR_BUSY does so in a step that
\* yields to the peer's HELLO, or that finds no room to queue its own.
THEOREM StatusTold == Spec => BusyUnlessYielded
<1>1. IInv /\ [Next]_vars
        => [\A e \in End : Untold(link'[e]) =>
              \/ Untold(link[e]) /\ link'[e].submitted = link[e].submitted
              \/ YieldsTo(e) \/ FindsNoRoom(e)]_vars
  BY StepTells
<1> QED  BY <1>1, Invariant, PTL DEF Spec, BusyUnlessYielded

==============================================================================
