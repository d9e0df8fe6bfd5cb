--------------------------- MODULE KalTimedProofs ---------------------------
(***************************************************************************)
(* The clock changes when the steps of KalLink happen, and never what they *)
(* are: KalTimed implements KalLink, for every airtime, queue, cache and   *)
(* retry budget.  Its timers keep their types, and the lives of the cached *)
(* entries follow the duplicate cache through every operation.  And a      *)
(* deadline passes only when something happened to a frame: with one end   *)
(* silent and the air undisturbed none ever does.                          *)
(***************************************************************************)
EXTENDS KalTimed, KalLinkProofs

----------------------------------------------------------------------------
(* What the operations of KalLink do to the duplicate cache.               *)

\* N has the duplicate cache of L.
Keeps(L, N) == "dup_cache" \in DOMAIN N /\ N.dup_cache = L.dup_cache

\* N has that of L with one more entry, in place of the oldest if there was no room.
Stores(L, N) ==
  \E x : N.dup_cache =
           Append(IF Len(L.dup_cache) >= DupCacheEntries THEN Tail(L.dup_cache) ELSE L.dup_cache, x)

Cached(L, N) == N.dup_cache = L.dup_cache \/ N.dup_cache = << >> \/ Stores(L, N)

\* The helpers leave the cache alone.
LEMMA HelpersKeep ==
  ASSUME NEW L, "dup_cache" \in DOMAIN L
  PROVE  /\ \A f : Keeps(L, queue_frame(L, f))
         /\ Keeps(L, clear_rx_message(L))
         /\ Keeps(L, clear_tx_message(L))
         /\ Keeps(L, start_or_resume_tx(L))
         /\ Keeps(L, queue_partial_ack(L))
<1>1. \A f : Keeps(L, queue_frame(L, f))  BY DEF Keeps, queue_frame
<1>2. Keeps(L, clear_rx_message(L))  BY DEF Keeps, clear_rx_message
<1>3. Keeps(L, clear_tx_message(L))  BY DEF Keeps, clear_tx_message
<1>4. Keeps(L, start_or_resume_tx(L))  BY DEF Keeps, start_or_resume_tx, queue_window
<1>5. Keeps(L, queue_partial_ack(L))
  <2> DEFINE base == first_missing(L)
             ack == [ZeroFrame EXCEPT !.type = "ACK", !.session_id = L.rx.session_id,
                       !.message_id = L.rx.message_id, !.sequence = base,
                       !.bitmap = {s \in Received(L) : /\ base < s
                                                       /\ s =< base + KAL_ACK_BITS
                                                       /\ s < L.rx.total}]
             R == [L EXCEPT !.rx = [L.rx EXCEPT !.ack_cached = ack, !.ack_valid = TRUE]]
  <2>1. queue_partial_ack(L) = queue_frame(R, ack)  BY DEF queue_partial_ack
  <2> HIDE DEF ack
  <2>2. "dup_cache" \in DOMAIN R /\ R.dup_cache = L.dup_cache  OBVIOUS
  <2> HIDE DEF R
  <2> QED  BY <2>1, <2>2 DEF Keeps, queue_frame
<1> QED  BY <1>1, <1>2, <1>3, <1>4, <1>5

\* kal_send, kal_beacon, kal_cancel and the deadline leave the cache alone.
LEMMA CallsKeep ==
  ASSUME NEW L, "dup_cache" \in DOMAIN L
  PROVE  /\ \A m, draw : kal_send(L, m, draw).dup_cache = L.dup_cache
         /\ advance_time(L).dup_cache = L.dup_cache
<1>1. \A m, draw : kal_send(L, m, draw).dup_cache = L.dup_cache
  <2> SUFFICES ASSUME NEW m, NEW draw PROVE kal_send(L, m, draw).dup_cache = L.dup_cache
    OBVIOUS
  <2> DEFINE S == [L EXCEPT
        !.tx = [NoTx EXCEPT !.active = TRUE, !.message_id = L.next_message_id,
                            !.total = Segments[m], !.payload = m],
        !.tx_status = "BUSY", !.submitted = @ + 1]
  <2>1. Keeps(L, S)  BY DEF Keeps
  <2>2. kal_send(L, m, draw) = IF L.session_open THEN start_or_resume_tx(S)
                               ELSE IF NeedsSession(L) THEN open_session(S, draw) ELSE S
    BY DEF kal_send
  <2> HIDE DEF S
  <2>3. start_or_resume_tx(S).dup_cache = L.dup_cache  BY <2>1, HelpersKeep DEF Keeps
  <2>4. open_session(S, draw).dup_cache = L.dup_cache
    <3> DEFINE H == [S EXCEPT !.session_id = draw.id, !.challenge = draw.id]
    <3>1. Keeps(L, H)  BY <2>1 DEF Keeps
    <3>2. open_session(S, draw) =
            IF ~draw.ok THEN [clear_tx_message(S) EXCEPT !.tx_status = "MODEM"]
            ELSE IF Len(S.out_frames) >= OutQueueFrames
              THEN [clear_tx_message(H) EXCEPT !.tx_status = "BUSY"]
            ELSE [queue_frame(H, build_hello(H, "HELLO"))
                    EXCEPT !.hello_pending = TRUE, !.hello_retries = 0, !.deadline_set = TRUE]
      BY DEF open_session
    <3> HIDE DEF H
    <3>3. /\ Keeps(L, clear_tx_message(S)) /\ Keeps(L, clear_tx_message(H))
          /\ Keeps(L, queue_frame(H, build_hello(H, "HELLO")))
      BY <2>1, <3>1, HelpersKeep DEF Keeps
    <3> QED  BY <3>2, <3>3 DEF Keeps
  <2> QED  BY <2>1, <2>2, <2>3, <2>4 DEF Keeps
<1>2. advance_time(L).dup_cache = L.dup_cache
  <2> DEFINE X == [L EXCEPT !.deadline_set = FALSE]
             R == Retry(X)
  <2>1. Keeps(L, X)  BY DEF Keeps
  <2>2. advance_time(L) =
          IF L.hello_pending
            THEN IF L.hello_retries >= MaxRetries
                   THEN [clear_tx_message(X) EXCEPT !.hello_pending = FALSE, !.tx_status = "TIMEOUT"]
                   ELSE [queue_frame(X, build_hello(X, "HELLO"))
                           EXCEPT !.hello_retries = @ + 1, !.deadline_set = TRUE]
          ELSE IF L.tx.active /\ L.tx.started
            THEN IF L.tx.retries >= MaxRetries THEN fail_tx(X, "TIMEOUT")
                 ELSE start_or_resume_tx(R)
          ELSE X
    BY DEF advance_time, GiveUpHello
  <2> HIDE DEF X
  <2>3. Keeps(L, R)  BY <2>1 DEF Keeps, Retry
  <2> HIDE DEF R
  <2>4. /\ Keeps(L, clear_tx_message(X)) /\ Keeps(L, queue_frame(X, build_hello(X, "HELLO")))
        /\ Keeps(L, queue_frame(X, CancelFrame(X))) /\ Keeps(L, start_or_resume_tx(R))
    BY <2>1, <2>3, HelpersKeep DEF Keeps
  <2>5. fail_tx(X, "TIMEOUT").dup_cache = L.dup_cache
    BY <2>4, HelpersKeep DEF Keeps, fail_tx
  <2> QED  BY <2>1, <2>2, <2>4, <2>5 DEF Keeps
<1> QED  BY <1>1, <1>2

\* A delivery is stored.
LEMMA FinishCached ==
  ASSUME NEW L, "dup_cache" \in DOMAIN L
  PROVE  Cached(L, finish_rx_message(L))
<1> DEFINE body == Assembled(L)
           ack == DeliveredAck(L)
           D == Deliver(L, body)
           Q == queue_frame(D, ack)
           R == dup_store(Q, L.rx.session_id, L.rx.message_id, ack)
<1>1. Keeps(L, D)  BY DEF Keeps, Deliver
<1>2. finish_rx_message(L) = IF ~Intact(L, body) THEN clear_rx_message(L)
                             ELSE clear_rx_message(R)
  BY DEF finish_rx_message
<1> HIDE DEF D
<1>3. Keeps(L, Q)  BY <1>1, HelpersKeep DEF Keeps
<1> HIDE DEF Q
<1>4. Stores(L, R) /\ "dup_cache" \in DOMAIN R  BY <1>3 DEF Keeps, Stores, dup_store
<1> HIDE DEF R
<1>5. Stores(L, clear_rx_message(R))  BY <1>4, HelpersKeep DEF Keeps, Stores
<1>6. Cached(L, clear_rx_message(L))  BY HelpersKeep DEF Keeps, Cached
<1> QED  BY <1>2, <1>5, <1>6 DEF Cached

\* What Cached says of an end it says of one with the same cache.
LEMMA CachedFrom ==
  ASSUME NEW L, NEW M, NEW N, Keeps(L, M), Cached(M, N)
  PROVE  Cached(L, N)
  BY DEF Keeps, Cached, Stores

\* A DATA frame adds at most one entry to the cache: that of the message it completes.
LEMMA HandleDataCached ==
  ASSUME NEW L, NEW f, "dup_cache" \in DOMAIN L
  PROVE  Cached(L, handle_data(L, f))
<1> DEFINE hits == dup_lookup(L, f.session_id, f.message_id)
           R == Reassembling(L, f)
           continued == L.rx.active /\ f.message_id = L.rx.message_id
           again == L.dup_cache[CHOOSE i \in hits : TRUE].ack
<1>1. Keeps(L, R)  BY DEF Keeps, Reassembling
<1>2. handle_data(L, f) =
        IF ~InSession(L, f) THEN L
        ELSE IF hits # {} THEN queue_frame(L, again)
        ELSE IF ~continued /\ L.delivered # NoBody THEN clear_rx_message(L)
        ELSE IF R.rx.total # f.value \/ f.sequence >= R.rx.total THEN R
        ELSE IF f.sequence \in Received(R) THEN RepeatSegment(R, f)
        ELSE StoreSegment(R, f)
  BY DEF handle_data
<1> HIDE DEF R, again, hits, continued
<1>3. Keeps(L, queue_frame(L, again)) /\ Keeps(L, clear_rx_message(L))  BY HelpersKeep
<1>4. Keeps(R, RepeatSegment(R, f))
  BY <1>1, HelpersKeep DEF Keeps, RepeatSegment
<1>5. Cached(L, StoreSegment(R, f))
  <2> DEFINE stored == [R.rx.payload EXCEPT ![f.sequence] = f.payload]
             S == [R EXCEPT !.rx = [R.rx EXCEPT !.payload = stored]]
             count == Cardinality(Received(S))
  <2>1. Keeps(L, S)  BY <1>1 DEF Keeps
  <2>2. StoreSegment(R, f) = IF count = S.rx.total THEN finish_rx_message(S)
                             ELSE IF count % S.window = 0 THEN queue_partial_ack(S)
                             ELSE S
    BY DEF StoreSegment
  <2> HIDE DEF S, count
  <2>3. Cached(S, finish_rx_message(S)) /\ Keeps(S, queue_partial_ack(S))
    BY <2>1, FinishCached, HelpersKeep DEF Keeps
  <2>4. Cached(S, StoreSegment(R, f))  BY <2>2, <2>3 DEF Keeps, Cached
  <2> QED  BY <2>1, <2>4, CachedFrom
<1> QED  BY <1>1, <1>2, <1>3, <1>4, <1>5 DEF Keeps, Cached

\* Opening a session empties the cache, or leaves it alone.
LEMMA HandleHelloCached ==
  ASSUME NEW L, NEW f, "dup_cache" \in DOMAIN L
  PROVE  Cached(L, handle_hello(L, f))
<1>1. ASSUME NEW M, "dup_cache" \in DOMAIN M PROVE Keeps(M, AcceptHello(M, f))
  <2> DEFINE H == [M EXCEPT !.session_id = f.session_id, !.window = Narrowed(M, f),
                            !.challenge = f.challenge]
             reply == [build_hello(H, "HELLO_ACK") EXCEPT !.message_id = f.message_id]
             P == [H EXCEPT !.hello_ack_cached = reply, !.hello_ack_valid = TRUE,
                            !.session_open = TRUE]
             O == queue_frame(P, reply)
  <2>1. Keeps(M, H)  BY <1>1 DEF Keeps
  <2>2. AcceptHello(M, f) = IF O.tx.active /\ ~O.tx.started THEN start_or_resume_tx(O) ELSE O
    BY DEF AcceptHello
  <2> HIDE DEF H, reply
  <2>3. Keeps(M, P)  BY <2>1 DEF Keeps
  <2> HIDE DEF P
  <2>4. Keeps(M, O)  BY <2>3, HelpersKeep DEF Keeps
  <2> HIDE DEF O
  <2> QED  BY <2>2, <2>4, HelpersKeep DEF Keeps
<1> DEFINE Y == [clear_tx_message(L) EXCEPT !.hello_pending = FALSE]
           E == [clear_rx_message(L) EXCEPT !.dup_cache = << >>]
<1>2. Keeps(L, Y)  BY HelpersKeep DEF Keeps
<1>3. "dup_cache" \in DOMAIN E /\ E.dup_cache = << >>  BY HelpersKeep DEF Keeps
<1>4. \/ handle_hello(L, f) = L
      \/ handle_hello(L, f) = AcceptHello(Y, f)
      \/ handle_hello(L, f) = queue_frame(L, L.hello_ack_cached)
      \/ handle_hello(L, f) = AcceptHello(E, f)
      \/ handle_hello(L, f) = AcceptHello(L, f)
  BY DEF handle_hello
<1> HIDE DEF Y, E
<1>5. Keeps(Y, AcceptHello(Y, f)) /\ Keeps(E, AcceptHello(E, f)) /\ Keeps(L, AcceptHello(L, f))
  BY <1>1, <1>2, <1>3 DEF Keeps
<1>6. Keeps(L, queue_frame(L, L.hello_ack_cached))  BY HelpersKeep
<1> QED  BY <1>2, <1>3, <1>4, <1>5, <1>6 DEF Keeps, Cached

\* A frame leaves the cache alone, adds one entry to it, or empties it.
LEMMA HandleFrameCached ==
  ASSUME NEW L, NEW f, "dup_cache" \in DOMAIN L
  PROVE  Cached(L, handle_frame(L, f))
<1>1. Cached(L, handle_data(L, f)) /\ Cached(L, handle_hello(L, f))
  BY HandleDataCached, HandleHelloCached
<1>2. Cached(L, handle_hello_ack(L, f))
  <2> DEFINE O == [L EXCEPT !.hello_pending = FALSE, !.session_open = TRUE,
                            !.window = Narrowed(L, f), !.deadline_set = FALSE]
  <2>1. Keeps(L, O)  BY DEF Keeps
  <2>2. handle_hello_ack(L, f) \in {L, O, start_or_resume_tx(O)}  BY DEF handle_hello_ack
  <2> HIDE DEF O
  <2>3. Keeps(L, start_or_resume_tx(O))  BY <2>1, HelpersKeep DEF Keeps
  <2> QED  BY <2>1, <2>2, <2>3 DEF Keeps, Cached
<1>3. Cached(L, handle_ack(L, f))
  <2> DEFINE marked == {s \in Segment : s < L.tx.total /\ (s < f.sequence \/ s \in f.bitmap)}
             M == MarkAcked(L, marked)
             N == [start_or_resume_tx(M) EXCEPT !.deadline_set = TRUE]
  <2>1. handle_ack(L, f) \in {L, TxDelivered(L), N}  BY DEF handle_ack
  <2> HIDE DEF marked
  <2>2. Keeps(L, M)  BY DEF Keeps, MarkAcked
  <2> HIDE DEF M
  <2>3. Keeps(L, N)  BY <2>2, HelpersKeep DEF Keeps
  <2>4. Keeps(L, TxDelivered(L))  BY HelpersKeep DEF Keeps, TxDelivered
  <2> QED  BY <2>1, <2>3, <2>4 DEF Keeps, Cached
<1>4. Cached(L, handle_cancel(L, f))  BY DEF Cached, handle_cancel
<1>5. Cached(L, handle_beacon(L, f))
  <2> DEFINE D == [L EXCEPT !.delivered = f.payload]
  <2>1. Keeps(L, D)  BY DEF Keeps
  <2>2. handle_beacon(L, f) \in {L, dup_store(D, f.session_id, f.message_id, ZeroFrame)}
    BY DEF handle_beacon
  <2> HIDE DEF D
  <2>3. Stores(L, dup_store(D, f.session_id, f.message_id, ZeroFrame))
    BY <2>1 DEF Keeps, Stores, dup_store
  <2> QED  BY <2>2, <2>3 DEF Cached
<1>6. Cached(L, L)  BY DEF Cached
<1> HIDE DEF Cached
<1> QED  BY <1>1, <1>2, <1>3, <1>4, <1>5, <1>6 DEF handle_frame

----------------------------------------------------------------------------
(* Every step of the clocked system is a step of KalLink, or none.         *)

\* A frame reported once more while the guard remembers it never reaches a handler.
LEMMA RepeatsSuppressed ==
  ASSUME NEW e \in End, Repeat(e)
  PROVE  Suppressed(e, guard[e].frame)
BY DEF Repeat, Suppressed

\* Every timed step is a step of KalLink, or none: Suppress and Destroy are losses, and
\* the guard takes every repeat.
LEMMA StepMaps ==
  ASSUME IInv, TimersOK, [TimedNext]_timedVars
  PROVE  [Next]_vars
<1>1. CASE UNCHANGED timedVars  BY <1>1 DEF timedVars, vars
<1>2. CASE NoiseBegins \/ NoiseEnds \/ Elapse  BY <1>2 DEF NoiseBegins, NoiseEnds, Elapse
<1>3. ASSUME NEW e \in End, System(e) PROVE Next
  <2>1. Peer(e) \in End  BY PeerType
  <2>2. CASE TimedHear(e)
    <3> DEFINE f == Head(air[Peer(e)])
    <3>1. Hear(e, f.type) /\ air[Peer(e)] # << >>  BY <2>2 DEF TimedHear, Hear
    <3>2. air[Peer(e)] \in Seq(Frame(Message))  BY <2>1 DEF IInv
    <3>3. f \in Frame(Message)  BY <3>1, <3>2
    <3>4. f.type \in FrameTypes \cup {"NONE"}  BY <3>3 DEF Frame, AnyFrame
    <3> HIDE DEF f
    <3> QED  BY <3>1, <3>4 DEF Next
  <2>3. CASE Suppress(e)  BY <2>1, <2>3 DEF Suppress, Next
  <2>4. CASE TimedSend(e) \/ TimedCollect(e) \/ TimedExpire(e) \/ TimedAge(e)
               \/ TimedPull(e) \/ Destroy(e)
    BY <2>4 DEF TimedSend, TimedCollect, TimedExpire, TimedAge, TimedPull, Destroy, Next
  <2> QED  BY <1>3, <2>2, <2>3, <2>4 DEF System
<1>4. ASSUME NEW e \in End, Repeat(e) PROVE UNCHANGED vars
  <2>1. Becomes(e, link[e]) /\ UNCHANGED <<air, drawn, spent>>
    BY <1>4, RepeatsSuppressed DEF Repeat
  <2>2. link' = link  BY <2>1 DEF Becomes, IInv
  <2> QED  BY <2>1, <2>2 DEF vars
<1> QED  BY <1>1, <1>2, <1>3, <1>4 DEF TimedNext

----------------------------------------------------------------------------
(* The clock.                                                              *)

ClockType == [timeout : Nat \ {0}, ceiling : Nat \ {0}, left : Nat]

\* A timeout is never zero.
LEMMA BaseType ==
  ASSUME NEW n \in Nat
  PROVE  base_timeout(n) \in Nat \ {0} /\ base_timeout(n) * KAL_TIMEOUT_CEILING_MULT \in Nat \ {0}
<1> DEFINE k == IF n = 0 THEN 1 ELSE n
           t == Airtime * k + Airtime
<1>1. k \in Nat /\ Airtime \in Nat \ {0}  BY TimesAssumption
<1>2. base_timeout(n) = t + t \div 4  BY DEF base_timeout
<1> HIDE DEF k
<1>3. Airtime * k \in Nat  BY <1>1
<1>4. t \in Nat \ {0}  BY <1>1, <1>3
<1> HIDE DEF t
<1>5. t \div 4 \in Nat  BY <1>4
<1>6. base_timeout(n) \in Nat \ {0}  BY <1>2, <1>4, <1>5
<1> QED  BY <1>6 DEF KAL_TIMEOUT_CEILING_MULT

\* The operations on a clock keep its type.
LEMMA ClockOps ==
  ASSUME NEW C \in ClockType
  PROVE  /\ \A n \in Nat : recompute_timeouts(C, n) \in ClockType
         /\ arm_deadline(C) \in ClockType
         /\ Double(C) \in ClockType
         /\ [C EXCEPT !.left = 0] \in ClockType
<1>1. \A n \in Nat : recompute_timeouts(C, n) \in ClockType
  BY BaseType DEF ClockType, recompute_timeouts
<1>2. arm_deadline(C) \in ClockType  BY DEF ClockType, arm_deadline
<1>3. Double(C) \in ClockType
  <2>1. 2 * C.timeout \in Nat \ {0} /\ C.ceiling \in Nat \ {0}  BY DEF ClockType
  <2> QED  BY <2>1 DEF ClockType, Double
<1>4. [C EXCEPT !.left = 0] \in ClockType  BY DEF ClockType
<1> QED  BY <1>1, <1>2, <1>3, <1>4

\* Whatever a call or a frame does to an end, its clock stays a clock.
LEMMA ClockKept ==
  ASSUME NEW C \in ClockType, NEW L, NEW N, NEW f,
         L.window \in Nat, N.window \in Nat, N.tx.inflight \subseteq Segment
  PROVE  /\ AfterSend(C, L, N) \in ClockType
         /\ AfterFrame(C, f, L, N) \in ClockType
         /\ AfterTimeout(C, L, N) \in ClockType
<1> DEFINE n == NewlyQueued(L, N)
<1>1. n \in Nat
  <2> DEFINE Q == N.tx.inflight \ L.tx.inflight
  <2>1. MaxSegments \in Nat  BY DataAssumption
  <2>2. Q \subseteq 0 .. MaxSegments  BY <2>1 DEF Segment
  <2> HIDE DEF Q
  <2>3. Cardinality(Q) \in Nat  BY <2>1, <2>2, BoundedFinite
  <2> QED  BY <2>3 DEF Q, NewlyQueued
<1>2. \A D \in ClockType : Started(D, L, N) \in ClockType
  BY <1>1, ClockOps DEF Started
<1>3. AfterSend(C, L, N) \in ClockType  BY <1>2, ClockOps DEF AfterSend
<1>4. AfterFrame(C, f, L, N) \in ClockType
  <2>1. \A m \in Nat : /\ recompute_timeouts(C, m) \in ClockType
                       /\ arm_deadline(recompute_timeouts(C, m)) \in ClockType
                       /\ Started(recompute_timeouts(C, m), L, N) \in ClockType
    BY <1>2, ClockOps
  <2> QED  BY <2>1 DEF AfterFrame
<1>5. AfterTimeout(C, L, N) \in ClockType  BY ClockOps DEF AfterTimeout
<1> QED  BY <1>3, <1>4, <1>5

----------------------------------------------------------------------------
(* The lives of the cached entries.                                        *)

TTL == Airtime * KAL_DUP_CACHE_TTL_FRAMES
Life == 0 .. TTL

Sorted(s) == \A i, j \in DOMAIN s : i =< j => s[i] =< s[j]

\* A life is a natural number of at most 64 airtimes.
LEMMA LifeType == TTL \in Nat /\ TTL \in Life /\ \A x \in Life : x \in Nat /\ x =< TTL
<1>1. TTL \in Nat  BY TimesAssumption DEF TTL, KAL_DUP_CACHE_TTL_FRAMES
<1> QED  BY <1>1 DEF Life

\* The youngest goes to the end, the oldest leaves at the front.
LEMMA SortedOps ==
  ASSUME NEW s \in Seq(Life), Sorted(s)
  PROVE  /\ Append(s, TTL) \in Seq(Life) /\ Sorted(Append(s, TTL))
         /\ s # << >> => /\ Tail(s) \in Seq(Life) /\ Sorted(Tail(s))
                         /\ Len(Tail(s)) = Len(s) - 1
<1>1. Append(s, TTL) \in Seq(Life)  BY LifeType
<1>2. Sorted(Append(s, TTL))
  <2> DEFINE a == Append(s, TTL)
  <2>1. /\ DOMAIN a = 1 .. Len(s) + 1 /\ a[Len(s) + 1] = TTL
        /\ \A i \in 1 .. Len(s) : a[i] = s[i]
    BY LifeType
  <2>2. \A i \in 1 .. Len(s) : s[i] \in Life  OBVIOUS
  <2>3. \A i \in DOMAIN a : a[i] =< TTL
    <3> SUFFICES ASSUME NEW i \in DOMAIN a PROVE a[i] =< TTL
      OBVIOUS
    <3>1. CASE i \in 1 .. Len(s)  BY <2>1, <2>2, <3>1, LifeType
    <3>2. CASE i = Len(s) + 1  BY <2>1, <3>2, LifeType
    <3> QED  BY <2>1, <3>1, <3>2
  <2>4. \A i, j \in 1 .. Len(s) : i =< j => s[i] =< s[j]  BY DEF Sorted
  <2> HIDE DEF a
  <2> SUFFICES ASSUME NEW i \in DOMAIN a, NEW j \in DOMAIN a, i =< j PROVE a[i] =< a[j]
    BY DEF Sorted, a
  <2>5. Len(s) \in Nat  OBVIOUS
  <2>6. CASE j = Len(s) + 1  BY <2>1, <2>3, <2>6
  <2>7. CASE j # Len(s) + 1  BY <2>1, <2>4, <2>5, <2>7
  <2> QED  BY <2>6, <2>7
<1>3. ASSUME s # << >>
      PROVE  Tail(s) \in Seq(Life) /\ Sorted(Tail(s)) /\ Len(Tail(s)) = Len(s) - 1
  <2>1. /\ Tail(s) \in Seq(Life) /\ Len(Tail(s)) = Len(s) - 1
        /\ \A i \in 1 .. Len(s) - 1 : Tail(s)[i] = s[i + 1]
    BY <1>3
  <2>2. Len(s) \in Nat \ {0}  BY <1>3
  <2>3. DOMAIN Tail(s) = 1 .. Len(s) - 1  BY <2>1
  <2>4. \A i, j \in 1 .. Len(s) : i =< j => s[i] =< s[j]  BY DEF Sorted
  <2>5. \A i \in 1 .. Len(s) - 1 : i + 1 \in 1 .. Len(s)  BY <2>2
  <2>6. Sorted(Tail(s))
    <3> SUFFICES ASSUME NEW i \in 1 .. Len(s) - 1, NEW j \in 1 .. Len(s) - 1, i =< j
                 PROVE  Tail(s)[i] =< Tail(s)[j]
      BY <2>3 DEF Sorted
    <3>1. i + 1 =< j + 1  BY <2>2
    <3> QED  BY <2>1, <2>4, <2>5, <3>1
  <2> QED  BY <2>1, <2>6
<1> QED  BY <1>1, <1>2, <1>3

\* Expiries keeps one life for each entry, and their order.
LEMMA LivesFollow ==
  ASSUME NEW E \in Seq(Life), Sorted(E), NEW L, NEW N, Cached(L, N),
         L.dup_cache \in Seq(DupEntry), Len(L.dup_cache) =< DupCacheEntries,
         Len(E) = Len(L.dup_cache)
  PROVE  LET X == Expiries(E, L.dup_cache, N.dup_cache) IN
         X \in Seq(Life) /\ Sorted(X) /\ Len(X) = Len(N.dup_cache)
<1> DEFINE old == L.dup_cache
           new == N.dup_cache
           X == Expiries(E, old, new)
<1>1. CASE new = old  BY <1>1 DEF Expiries
<1>2. CASE new # old /\ new = << >>  BY <1>2 DEF Expiries, Sorted
<1>3. CASE new # old /\ new # << >>
  <2> DEFINE full == Len(old) >= DupCacheEntries
             kept == IF full THEN Tail(old) ELSE old
             rest == IF full THEN Tail(E) ELSE E
  <2>1. PICK x : new = Append(kept, x)  BY <1>3 DEF Cached, Stores
  <2>2. DupCacheEntries \in Nat \ {0} /\ Len(old) \in Nat /\ Len(E) \in Nat  BY BoundsAssumption
  <2>3. full => Len(old) > 0 /\ old # << >> /\ E # << >>  BY <2>2
  <2>4. kept \in Seq(DupEntry) /\ Len(kept) = IF full THEN Len(old) - 1 ELSE Len(old)
    BY <2>3
  <2>5. rest \in Seq(Life) /\ Sorted(rest) /\ Len(rest) = Len(kept)
    <3>1. CASE full  BY <2>3, <2>4, <3>1, SortedOps
    <3>2. CASE ~full  BY <2>4, <3>2
    <3> QED  BY <3>1, <3>2
  <2>6. Len(new) = Len(kept) + 1
    <3>1. kept \in Seq(DupEntry \cup {x}) /\ x \in DupEntry \cup {x}  BY <2>4
    <3> HIDE DEF kept
    <3> QED  BY <2>1, <3>1
  <2>7. Len(new) > Len(old) <=> ~full  BY <2>2, <2>4, <2>6
  <2>8. X = Append(rest, TTL)  BY <1>3, <2>7 DEF Expiries, TTL
  <2>9. Append(rest, TTL) \in Seq(Life) /\ Sorted(Append(rest, TTL))  BY <2>5, SortedOps
  <2>10. Len(Append(rest, TTL)) = Len(rest) + 1  BY <2>5, LifeType
  <2> QED  BY <2>5, <2>6, <2>8, <2>9, <2>10
<1> QED  BY <1>1, <1>2, <1>3

----------------------------------------------------------------------------
(* The timers of the system.                                               *)

\* What TimersOK says of one end's entries.
LivesOK(s, L) == s \in Seq(Life) /\ Sorted(s) /\ Len(s) = Len(L.dup_cache)

\* TimersOK, with the lives of the entries end by end.
LEMMA TimersParts ==
  TimersOK <=>
    /\ clock \in [End -> ClockType]
    /\ sounding \in [End -> 0 .. Airtime]
    /\ torn \in [End -> BOOLEAN]
    /\ guard \in [End -> [frame : AnyFrame, since : 0 .. GuardTime]]
    /\ channel \in [noisy : BOOLEAN, bursts : 0 .. Bursts, repeats : 0 .. Repeats]
    /\ expiry \in [End -> Seq(Life)]
    /\ \A e \in End : LivesOK(expiry[e], link[e])
  BY DEF TimersOK, ClockType, Life, TTL, LivesOK, Sorted

\* What the timers use of the state of an end.
LEMMA EndTypes ==
  ASSUME NEW L \in EndState(Message, Message)
  PROVE  /\ "dup_cache" \in DOMAIN L
         /\ L.dup_cache \in Seq(DupEntry)
         /\ L.window \in Nat
         /\ L.tx.inflight \subseteq Segment
<1>1. "dup_cache" \in DOMAIN L /\ L.dup_cache \in Seq(DupEntry)  BY DEF EndState
<1>2. L.window \in Nat
  <2>1. L.window \in KAL_MIN_WINDOW_FRAMES .. KAL_MAX_WINDOW_FRAMES  BY DEF EndState
  <2> QED  BY <2>1 DEF KAL_MIN_WINDOW_FRAMES, KAL_MAX_WINDOW_FRAMES
<1>3. L.tx \in TxState(Message)  BY DEF EndState
<1>4. L.tx.inflight \subseteq Segment  BY <1>3 DEF TxState
<1> QED  BY <1>1, <1>2, <1>4

\* The types of one end, and of what it hears.
LEMMA EndFacts ==
  ASSUME IInv, NEW e \in End
  PROVE  /\ "dup_cache" \in DOMAIN link[e]
         /\ link[e].dup_cache \in Seq(DupEntry)
         /\ Len(link[e].dup_cache) =< DupCacheEntries
         /\ link[e].window \in Nat
         /\ link[e].tx.inflight \subseteq Segment
         /\ Peer(e) \in End
         /\ air[Peer(e)] \in Seq(AnyFrame)
<1>1. link[e] \in EndState(Message, Message)  BY DEF IInv
<1>2. /\ "dup_cache" \in DOMAIN link[e] /\ link[e].dup_cache \in Seq(DupEntry)
      /\ link[e].window \in Nat /\ link[e].tx.inflight \subseteq Segment
  BY <1>1, EndTypes
<1>6. Len(link[e].dup_cache) =< DupCacheEntries  BY DEF IInv, Good
<1>7. Peer(e) \in End  BY PeerType
<1>8. air[Peer(e)] \in Seq(Frame(Message)) /\ Frame(Message) \subseteq AnyFrame
  BY <1>7 DEF IInv, Frame
<1> QED  BY <1>2, <1>6, <1>7, <1>8

\* A step of end e that goes by its clock keeps the clocks and the lives in order.
LEMMA ClockedOK ==
  ASSUME IInv, TimersOK, IInv', NEW e \in End, NEW C \in ClockType, Clocked(e, C),
         \A d \in End : d # e => link'[d] = link[d], Cached(link[e], link'[e])
  PROVE  /\ clock' \in [End -> ClockType]
         /\ expiry' \in [End -> Seq(Life)]
         /\ \A d \in End : LivesOK(expiry'[d], link'[d])
<1>1. /\ clock \in [End -> ClockType] /\ expiry \in [End -> Seq(Life)]
      /\ \A d \in End : LivesOK(expiry[d], link[d])
  BY TimersParts
<1>2. clock' \in [End -> ClockType]  BY <1>1, ClockOps DEF Clocked
<1> DEFINE X == Expiries(expiry[e], link[e].dup_cache, link'[e].dup_cache)
<1>3. X \in Seq(Life) /\ LivesOK(X, link'[e])
  BY <1>1, EndFacts, LivesFollow DEF LivesOK
<1>4. expiry' = [expiry EXCEPT ![e] = X]  BY DEF Clocked
<1> HIDE DEF X
<1>5. expiry' \in [End -> Seq(Life)]  BY <1>1, <1>3, <1>4
<1>6. \A d \in End : LivesOK(expiry'[d], link'[d])  BY <1>1, <1>3, <1>4
<1> QED  BY <1>2, <1>5, <1>6

\* A step that leaves the lives and the caches alone keeps them in order.
LEMMA LivesKept ==
  ASSUME TimersOK, expiry' = expiry, \A d \in End : link'[d].dup_cache = link[d].dup_cache
  PROVE  expiry' \in [End -> Seq(Life)] /\ \A d \in End : LivesOK(expiry'[d], link'[d])
  BY TimersParts DEF LivesOK

\* One end has become L.
LEMMA BecomesFacts ==
  ASSUME IInv, NEW e \in End, NEW L, Becomes(e, L)
  PROVE  link'[e] = L /\ \A d \in End : d # e => link'[d] = link[d]
  BY DEF IInv, Becomes

\* TimersOK part by part, after a step.
LEMMA TimersPrimed ==
  ASSUME clock' \in [End -> ClockType],
         sounding' \in [End -> 0 .. Airtime],
         torn' \in [End -> BOOLEAN],
         guard' \in [End -> [frame : AnyFrame, since : 0 .. GuardTime]],
         channel' \in [noisy : BOOLEAN, bursts : 0 .. Bursts, repeats : 0 .. Repeats],
         expiry' \in [End -> Seq(Life)],
         \A e \in End : LivesOK(expiry'[e], link'[e])
  PROVE  TimersOK'
  BY DEF TimersOK, ClockType, Life, TTL, LivesOK, Sorted

\* The steps that go by the clock of one end: a call, a deadline, a frame.
LEMMA ClockStep ==
  ASSUME IInv, TimersOK, IInv', NEW e \in End,
         \/ TimedSend(e)
         \/ TimedExpire(e)
         \/ TimedHear(e)
  PROVE  TimersOK'
<1>0. /\ clock \in [End -> ClockType] /\ clock[e] \in ClockType
      /\ sounding \in [End -> 0 .. Airtime] /\ torn \in [End -> BOOLEAN]
      /\ guard \in [End -> [frame : AnyFrame, since : 0 .. GuardTime]]
      /\ channel \in [noisy : BOOLEAN, bursts : 0 .. Bursts, repeats : 0 .. Repeats]
  BY TimersParts
<1>1. /\ link[e].window \in Nat /\ "dup_cache" \in DOMAIN link[e]
      /\ link'[e].window \in Nat /\ link'[e].tx.inflight \subseteq Segment
  <2>1. link'[e] \in EndState(Message, Message)  BY DEF IInv
  <2> QED  BY <2>1, EndFacts, EndTypes
<1>2. CASE TimedSend(e)
  <2>1. \E m, draw : Becomes(e, kal_send(link[e], m, draw))
    <3>1. CASE Send(e)  BY <3>1 DEF Send
    <3>2. CASE SendOpening(e)
      <4>1. PICK id : Becomes(e, kal_send(link[e], NextMessage(e), [ok |-> TRUE, id |-> id]))
        BY <3>2 DEF SendOpening
      <4> QED  BY <4>1
    <3> QED  BY <1>2, <3>1, <3>2 DEF TimedSend
  <2>2. Cached(link[e], link'[e]) /\ \A d \in End : d # e => link'[d] = link[d]
    <3>1. PICK m, draw : Becomes(e, kal_send(link[e], m, draw))  BY <2>1
    <3>2. link'[e] = kal_send(link[e], m, draw) /\ \A d \in End : d # e => link'[d] = link[d]
      BY <3>1, BecomesFacts
    <3>3. kal_send(link[e], m, draw).dup_cache = link[e].dup_cache  BY <1>1, CallsKeep
    <3> QED  BY <3>2, <3>3 DEF Cached
  <2>3. AfterSend(clock[e], link[e], link'[e]) \in ClockType  BY <1>0, <1>1, ClockKept
  <2>4. Clocked(e, AfterSend(clock[e], link[e], link'[e]))
        /\ UNCHANGED <<sounding, torn, guard, channel>>
    BY <1>2 DEF TimedSend
  <2>5. /\ clock' \in [End -> ClockType] /\ expiry' \in [End -> Seq(Life)]
        /\ \A d \in End : LivesOK(expiry'[d], link'[d])
    BY <2>2, <2>3, <2>4, ClockedOK
  <2> QED  BY <1>0, <2>4, <2>5, TimersPrimed
<1>3. CASE TimedExpire(e)
  <2>1. Becomes(e, advance_time(link[e]))  BY <1>3 DEF TimedExpire, Expire
  <2>2. Cached(link[e], link'[e]) /\ \A d \in End : d # e => link'[d] = link[d]
    BY <1>1, <2>1, BecomesFacts, CallsKeep DEF Cached
  <2>3. AfterTimeout(clock[e], link[e], link'[e]) \in ClockType  BY <1>0, <1>1, ClockKept
  <2>4. Clocked(e, AfterTimeout(clock[e], link[e], link'[e]))
        /\ UNCHANGED <<sounding, torn, guard, channel>>
    BY <1>3 DEF TimedExpire
  <2>5. /\ clock' \in [End -> ClockType] /\ expiry' \in [End -> Seq(Life)]
        /\ \A d \in End : LivesOK(expiry'[d], link'[d])
    BY <2>2, <2>3, <2>4, ClockedOK
  <2> QED  BY <1>0, <2>4, <2>5, TimersPrimed
<1>4. CASE TimedHear(e)
  <2> DEFINE h == Head(air[Peer(e)])
  <2>1. Becomes(e, handle_frame(link[e], h)) /\ air[Peer(e)] # << >>
    BY <1>4 DEF TimedHear, Hear
  <2>2. h \in AnyFrame  BY <2>1, EndFacts
  <2>3. /\ Clocked(e, AfterFrame(clock[e], h, link[e], link'[e]))
        /\ guard' = [guard EXCEPT ![e] = [frame |-> h, since |-> 0]]
        /\ UNCHANGED <<sounding, torn, channel>>
    BY <1>4 DEF TimedHear
  <2> HIDE DEF h
  <2>4. Cached(link[e], link'[e]) /\ \A d \in End : d # e => link'[d] = link[d]
    BY <1>1, <2>1, BecomesFacts, HandleFrameCached
  <2>5. AfterFrame(clock[e], h, link[e], link'[e]) \in ClockType  BY <1>0, <1>1, ClockKept
  <2>6. /\ clock' \in [End -> ClockType] /\ expiry' \in [End -> Seq(Life)]
        /\ \A d \in End : LivesOK(expiry'[d], link'[d])
    BY <2>3, <2>4, <2>5, ClockedOK
  <2>7. 0 \in 0 .. GuardTime  BY TimesAssumption DEF GuardTime
  <2>8. guard' \in [End -> [frame : AnyFrame, since : 0 .. GuardTime]]
    BY <1>0, <2>2, <2>3, <2>7
  <2> QED  BY <1>0, <2>3, <2>6, <2>8, TimersPrimed
<1> QED  BY <1>2, <1>3, <1>4

\* The oldest entry of one end reaches the end of its life.
LEMMA AgeStep ==
  ASSUME IInv, TimersOK, NEW e \in End, TimedAge(e)
  PROVE  TimersOK'
<1>1. /\ clock \in [End -> ClockType] /\ expiry \in [End -> Seq(Life)]
      /\ sounding \in [End -> 0 .. Airtime] /\ torn \in [End -> BOOLEAN]
      /\ guard \in [End -> [frame : AnyFrame, since : 0 .. GuardTime]]
      /\ channel \in [noisy : BOOLEAN, bursts : 0 .. Bursts, repeats : 0 .. Repeats]
      /\ \A d \in End : LivesOK(expiry[d], link[d])
  BY TimersParts
<1>2. /\ expiry[e] # << >> /\ link[e].dup_cache # << >>
      /\ Becomes(e, [link[e] EXCEPT !.dup_cache = Tail(@)])
      /\ expiry' = [expiry EXCEPT ![e] = Tail(@)]
      /\ UNCHANGED <<clock, sounding, torn, guard, channel>>
  BY DEF TimedAge, EntryExpired, Age
<1>3. /\ link'[e].dup_cache = Tail(link[e].dup_cache)
      /\ \A d \in End : d # e => link'[d] = link[d]
  <2> DEFINE L == [link[e] EXCEPT !.dup_cache = Tail(@)]
  <2>1. L.dup_cache = Tail(link[e].dup_cache)  BY EndFacts
  <2>2. Becomes(e, L)  BY <1>2
  <2> HIDE DEF L
  <2> QED  BY <2>1, <2>2, BecomesFacts
<1>4. Len(link'[e].dup_cache) = Len(link[e].dup_cache) - 1  BY <1>2, <1>3, EndFacts
<1>5. expiry[e] \in Seq(Life) /\ Sorted(expiry[e]) /\ Len(expiry[e]) = Len(link[e].dup_cache)
  BY <1>1 DEF LivesOK
<1>6. /\ Tail(expiry[e]) \in Seq(Life) /\ Sorted(Tail(expiry[e]))
      /\ Len(Tail(expiry[e])) = Len(expiry[e]) - 1
  BY <1>2, <1>5, SortedOps
<1>7. LivesOK(Tail(expiry[e]), link'[e])  BY <1>4, <1>5, <1>6 DEF LivesOK
<1>8. expiry' \in [End -> Seq(Life)] /\ \A d \in End : LivesOK(expiry'[d], link'[d])
  BY <1>1, <1>2, <1>3, <1>6, <1>7
<1> QED  BY <1>1, <1>2, <1>8, TimersPrimed

\* The steps that touch neither the clocks nor the lives.
LEMMA PlainStep ==
  ASSUME IInv, TimersOK, NEW e \in End,
         TimedCollect(e) \/ TimedPull(e) \/ Suppress(e) \/ Destroy(e)
  PROVE  TimersOK'
<1>1. /\ clock \in [End -> ClockType] /\ sounding \in [End -> 0 .. Airtime]
      /\ torn \in [End -> BOOLEAN]
      /\ guard \in [End -> [frame : AnyFrame, since : 0 .. GuardTime]]
      /\ channel \in [noisy : BOOLEAN, bursts : 0 .. Bursts, repeats : 0 .. Repeats]
  BY TimersParts
<1>2. CASE TimedCollect(e) \/ Suppress(e) \/ Destroy(e)
  <2>1. UNCHANGED timers  BY <1>2 DEF TimedCollect, Suppress, Destroy
  <2>2. \A d \in End : link'[d].dup_cache = link[d].dup_cache
    <3>1. CASE Suppress(e) \/ Destroy(e)  BY <3>1 DEF Suppress, Destroy, Lose
    <3>2. CASE TimedCollect(e)
      <4> DEFINE L == [link[e] EXCEPT !.delivered = NoBody]
      <4>1. L.dup_cache = link[e].dup_cache  BY EndFacts
      <4>2. Becomes(e, L)  BY <3>2 DEF TimedCollect, Collect
      <4> HIDE DEF L
      <4> QED  BY <4>1, <4>2, BecomesFacts
    <3> QED  BY <1>2, <3>1, <3>2
  <2>3. expiry' \in [End -> Seq(Life)] /\ \A d \in End : LivesOK(expiry'[d], link'[d])
    BY <2>1, <2>2, LivesKept DEF timers
  <2> QED  BY <1>1, <2>1, <2>3, TimersPrimed DEF timers
<1>3. CASE TimedPull(e)
  <2>1. /\ Becomes(e, [link[e] EXCEPT !.out_frames = Tail(@)])
        /\ sounding' = [sounding EXCEPT ![e] = Airtime]
        /\ torn' = [d \in End |-> d # e /\ (torn[d] \/ Receiving(e))]
        /\ UNCHANGED <<clock, expiry, guard, channel>>
    BY <1>3 DEF TimedPull, Pull
  <2>2. \A d \in End : link'[d].dup_cache = link[d].dup_cache
    <3> DEFINE L == [link[e] EXCEPT !.out_frames = Tail(@)]
    <3>1. L.dup_cache = link[e].dup_cache  BY EndFacts
    <3>2. Becomes(e, L)  BY <2>1
    <3> HIDE DEF L
    <3> QED  BY <3>1, <3>2, BecomesFacts
  <2>3. expiry' \in [End -> Seq(Life)] /\ \A d \in End : LivesOK(expiry'[d], link'[d])
    BY <2>1, <2>2, LivesKept
  <2>4. Airtime \in 0 .. Airtime  BY TimesAssumption
  <2>5. sounding' \in [End -> 0 .. Airtime]  BY <1>1, <2>1, <2>4
  <2>6. \A d \in End : (d # e /\ (torn[d] \/ Receiving(e))) \in BOOLEAN  OBVIOUS
  <2>7. torn' \in [End -> BOOLEAN]  BY <2>1, <2>6
  <2> QED  BY <1>1, <2>1, <2>3, <2>5, <2>7, TimersPrimed
<1> QED  BY <1>2, <1>3

\* A frame reported twice, and noise.
LEMMA ChannelStep ==
  ASSUME IInv, TimersOK, IInv', (\E e \in End : Repeat(e)) \/ NoiseBegins \/ NoiseEnds
  PROVE  TimersOK'
<1>1. /\ clock \in [End -> ClockType] /\ sounding \in [End -> 0 .. Airtime]
      /\ torn \in [End -> BOOLEAN]
      /\ guard \in [End -> [frame : AnyFrame, since : 0 .. GuardTime]]
      /\ channel \in [noisy : BOOLEAN, bursts : 0 .. Bursts, repeats : 0 .. Repeats]
  BY TimersParts
<1>2. Bursts \in Nat /\ Repeats \in Nat  BY TimesAssumption
<1>3. ASSUME NEW e \in End, Repeat(e) PROVE TimersOK'
  <2>1. /\ Becomes(e, link[e]) /\ Clocked(e, clock[e])
        /\ UNCHANGED <<sounding, torn, guard>>
        /\ channel.repeats < Repeats /\ channel' = [channel EXCEPT !.repeats = @ + 1]
    BY <1>3, RepeatsSuppressed DEF Repeat
  <2>2. link'[e] = link[e] /\ \A d \in End : d # e => link'[d] = link[d]
    BY <2>1, BecomesFacts
  <2>3. Cached(link[e], link'[e])  BY <2>2 DEF Cached
  <2>4. /\ clock' \in [End -> ClockType] /\ expiry' \in [End -> Seq(Life)]
        /\ \A d \in End : LivesOK(expiry'[d], link'[d])
    BY <1>1, <2>1, <2>2, <2>3, ClockedOK
  <2>5. channel' \in [noisy : BOOLEAN, bursts : 0 .. Bursts, repeats : 0 .. Repeats]
    BY <1>1, <1>2, <2>1
  <2> QED  BY <1>1, <2>1, <2>4, <2>5, TimersPrimed
<1>4. CASE NoiseBegins \/ NoiseEnds
  <2>1. /\ UNCHANGED <<link, clock, expiry, sounding, torn, guard>>
        /\ \/ channel.bursts < Bursts /\ channel' = [channel EXCEPT !.noisy = TRUE, !.bursts = @ + 1]
           \/ channel' = [channel EXCEPT !.noisy = FALSE]
    BY <1>4 DEF NoiseBegins, NoiseEnds, vars
  <2>2. channel' \in [noisy : BOOLEAN, bursts : 0 .. Bursts, repeats : 0 .. Repeats]
    <3>1. channel.bursts < Bursts => channel.bursts + 1 \in 0 .. Bursts  BY <1>1, <1>2
    <3>2. CASE channel' = [channel EXCEPT !.noisy = FALSE]  BY <1>1, <3>2
    <3>3. CASE channel.bursts < Bursts
               /\ channel' = [channel EXCEPT !.noisy = TRUE, !.bursts = @ + 1]
      BY <1>1, <3>1, <3>3
    <3> QED  BY <2>1, <3>2, <3>3
  <2>3. expiry' \in [End -> Seq(Life)] /\ \A d \in End : LivesOK(expiry'[d], link'[d])
    BY <2>1, LivesKept
  <2> QED  BY <1>1, <2>1, <2>2, <2>3, TimersPrimed
<1> QED  BY <1>3, <1>4

\* Time passes for every timer alike, and the lives stay in order.
LEMMA ElapseStep ==
  ASSUME IInv, TimersOK, Elapse
  PROVE  TimersOK'
<1>1. /\ clock \in [End -> ClockType] /\ sounding \in [End -> 0 .. Airtime]
      /\ torn \in [End -> BOOLEAN]
      /\ guard \in [End -> [frame : AnyFrame, since : 0 .. GuardTime]]
      /\ channel \in [noisy : BOOLEAN, bursts : 0 .. Bursts, repeats : 0 .. Repeats]
      /\ expiry \in [End -> Seq(Life)]
      /\ \A e \in End : LivesOK(expiry[e], link[e])
  BY TimersParts
<1>2. PICK d \in Awaited :
        /\ clock' = [e \in End |-> [clock[e] EXCEPT !.left = Less(@, d)]]
        /\ expiry' = [e \in End |-> [i \in DOMAIN expiry[e] |-> Less(expiry[e][i], d)]]
        /\ sounding' = [e \in End |-> Less(sounding[e], d)]
        /\ guard' = [e \in End |-> Older(guard[e], d)]
  BY DEF Elapse
<1>3. link' = link /\ torn' = torn /\ channel' = channel  BY DEF Elapse, vars
<1>4. Airtime \in Nat \ {0} /\ GuardTime \in Nat  BY TimesAssumption DEF GuardTime
<1>5. d \in Nat
  <2> DEFINE W(e) == {clock[e].left : x \in {y \in {e} : link[y].deadline_set}}
                       \cup {sounding[e] : x \in {y \in {e} : air[y] # << >>}}
                       \cup {expiry[e][i] : i \in DOMAIN expiry[e]}
  <2>0. PICK e \in End : d \in W(e)  BY DEF Awaited
  <2>1. \/ d = clock[e].left
        \/ d = sounding[e]
        \/ \E i \in DOMAIN expiry[e] : d = expiry[e][i]
    BY <2>0
  <2>2. clock[e].left \in Nat  BY <1>1 DEF ClockType
  <2>3. sounding[e] \in Nat  BY <1>1, <1>4
  <2>4. \A i \in DOMAIN expiry[e] : expiry[e][i] \in Nat
    <3> SUFFICES ASSUME NEW i \in DOMAIN expiry[e] PROVE expiry[e][i] \in Nat
      OBVIOUS
    <3>1. expiry[e] \in Seq(Life)  BY <1>1
    <3>2. expiry[e][i] \in Life  BY <3>1, ElementOfSeq
    <3> QED  BY <3>2, LifeType
  <2> QED  BY <2>1, <2>2, <2>3, <2>4
<1>6. \A x, y \in Nat : /\ Less(x, d) \in Nat /\ Less(x, d) =< x
                        /\ x =< y => Less(x, d) =< Less(y, d)
  BY <1>5 DEF Less
<1>7. clock' \in [End -> ClockType]  BY <1>1, <1>2, <1>6 DEF ClockType
<1>8. sounding' \in [End -> 0 .. Airtime]
  <2> SUFFICES ASSUME NEW e \in End PROVE Less(sounding[e], d) \in 0 .. Airtime
    BY <1>2
  <2>1. sounding[e] \in Nat /\ sounding[e] =< Airtime  BY <1>1, <1>4
  <2> QED  BY <1>4, <1>6, <2>1
<1>9. guard' \in [End -> [frame : AnyFrame, since : 0 .. GuardTime]]
  <2> SUFFICES ASSUME NEW e \in End
               PROVE  Older(guard[e], d) \in [frame : AnyFrame, since : 0 .. GuardTime]
    BY <1>2
  <2>1. NotHeard \in [frame : AnyFrame, since : 0 .. GuardTime]
    BY <1>4, ZeroFrameType DEF NotHeard, Frame
  <2>2. guard[e].since + d < GuardTime => guard[e].since + d \in 0 .. GuardTime
    BY <1>1, <1>4, <1>5
  <2>3. guard[e] \in [frame : AnyFrame, since : 0 .. GuardTime]  BY <1>1
  <2>4. CASE guard[e].since + d >= GuardTime  BY <2>1, <2>4 DEF Older
  <2>5. CASE ~(guard[e].since + d >= GuardTime)
    <3>1. guard[e].since + d < GuardTime  BY <1>4, <1>5, <2>3, <2>5
    <3>2. [guard[e] EXCEPT !.since = guard[e].since + d]
            \in [frame : AnyFrame, since : 0 .. GuardTime]
      BY <2>2, <2>3, <3>1
    <3> QED  BY <2>5, <3>2 DEF Older
  <2> QED  BY <2>4, <2>5
<1>10. ASSUME NEW e \in End PROVE expiry'[e] \in Seq(Life) /\ LivesOK(expiry'[e], link'[e])
  <2> DEFINE s == expiry[e]
             t == [i \in DOMAIN s |-> Less(s[i], d)]
  <2>1. s \in Seq(Life) /\ Sorted(s) /\ Len(s) = Len(link[e].dup_cache)
    BY <1>1 DEF LivesOK
  <2>2. ASSUME NEW i \in DOMAIN s PROVE s[i] \in Life /\ s[i] \in Nat /\ s[i] =< TTL
    <3>1. s[i] \in Life  BY <2>1, ElementOfSeq
    <3> QED  BY <3>1, LifeType
  <2>3. \A x \in Nat : x =< TTL => x \in Life  BY LifeType DEF Life
  <2>4. \A i \in DOMAIN s : t[i] \in Life  BY <1>6, <2>2, <2>3, LifeType
  <2>5. DOMAIN s = 1 .. Len(s) /\ Len(s) \in Nat  BY <2>1
  <2>6. t \in Seq(Life) /\ Len(t) = Len(s)
    <3>1. t \in [1 .. Len(s) -> Life]  BY <2>4, <2>5
    <3> HIDE DEF t
    <3> QED  BY <2>5, <3>1
  <2>7. Sorted(t)
    <3> SUFFICES ASSUME NEW i \in DOMAIN s, NEW j \in DOMAIN s, i =< j PROVE t[i] =< t[j]
      BY DEF Sorted
    <3>1. s[i] =< s[j]  BY <2>1 DEF Sorted
    <3> QED  BY <1>6, <2>2, <3>1
  <2>8. expiry'[e] = t  BY <1>2
  <2> QED  BY <1>3, <2>1, <2>6, <2>7, <2>8 DEF LivesOK
<1>11. expiry' \in [End -> Seq(Life)]  BY <1>2, <1>10
<1> QED  BY <1>1, <1>3, <1>7, <1>8, <1>9, <1>10, <1>11, TimersPrimed

----------------------------------------------------------------------------
(* The timers, from the first state through every step.                    *)

\* The timers start in order.
LEMMA TimersInit == TimedInit => TimersOK
<1> SUFFICES ASSUME TimedInit PROVE TimersOK
  OBVIOUS
<1>1. IInv  BY InitInv DEF TimedInit
<1>2. \A e \in End : /\ base_timeout(link[e].window) \in Nat \ {0}
                     /\ base_timeout(link[e].window) * KAL_TIMEOUT_CEILING_MULT \in Nat \ {0}
  BY <1>1, EndFacts, BaseType
<1>3. clock \in [End -> ClockType]  BY <1>2 DEF TimedInit, InitTimers, ClockType
<1>4. Airtime \in Nat \ {0} /\ GuardTime \in Nat /\ Bursts \in Nat /\ Repeats \in Nat
  BY TimesAssumption DEF GuardTime
<1>5. sounding \in [End -> 0 .. Airtime] /\ torn \in [End -> BOOLEAN]
  BY <1>4 DEF TimedInit, InitTimers
<1>6. guard \in [End -> [frame : AnyFrame, since : 0 .. GuardTime]]
  BY <1>4, ZeroFrameType DEF TimedInit, InitTimers, NotHeard, Frame
<1>7. channel \in [noisy : BOOLEAN, bursts : 0 .. Bursts, repeats : 0 .. Repeats]
  BY <1>4 DEF TimedInit, InitTimers
<1>8. expiry \in [End -> Seq(Life)] /\ \A e \in End : expiry[e] = << >>
  BY DEF TimedInit, InitTimers
<1>9. \A e \in End : link[e].dup_cache = << >>
  BY DEF TimedInit, Init, kal_link_create
<1>10. \A e \in End : LivesOK(expiry[e], link[e])  BY <1>8, <1>9 DEF LivesOK, Sorted
<1> QED  BY <1>3, <1>5, <1>6, <1>7, <1>8, <1>10, TimersParts

\* Every timed step keeps them so, with the invariant of KalLink.
LEMMA TimedInv ==
  IInv /\ TimersOK /\ [TimedNext]_timedVars => IInv' /\ TimersOK'
<1> SUFFICES ASSUME IInv, TimersOK, [TimedNext]_timedVars PROVE IInv' /\ TimersOK'
  OBVIOUS
<1>1. IInv'  BY StepMaps, NextInv
<1>2. CASE UNCHANGED timedVars
  <2>1. TimersOK' <=> TimersOK  BY <1>2 DEF timedVars, TimersOK
  <2> QED  BY <1>1, <2>1
<1>3. CASE Elapse  BY <1>1, <1>3, ElapseStep
<1>4. CASE (\E e \in End : Repeat(e)) \/ NoiseBegins \/ NoiseEnds
  BY <1>1, <1>4, ChannelStep
<1>5. ASSUME NEW e \in End, System(e) PROVE TimersOK'
  BY <1>1, <1>5, ClockStep, AgeStep, PlainStep DEF System
<1> QED  BY <1>1, <1>2, <1>3, <1>4, <1>5 DEF TimedNext

----------------------------------------------------------------------------
(* A transfer nothing disturbs.  An end whose peer sends nothing of its own *)
(* is in step with it: exactly one of the two has the floor, the rest of a  *)
(* batch or its answer is all that is on its way, and the sender's deadline *)
(* is later than both.                                                      *)

\* What the timeouts take for granted: a quarter of two airtimes is some time at all, the
\* ends share a profile and accept each other's messages, a window fits the queue, and a
\* cached message id is forgotten before 16 bits bring it back.
Fits ==
  /\ Airtime >= 2
  /\ DupCacheEntries < 32768
  /\ \A e, d \in End : Profile[e] = Profile[d]
  /\ \A e \in End : /\ Window[e] =< OutQueueFrames
                    /\ \A n \in 1 .. Len(Outbox[e]) : Outbox[e][n] \in Accepts[Peer(e)]

Log(M)  == M.stats.messages_delivered
Sent(L) == L.stats.messages_sent

\* The id an end takes for the message after n confirmed ones.
IdAfter(role, n) == (FirstMessageId(role) + 2 * n) % 65536
NextId(L) == IdAfter(L.role, Len(Sent(L)))
LastId(L) == IdAfter(L.role, Len(Sent(L)) - 1)

\* The end of the batch under way, and what is left of it after segment h - 1.
Upto(L) == IF L.tx.base + L.window < L.tx.total THEN L.tx.base + L.window ELSE L.tx.total
Batched(L, h) == [i \in 1 .. Upto(L) - h |-> DataFrame(L, h + i - 1)]

PartialAck(L, base) ==
  [ZeroFrame EXCEPT !.type = "ACK", !.session_id = L.session_id,
     !.message_id = L.tx.message_id, !.sequence = base, !.bitmap = {}]
FinalAck(L) ==
  [ZeroFrame EXCEPT !.type = "ACK", !.session_id = L.session_id,
     !.message_id = L.tx.message_id, !.sequence = L.tx.total, !.flag = TRUE]
Reply(L, M) == [build_hello(M, "HELLO_ACK") EXCEPT !.message_id = L.next_message_id]

\* A sender L and its silent peer M, with c on its way from L to M and k on its way back;
\* L heard gL last, and M heard gM.

\* Nothing has been said yet.
Unheard(L, M) ==
  /\ ~L.session_open /\ Sent(L) = << >> /\ Log(M) = << >> /\ M.rx = NoRx
  /\ L.tx.acked = {} /\ L.tx.inflight = {} /\ L.tx.base = 0

Joined(L, M) == M.session_open /\ M.session_id = L.session_id

Waiting(L, M, c, k, gM) ==
  /\ Unheard(L, M) /\ ~M.session_open
  /\ ~L.hello_pending /\ ~L.deadline_set /\ (L.role = "initiator" => ~L.tx.active)
  /\ c = << >> /\ k = << >> /\ gM.type = "NONE"

Greeting(L, M, c, k, gM) ==
  /\ Unheard(L, M)
  /\ L.hello_pending /\ L.deadline_set /\ L.tx.active
  /\ \/ ~M.session_open /\ c = <<build_hello(L, "HELLO")>> /\ k = << >> /\ gM.type = "NONE"
     \/ /\ Joined(L, M) /\ M.challenge = L.challenge /\ M.window =< L.window
        /\ c = << >> /\ k = <<Reply(L, M)>> /\ gM.type # "DATA"

Idle(L, M, c, k) ==
  /\ L.tx = NoTx /\ ~L.deadline_set
  /\ c = << >> /\ k = << >>
  /\ M.rx = NoRx /\ Log(M) = Sent(L)

\* M has the first h segments of what L is sending.
HasFirst(L, M, h) ==
  /\ M.rx.active /\ M.rx.session_id = L.session_id /\ M.rx.message_id = L.tx.message_id
  /\ M.rx.total = L.tx.total
  /\ M.rx.payload = [s \in Segment |-> IF s < h THEN L.tx.payload ELSE NoBody]

Holding(L, M, h) ==
  /\ Log(M) = Sent(L)
  /\ IF h = 0 THEN M.rx = NoRx ELSE HasFirst(L, M, h)

InFlight(L) ==
  /\ L.tx.active /\ L.deadline_set
  /\ L.tx.base < L.tx.total /\ L.tx.base % L.window = 0
  /\ L.tx.acked = 0 .. L.tx.base - 1 /\ L.tx.inflight = L.tx.base .. Upto(L) - 1

Sending(L, M, c, k, h) ==
  /\ InFlight(L) /\ h \in L.tx.base .. Upto(L) - 1
  /\ c = Batched(L, h) /\ k = << >>
  /\ Holding(L, M, h)

Answered(L, M, c, k, h) ==
  /\ InFlight(L) /\ h = Upto(L) /\ c = << >>
  /\ IF h < L.tx.total THEN k = <<PartialAck(L, h)>> /\ Holding(L, M, h)
     ELSE /\ k = <<FinalAck(L)>>
          /\ M.rx = NoRx /\ Log(M) = Append(Sent(L), L.tx.payload)

\* What either heard last is not what it hears next.
Apart(L, gL, gM, h) ==
  /\ gM.type = "DATA" => IF h = 0 THEN Sent(L) # << >> /\ gM.message_id = LastId(L)
                         ELSE gM.message_id = L.tx.message_id /\ gM.sequence < h
  /\ gL.type = "ACK" => IF L.tx.base = 0
                        THEN gL.flag /\ Sent(L) # << >> /\ gL.message_id = LastId(L)
                        ELSE ~gL.flag /\ gL.sequence =< L.tx.base

Talking(L, M, c, k, h) ==
  \/ Idle(L, M, c, k) /\ h = 0
  \/ Sending(L, M, c, k, h)
  \/ Answered(L, M, c, k, h)

Open(L, M, c, k, gL, gM) ==
  /\ L.session_open /\ ~L.hello_pending /\ Joined(L, M) /\ M.window = L.window
  /\ \E h \in 0 .. MaxSegments : Talking(L, M, c, k, h) /\ Apart(L, gL, gM, h)

\* The cache of M has the keys of the last messages L has sent.
Remembered(L, M) ==
  /\ Len(M.dup_cache) =< Len(Log(M))
  /\ \A i \in DOMAIN M.dup_cache :
       M.dup_cache[i].message_id = IdAfter(L.role, Len(Log(M)) - Len(M.dup_cache) + i - 1)

Pair(L, M, c, k, gL, gM) ==
  /\ M.tx = NoTx /\ ~M.hello_pending /\ ~M.deadline_set
  /\ L.delivered = NoBody /\ L.profile = M.profile /\ M.window =< OutQueueFrames
  /\ L.next_message_id = NextId(L)
  /\ L.tx.active => L.tx.message_id = L.next_message_id /\ L.tx.payload \in M.accepts
  /\ Remembered(L, M)
  /\ \/ Waiting(L, M, c, k, gM) /\ gL.type = "NONE"
     \/ Greeting(L, M, c, k, gM) /\ gL.type = "NONE"
     \/ Open(L, M, c, k, gL, gM)

\* What is on its way from e, and how long it takes.
Way(e) == air[e] \o link[e].out_frames
ToGo(e) == Airtime * Len(link[e].out_frames) + (IF air[e] = << >> THEN 0 ELSE sounding[e])

\* The deadline of s leaves time for what is on its way and for the answer to it.
InTime(s) ==
  LET r == Peer(s) IN
  link[s].deadline_set =>
    clock[s].left > ToGo(s) + (IF Way(s) # << >> THEN Airtime ELSE ToGo(r))

Lockstep(s) ==
  LET r == Peer(s) IN
  /\ Pair(link[s], link[r], Way(s), Way(r), guard[s].frame, guard[r].frame)
  /\ link[r].accepts = Accepts[r]
  /\ ~channel.noisy /\ \A e \in End : ~torn[e] /\ Len(air[e]) =< 1
  /\ InTime(s)
  /\ link[r].delivered # NoBody => Way(r) # << >> /\ (air[r] # << >> => sounding[r] = Airtime)

InSilence == channel.bursts = 0 => \A s \in End : Outbox[Peer(s)] = << >> => Lockstep(s)
----------------------------------------------------------------------------
(* Arithmetic and sequences.                                               *)

\* Message ids go up by two, modulo 16 bits, and fewer than 32768 steps apart they differ.
LEMMA Ids ==
  ASSUME NEW role, NEW n \in Nat
  PROVE  /\ IdAfter(role, n + 1) = (IdAfter(role, n) + 2) % 65536
         /\ \A i \in Nat : i < n /\ n - i < 32768 => IdAfter(role, i) # IdAfter(role, n)
<1> DEFINE q == FirstMessageId(role)
<1>1. q \in {0, 1}  BY DEF FirstMessageId
<1>2. \A i : IdAfter(role, i) = (q + 2 * i) % 65536  BY DEF IdAfter
<1> HIDE DEF q
<1>3. (q + 2 * (n + 1)) % 65536 = (((q + 2 * n) % 65536) + 2) % 65536  BY <1>1
<1>4. ASSUME NEW i \in Nat, i < n, n - i < 32768
      PROVE  (q + 2 * i) % 65536 # (q + 2 * n) % 65536
  BY <1>1, <1>4
<1> QED  BY <1>2, <1>3, <1>4

\* Counted from a multiple of the window, the next multiple is a window further.
LEMMA WindowEnds ==
  ASSUME NEW w \in 1 .. 16, NEW b \in Nat, b % w = 0, NEW x \in b + 1 .. b + w
  PROVE  x % w = 0 <=> x = b + w
<1>1. w \in {1,2,3,4,5,6,7,8,9,10,11,12,13,14,15,16}  OBVIOUS
<1>2. CASE w \in {1, 2, 3, 4, 5, 6, 7, 8}  BY <1>2
<1>3. CASE w \in {9, 10, 11, 12, 13, 14, 15, 16}  BY <1>3
<1> QED  BY <1>1, <1>2, <1>3

\* Of two parts of which one is empty the other is the whole, and what follows one
\* frame is the tail.
LEMMA Parts ==
  ASSUME NEW S, NEW s \in Seq(S), NEW t \in Seq(S)
  PROVE  /\ s \o t = << >> <=> s = << >> /\ t = << >>
         /\ s = << >> => s \o t = t
         /\ t = << >> => s \o t = s
         /\ s # << >> /\ Len(s) =< 1 => /\ s = <<Head(s)>> /\ Tail(s) = << >> /\ Head(s) \in S
                                        /\ Head(s \o t) = Head(s) /\ Tail(s \o t) = t
                                        /\ s \o t # << >>
                                        /\ Len(s \o t) = Len(t) + 1
<1>1. s \o t \in Seq(S) /\ Len(s \o t) = Len(s) + Len(t) /\ Len(s) \in Nat /\ Len(t) \in Nat
  OBVIOUS
<1>2. s = << >> => s \o t = t  OBVIOUS
<1>3. t = << >> => s \o t = s  OBVIOUS
<1>4. s \o t = << >> <=> s = << >> /\ t = << >>  BY <1>1
<1>5. ASSUME s # << >>, Len(s) =< 1
      PROVE  /\ s = <<Head(s)>> /\ Tail(s) = << >> /\ Head(s) \in S
             /\ Head(s \o t) = Head(s) /\ Tail(s \o t) = t
             /\ s \o t # << >> /\ Len(s \o t) = Len(t) + 1
  <2>1. Len(s) = 1
    <3> DEFINE n == Len(s)
    <3>1. n \in Nat /\ n # 0 /\ n =< 1  BY <1>5, EmptySeq
    <3> HIDE DEF n
    <3>2. n = 1  BY <3>1
    <3> QED  BY <3>2 DEF n
  <2>2. s = <<Head(s)>> /\ Head(s) \in S /\ Tail(s) = << >>
    <3>1. Head(s) \in S /\ Tail(s) \in Seq(S) /\ Len(Tail(s)) = 0
      BY <1>5, <2>1, HeadTailProperties
    <3>2. Tail(s) = << >>  BY <3>1, EmptySeq
    <3>3. Head(s) = s[1]  BY <2>1
    <3>4. <<Head(s)>> \in Seq(S) /\ Len(<<Head(s)>>) = 1 /\ <<Head(s)>>[1] = s[1]
      BY <3>1, <3>3
    <3>5. s = <<Head(s)>>
      <4> DEFINE z == <<Head(s)>>
      <4>1. \A i \in 1 .. 1 : z[i] = s[i]  BY <3>4
      <4> HIDE DEF z
      <4> QED  BY <2>1, <3>4, <4>1, SeqEqual DEF z
    <3> QED  BY <3>1, <3>2, <3>5
  <2>3. s \o t # << >> /\ Len(s \o t) = Len(t) + 1  BY <1>1, <1>4, <1>5, <2>1
  <2>4. Head(s \o t) = Head(s)
    <3>1. (s \o t)[1] = s[1]  BY <1>1, <2>1
    <3> QED  BY <1>1, <1>5, <2>3, <3>1
  <2>5. Tail(s \o t) = t
    <3>1. Tail(s \o t) \in Seq(S) /\ Len(Tail(s \o t)) = Len(t)  BY <1>1, <2>1, <2>3
    <3>2. ASSUME NEW i \in 1 .. Len(t) PROVE Tail(s \o t)[i] = t[i]
      <4>1. Tail(s \o t)[i] = (s \o t)[i + 1]  BY <1>1, <2>1, <2>3
      <4>2. i + 1 \in 1 .. Len(s) + Len(t) /\ i + 1 > Len(s) /\ (i + 1) - Len(s) = i
        BY <1>1, <2>1
      <4>3. (s \o t)[i + 1] = t[(i + 1) - Len(s)]  BY <1>1, <4>2
      <4> QED  BY <4>1, <4>2, <4>3
    <3> QED  BY <3>1, <3>2, SeqEqual
  <2> QED  BY <2>2, <2>3, <2>4, <2>5
<1> QED  BY <1>1, <1>2, <1>3, <1>4, <1>5

\* The batch gets shorter at its front.
LEMMA BatchedParts ==
  ASSUME NEW L, NEW h \in Nat, Upto(L) \in Nat, h =< Upto(L)
  PROVE  /\ Len(Batched(L, h)) = Upto(L) - h
         /\ Batched(L, h) = << >> <=> h = Upto(L)
         /\ h < Upto(L) => /\ Head(Batched(L, h)) = DataFrame(L, h)
                           /\ Tail(Batched(L, h)) = Batched(L, h + 1)
<1> DEFINE S == {DataFrame(L, s) : s \in Nat}
           n == Upto(L) - h
<1>1. n \in Nat /\ \A i \in 1 .. n : DataFrame(L, h + i - 1) \in S  OBVIOUS
<1>2. Batched(L, h) \in Seq(S) /\ Len(Batched(L, h)) = n
      /\ \A i \in 1 .. n : Batched(L, h)[i] = DataFrame(L, h + i - 1)
  <2> HIDE DEF S, n
  <2>1. Batched(L, h) = [i \in 1 .. n |-> DataFrame(L, h + i - 1)]  BY DEF Batched, n
  <2> QED  BY <1>1, <2>1
<1>3. ASSUME h < Upto(L)
      PROVE Head(Batched(L, h)) = DataFrame(L, h) /\ Tail(Batched(L, h)) = Batched(L, h + 1)
  <2>1. h + 1 - 1 = h /\ 1 \in 1 .. n /\ Batched(L, h) # << >>  BY <1>2, <1>3
  <2>2. Head(Batched(L, h)) = DataFrame(L, h)  BY <1>2, <2>1
  <2>3. \A i \in 1 .. n - 1 : DataFrame(L, h + 1 + i - 1) \in S  BY <1>1
  <2>4. Batched(L, h + 1) \in Seq(S) /\ Len(Batched(L, h + 1)) = n - 1
        /\ \A i \in 1 .. n - 1 : Batched(L, h + 1)[i] = DataFrame(L, h + 1 + i - 1)
    <3>1. n - 1 \in Nat /\ Upto(L) - (h + 1) = n - 1  BY <1>3
    <3> HIDE DEF S, n
    <3>2. Batched(L, h + 1) = [i \in 1 .. n - 1 |-> DataFrame(L, h + 1 + i - 1)]
      BY <3>1 DEF Batched
    <3> QED  BY <2>3, <3>1, <3>2
  <2>5. Tail(Batched(L, h)) \in Seq(S) /\ Len(Tail(Batched(L, h))) = n - 1
        /\ \A i \in 1 .. n - 1 : Tail(Batched(L, h))[i] = Batched(L, h)[i + 1]
    BY <1>2, <2>1
  <2>6. \A i \in 1 .. n - 1 : Tail(Batched(L, h))[i] = Batched(L, h + 1)[i]
    <3> SUFFICES ASSUME NEW i \in 1 .. n - 1 PROVE Tail(Batched(L, h))[i] = Batched(L, h + 1)[i]
      OBVIOUS
    <3>1. i + 1 \in 1 .. n /\ h + (i + 1) - 1 = h + 1 + i - 1  OBVIOUS
    <3> QED  BY <1>2, <2>4, <2>5, <3>1
  <2>7. Tail(Batched(L, h)) = Batched(L, h + 1)
    <3> HIDE DEF S, n
    <3> QED  BY <2>4, <2>5, <2>6, SeqEqual
  <2> QED  BY <2>2, <2>7
<1> QED  BY <1>2, <1>3

\* The members of an interval in order.
LEMMA IntervalRanks ==
  ASSUME NEW b \in Nat, NEW u \in Nat, b =< u
  PROVE  /\ Cardinality(b .. u - 1) = u - b
         /\ \A s \in b .. u - 1 : Rank(b .. u - 1, s) = s - b
         /\ \A j \in 0 .. u - b - 1 : Ranked(b .. u - 1, j) = b + j
<1>1. ASSUME NEW v \in Nat, b =< v PROVE Cardinality(b .. v - 1) = v - b
  <2>1. v - 1 \in Int /\ b \in Int  OBVIOUS
  <2>2. Cardinality(b .. v - 1) = IF b > v - 1 THEN 0 ELSE (v - 1) - b + 1  BY <2>1, FS_Interval
  <2> QED  BY <1>1, <2>2
<1>2. ASSUME NEW s \in b .. u - 1 PROVE Rank(b .. u - 1, s) = s - b
  <2>1. {t \in b .. u - 1 : t < s} = b .. s - 1  OBVIOUS
  <2>2. s \in Nat /\ b =< s  OBVIOUS
  <2> QED  BY <1>1, <2>1, <2>2 DEF Rank
<1>3. ASSUME NEW j \in 0 .. u - b - 1 PROVE Ranked(b .. u - 1, j) = b + j
  <2>1. b + j \in b .. u - 1 /\ Rank(b .. u - 1, b + j) = j  BY <1>2
  <2>2. \A s \in b .. u - 1 : Rank(b .. u - 1, s) = j => s = b + j  BY <1>2
  <2> QED  BY <2>1, <2>2 DEF Ranked
<1> QED  BY <1>1, <1>2, <1>3

----------------------------------------------------------------------------
(* A transfer that starts or goes on queues the whole of its next batch.   *)

Numbers(L) ==
  /\ L.window \in 1 .. 16 /\ L.tx.base \in Nat /\ L.tx.total \in 0 .. MaxSegments
  /\ MaxSegments \in 1 .. KAL_MAX_SEGMENTS

Fields == {"role", "profile", "window", "accepts", "session_open", "hello_pending", "session_id",
           "challenge", "next_message_id", "tx", "deadline_set", "rx", "dup_cache", "delivered",
           "out_frames", "stats"}
TxFields == {"active", "started", "message_id", "total", "base", "retries", "payload", "acked",
             "inflight"}
RxFields == {"active", "session_id", "message_id", "total", "payload", "ack_valid", "ack_cached"}
Shaped(L) == /\ Fields \subseteq DOMAIN L
             /\ TxFields \subseteq DOMAIN L.tx /\ RxFields \subseteq DOMAIN L.rx

Ready(L) ==
  /\ Numbers(L) /\ L.tx.active /\ L.out_frames = << >> /\ L.window =< OutQueueFrames
  /\ L.tx.base < L.tx.total /\ L.tx.base % L.window = 0
  /\ L.tx.acked = 0 .. L.tx.base - 1 /\ L.tx.inflight = {}

\* The batch under way is not empty and ends within a window and within the message.
LEMMA UptoBounds ==
  ASSUME NEW L, Numbers(L), L.tx.base < L.tx.total
  PROVE  /\ Upto(L) \in L.tx.base + 1 .. L.tx.base + L.window
         /\ Upto(L) =< L.tx.total /\ Upto(L) \in 1 .. MaxSegments
         /\ Upto(L) < L.tx.total => Upto(L) = L.tx.base + L.window
  BY DEF Numbers, Upto, KAL_MAX_SEGMENTS

\* What is eligible, and what of it is batched.
LEMMA ReadyBatch ==
  ASSUME NEW L, Ready(L)
  PROVE  Batch(L) = L.tx.base .. Upto(L) - 1
<1> DEFINE b == L.tx.base
           t == L.tx.total
           u == Upto(L)
<1>1. /\ b \in Nat /\ t \in Nat /\ u \in Nat /\ b < u /\ u =< t /\ t =< MaxSegments
      /\ L.window \in 1 .. 16 /\ MaxSegments \in Nat /\ OutQueueFrames \in Nat
      /\ L.window =< OutQueueFrames /\ u =< b + L.window
      /\ u < t => u = b + L.window
  BY UptoBounds, BoundsAssumption DEF Ready, Numbers, KAL_MAX_SEGMENTS
<1>2. Eligible(L) = b .. t - 1
  <2>1. Eligible(L) = {s \in Segment : b =< s /\ s < t /\ s \notin 0 .. b - 1}
    BY DEF Eligible, Ready
  <2> HIDE DEF b, t
  <2> QED  BY <1>1, <2>1 DEF Segment
<1>3. \A s \in b .. t - 1 : Rank(b .. t - 1, s) = s - b
  <2> HIDE DEF b, t
  <2> QED  BY <1>1, IntervalRanks
<1>4. Len(L.out_frames) = 0  BY DEF Ready
<1>5. Batch(L) = {s \in b .. t - 1 : s - b < L.window /\ s - b < OutQueueFrames - 0}
  BY <1>2, <1>3, <1>4 DEF Batch
<1> HIDE DEF b, t, u
<1>6. {s \in b .. t - 1 : s - b < L.window /\ s - b < OutQueueFrames - 0} = b .. u - 1
  BY <1>1
<1> QED  BY <1>5, <1>6 DEF b, u

\* start_or_resume_tx queues the batch, and arms the deadline.
LEMMA ReadyStarts ==
  ASSUME NEW L, Ready(L), Shaped(L)
  PROVE  LET N == start_or_resume_tx(L) IN
         /\ N = [L EXCEPT !.out_frames = Batched(L, L.tx.base), !.deadline_set = TRUE,
                   !.tx = [L.tx EXCEPT !.inflight = L.tx.base .. Upto(L) - 1, !.started = TRUE]]
         /\ Upto(N) = Upto(L) /\ Batched(N, N.tx.base) = N.out_frames
         /\ InFlight(N) /\ Numbers(N) /\ Len(N.out_frames) = Upto(L) - L.tx.base
<1> DEFINE b == L.tx.base
           u == Upto(L)
           B == b .. u - 1
           queued == [i \in 1 .. Cardinality(B) |-> DataFrame(L, Ranked(B, i - 1))]
           N == start_or_resume_tx(L)
<1>0. /\ "out_frames" \in DOMAIN L /\ "tx" \in DOMAIN L /\ "deadline_set" \in DOMAIN L
      /\ "window" \in DOMAIN L /\ "session_id" \in DOMAIN L
      /\ "inflight" \in DOMAIN L.tx /\ "started" \in DOMAIN L.tx /\ "base" \in DOMAIN L.tx
      /\ "total" \in DOMAIN L.tx /\ "acked" \in DOMAIN L.tx /\ "active" \in DOMAIN L.tx
      /\ "message_id" \in DOMAIN L.tx /\ "payload" \in DOMAIN L.tx
  BY DEF Shaped, Fields, TxFields
<1>1. b \in Nat /\ u \in Nat /\ b < u  BY UptoBounds DEF Ready, Numbers
<1>2. Batch(L) = B  BY ReadyBatch
<1>3. /\ Cardinality(B) = u - b /\ b \in B
      /\ \A i \in 1 .. u - b : Ranked(B, i - 1) = b + i - 1
  <2>1. b =< u /\ b \in B  BY <1>1
  <2>2. Cardinality(B) = u - b /\ \A j \in 0 .. u - b - 1 : Ranked(B, j) = b + j
    <3> HIDE DEF b, u
    <3> QED  BY <1>1, <2>1, IntervalRanks
  <2> HIDE DEF b, u, B
  <2>3. \A i \in 1 .. u - b : i - 1 \in 0 .. u - b - 1 /\ b + (i - 1) = b + i - 1  BY <1>1
  <2> QED  BY <2>1, <2>2, <2>3
<1>4. queued = Batched(L, b)
  <2>1. \A i \in 1 .. u - b : Ranked(B, i - 1) = b + i - 1  BY <1>3
  <2> HIDE DEF b, B
  <2> QED  BY <1>3, <2>1 DEF Batched
<1>5. Len(Batched(L, b)) = u - b
  <2> HIDE DEF b
  <2> QED  BY <1>1, BatchedParts
<1>6. << >> \o queued = queued
  <2>1. Batched(L, b) = [i \in 1 .. u - b |-> DataFrame(L, b + i - 1)]  BY DEF Batched
  <2>2. Batched(L, b) \in Seq({DataFrame(L, s) : s \in Nat})
    <3> HIDE DEF b, u
    <3>1. u - b \in Nat /\ \A i \in 1 .. u - b : b + i - 1 \in Nat  BY <1>1
    <3>2. \A i \in 1 .. u - b : DataFrame(L, b + i - 1) \in {DataFrame(L, s) : s \in Nat}
      BY <3>1
    <3> QED  BY <2>1, <3>1, <3>2
  <2> HIDE DEF queued, b
  <2> QED  BY <1>4, <2>2
<1> DEFINE tx == [L.tx EXCEPT !.inflight = B, !.started = TRUE]
<1>7. N = [L EXCEPT !.out_frames = queued, !.deadline_set = TRUE, !.tx = tx]
  <2>1. L.out_frames = << >> /\ L.tx.inflight \cup B = B  BY DEF Ready
  <2> DEFINE Q == queue_window(L)
  <2>2. Q = [L EXCEPT !.out_frames = queued, !.tx = [L.tx EXCEPT !.inflight = B]]
    <3>1. Q = [L EXCEPT !.out_frames = @ \o queued,
                         !.tx = [L.tx EXCEPT !.inflight = @ \cup B]]
      BY <1>2 DEF queue_window
    <3> HIDE DEF queued, B
    <3> QED  BY <1>6, <2>1, <3>1
  <2>3. N = [Q EXCEPT !.tx = [Q.tx EXCEPT !.started = TRUE], !.deadline_set = TRUE]
    BY <1>2, <1>3 DEF start_or_resume_tx
  <2> HIDE DEF queued, B, Q, N
  <2>4. Q.tx = [L.tx EXCEPT !.inflight = B]  BY <1>0, <2>2
  <2>5. [Q.tx EXCEPT !.started = TRUE] = tx  BY <2>4
  <2> HIDE DEF tx
  <2> QED  BY <2>2, <2>3, <2>5
<1> HIDE DEF queued
<1>8. /\ N.out_frames = Batched(L, b) /\ N.deadline_set = TRUE /\ N.tx = tx
      /\ N.window = L.window /\ N.session_id = L.session_id
  <2> HIDE DEF tx, b, N
  <2> QED  BY <1>0, <1>4, <1>7
<1>9. /\ tx.inflight = B /\ tx.base = b /\ tx.total = L.tx.total /\ tx.acked = L.tx.acked
      /\ tx.active = L.tx.active /\ tx.message_id = L.tx.message_id /\ tx.payload = L.tx.payload
  BY <1>0
<1>10. Upto(N) = u  BY <1>8, <1>9 DEF Upto
<1>11. Batched(N, b) = Batched(L, b)
  <2>1. \A s : DataFrame(N, s) = DataFrame(L, s)  BY <1>8, <1>9 DEF DataFrame
  <2> HIDE DEF N, b
  <2> QED  BY <1>10, <2>1 DEF Batched
<1>12. InFlight(N) /\ Numbers(N)
  <2> HIDE DEF N, tx
  <2> QED  BY <1>8, <1>9, <1>10 DEF Ready, InFlight, Numbers
<1> QED  BY <1>4, <1>5, <1>7, <1>8, <1>9, <1>10, <1>11, <1>12

----------------------------------------------------------------------------
(* A sender and its silent peer.                                           *)

Ends(L, M) == /\ L \in EndState(Message, Message) /\ TxBooks(L.tx)
              /\ M \in EndState(Message, Message)

\* The types the steps use.
LEMMA EndsTypes ==
  ASSUME NEW L, NEW M, Ends(L, M)
  PROVE  /\ Numbers(L) /\ M.window \in 1 .. 16
         /\ L.profile \in 0 .. 5 /\ L.next_message_id \in Nat
         /\ L.tx \in TxState(Message) /\ L.tx.message_id \in Nat
         /\ L.tx.active => L.tx.payload \in Message /\ L.tx.total = Segments[L.tx.payload]
                           /\ L.tx.total \in 1 .. MaxSegments
         /\ Sent(L) \in Seq(Message \cup {NoBody}) /\ Log(M) \in Seq(Message)
         /\ Len(Sent(L)) \in Nat /\ Len(Log(M)) \in Nat
         /\ M.dup_cache \in Seq(DupEntry) /\ M.accepts \subseteq Message
<1>1. /\ L.window \in KAL_MIN_WINDOW_FRAMES .. KAL_MAX_WINDOW_FRAMES
      /\ M.window \in KAL_MIN_WINDOW_FRAMES .. KAL_MAX_WINDOW_FRAMES
      /\ L.profile \in 0 .. KAL_PROFILE_COUNT - 1
      /\ L.tx \in TxState(Message) /\ L.next_message_id \in Nat
      /\ L.stats \in Stats(Message, Message) /\ M.stats \in Stats(Message, Message)
      /\ M.dup_cache \in Seq(DupEntry) /\ M.accepts \subseteq Message
  BY DEF Ends, EndState
<1>2. L.window \in 1 .. 16 /\ M.window \in 1 .. 16 /\ L.profile \in 0 .. 5
  BY <1>1 DEF KAL_MIN_WINDOW_FRAMES, KAL_MAX_WINDOW_FRAMES, KAL_PROFILE_COUNT
<1>3. /\ L.tx.total \in 0 .. MaxSegments /\ L.tx.base \in 0 .. MaxSegments
      /\ L.tx.message_id \in Nat /\ L.tx.payload \in Message \cup {NoBody}
  BY <1>1 DEF TxState
<1>4. MaxSegments \in 1 .. KAL_MAX_SEGMENTS /\ Segments \in [Message -> 1 .. MaxSegments]
  BY DataAssumption
<1>5. L.tx.base \in Nat  BY <1>3, <1>4 DEF KAL_MAX_SEGMENTS
<1>6. L.tx.active => L.tx.payload \in Message /\ L.tx.total = Segments[L.tx.payload]
                     /\ L.tx.total \in 1 .. MaxSegments
  <2>1. L.tx.active => L.tx.payload # NoBody /\ L.tx.total = Segments[L.tx.payload]
    BY DEF Ends, TxBooks
  <2> QED  BY <1>3, <1>4, <2>1
<1>7. Sent(L) \in Seq(Message \cup {NoBody}) /\ Log(M) \in Seq(Message)
  BY <1>1 DEF Stats, Sent, Log
<1>8. Len(Sent(L)) \in Nat /\ Len(Log(M)) \in Nat  BY <1>7
<1> QED  BY <1>1, <1>2, <1>3, <1>4, <1>5, <1>6, <1>7, <1>8 DEF Numbers

\* The fields of L, apart from the transfer, that Pair reads.
Same(L, N) ==
  /\ N.role = L.role /\ N.profile = L.profile /\ N.session_id = L.session_id
  /\ N.challenge = L.challenge /\ N.next_message_id = L.next_message_id
  /\ N.delivered = L.delivered /\ N.stats = L.stats

\* A transfer under way is on the air, in one direction; the peer waits for nothing.
LEMMA OneWay ==
  ASSUME NEW L, NEW M, Ends(L, M), NEW c, NEW k, NEW gL, NEW gM, Pair(L, M, c, k, gL, gM)
  PROVE  /\ c = << >> \/ k = << >>
         /\ L.deadline_set => c # << >> \/ k # << >>
         /\ ~M.deadline_set
<1>1. CASE Waiting(L, M, c, k, gM)  BY <1>1 DEF Waiting, Pair
<1>2. CASE Greeting(L, M, c, k, gM)
  <2>1. \A x : <<x>> # << >>  OBVIOUS
  <2> QED  BY <1>2, <2>1 DEF Greeting, Pair
<1>3. CASE Open(L, M, c, k, gL, gM)
  <2>1. PICK h \in 0 .. MaxSegments : Talking(L, M, c, k, h)  BY <1>3 DEF Open
  <2>2. CASE Idle(L, M, c, k)  BY <2>2 DEF Idle, Pair
  <2>3. CASE Sending(L, M, c, k, h)
    <3>1. Numbers(L) /\ L.tx.base < L.tx.total  BY <2>3, EndsTypes DEF Sending, InFlight
    <3>2. Upto(L) \in Nat /\ h \in Nat /\ h < Upto(L)
      BY <2>3, <3>1, UptoBounds DEF Sending, Numbers, KAL_MAX_SEGMENTS
    <3>3. c # << >> /\ k = << >>  BY <2>3, <3>2, BatchedParts DEF Sending
    <3> QED  BY <3>3 DEF Pair
  <2>4. CASE Answered(L, M, c, k, h)
    <3>1. \A x : <<x>> # << >>  OBVIOUS
    <3>2. c = << >> /\ k # << >>  BY <2>4, <3>1 DEF Answered
    <3> QED  BY <3>2 DEF Pair
  <2> QED  BY <2>1, <2>2, <2>3, <2>4 DEF Talking
<1> QED  BY <1>1, <1>2, <1>3 DEF Pair

\* The sender's transfer has begun, or goes on, with a batch from h.
LEMMA BatchSent ==
  ASSUME NEW L, NEW M, NEW S, Ready(S), NEW h \in 0 .. MaxSegments, h = S.tx.base,
         Shaped(S),
         Same(L, S), S.session_open, ~S.hello_pending, Joined(L, M), M.window = S.window,
         S.tx.message_id = L.next_message_id, S.tx.payload \in M.accepts,
         Holding(S, M, h), Remembered(L, M),
         M.tx = NoTx /\ ~M.hello_pending /\ ~M.deadline_set,
         L.delivered = NoBody, L.profile = M.profile, M.window =< OutQueueFrames,
         L.next_message_id = NextId(L),
         NEW gL, NEW gM, Apart(S, gL, gM, h)
  PROVE  LET N == start_or_resume_tx(S) IN
         /\ Pair(N, M, N.out_frames, << >>, gL, gM)
         /\ N.tx.inflight = S.tx.base .. Upto(S) - 1 /\ Upto(S) \in Nat /\ S.tx.base < Upto(S)
         /\ Len(N.out_frames) = Upto(S) - S.tx.base
         /\ ~N.hello_pending /\ N.deadline_set
<1> DEFINE N == start_or_resume_tx(S)
           tx == [S.tx EXCEPT !.inflight = S.tx.base .. Upto(S) - 1, !.started = TRUE]
<1>1. /\ N = [S EXCEPT !.out_frames = Batched(S, S.tx.base), !.deadline_set = TRUE, !.tx = tx]
      /\ Upto(N) = Upto(S) /\ Batched(N, N.tx.base) = N.out_frames
      /\ InFlight(N) /\ Numbers(N) /\ Len(N.out_frames) = Upto(S) - S.tx.base
  BY ReadyStarts
<1>2. /\ tx.inflight = S.tx.base .. Upto(S) - 1 /\ tx.base = S.tx.base
      /\ tx.total = S.tx.total /\ tx.message_id = S.tx.message_id /\ tx.payload = S.tx.payload
  BY DEF Shaped, TxFields
<1> HIDE DEF N, tx
<1>3. /\ Same(S, N) /\ N.window = S.window /\ N.session_open = S.session_open
      /\ N.hello_pending = S.hello_pending /\ N.deadline_set = TRUE /\ N.tx = tx
  BY <1>1 DEF Same, Shaped, Fields
<1>4. Upto(S) \in Nat /\ S.tx.base < Upto(S) /\ S.tx.base \in Nat
  BY UptoBounds DEF Ready, Numbers, KAL_MAX_SEGMENTS
<1>5. h \in N.tx.base .. Upto(N) - 1  BY <1>1, <1>2, <1>3, <1>4
<1>6. Holding(N, M, h)  BY <1>2, <1>3 DEF Holding, HasFirst, Same, Sent
<1>7. Sending(N, M, N.out_frames, << >>, h)  BY <1>1, <1>2, <1>3, <1>5, <1>6 DEF Sending
<1>8. Apart(N, gL, gM, h)  BY <1>2, <1>3 DEF Apart, Same, Sent, LastId
<1>9. Joined(N, M)  BY <1>3 DEF Joined, Same
<1>10. Open(N, M, N.out_frames, << >>, gL, gM)
  BY <1>3, <1>7, <1>8, <1>9 DEF Open, Talking
<1>11. Remembered(N, M)  BY <1>3 DEF Remembered, Same
<1>12. N.next_message_id = NextId(N)  BY <1>3 DEF NextId, Same, Sent
<1>13. Pair(N, M, N.out_frames, << >>, gL, gM)
  BY <1>2, <1>3, <1>10, <1>11, <1>12 DEF Pair, Same
<1> QED  BY <1>1, <1>2, <1>3, <1>4, <1>13 DEF N

\* An end, and a record made from it by replacing fields, have every field.
LEMMA Shapes ==
  ASSUME NEW L \in EndState(Message, Message)
  PROVE  Shaped(L)
<1>1. L.tx \in TxState(Message)  BY DEF EndState
<1>2. TxFields \subseteq DOMAIN L.tx  BY <1>1 DEF TxState, TxFields
<1>3. Fields \subseteq DOMAIN L  BY DEF EndState, Fields
<1>4. L.rx \in RxState(Message)  BY DEF EndState
<1>5. RxFields \subseteq DOMAIN L.rx  BY <1>4 DEF RxState, RxFields
<1> QED  BY <1>2, <1>3, <1>5 DEF Shaped

\* The clock of a sender that has queued a batch covers it.
LEMMA StartedLeft ==
  ASSUME NEW L, NEW N, NEW n \in Nat \ {0}, NewlyQueued(L, N) = n
  PROVE  \A C \in ClockType : Started(C, L, N).left = base_timeout(n)
  BY DEF Started, arm_deadline, recompute_timeouts, ClockType

\* kal_send: the first message of an initiator opens a session, a responder without one
\* waits, and in session the whole first batch is queued.
LEMMA SendPair ==
  ASSUME Fits, NEW L, NEW M, Ends(L, M), NEW gL, NEW gM,
         NEW c, NEW k, Pair(L, M, c, k, gL, gM), ~L.tx.active, L.out_frames = << >>,
         NEW m \in Message, m \in M.accepts, NEW draw, draw.ok
  PROVE  LET N == kal_send(L, m, draw) IN
         /\ Pair(N, M, N.out_frames, << >>, gL, gM)
         /\ k = << >>
         /\ N.deadline_set =>
              /\ N.out_frames # << >>
              /\ \A C \in ClockType : AfterSend(C, L, N).left = base_timeout(Len(N.out_frames))
<1> DEFINE tx == [NoTx EXCEPT !.active = TRUE, !.message_id = L.next_message_id,
                              !.total = Segments[m], !.payload = m]
           S == [L EXCEPT !.tx = tx, !.tx_status = "BUSY", !.submitted = @ + 1]
           N == kal_send(L, m, draw)
<1>1. Shaped(L) /\ Numbers(L)  BY Shapes, EndsTypes DEF Ends
<1>2. /\ tx.active = TRUE /\ tx.message_id = L.next_message_id /\ tx.total = Segments[m]
      /\ tx.payload = m /\ tx.base = 0 /\ tx.acked = {} /\ tx.inflight = {}
      /\ tx.started = FALSE /\ TxFields \subseteq DOMAIN tx
  BY DEF NoTx, TxFields
<1>3. N = IF L.session_open THEN start_or_resume_tx(S)
          ELSE IF NeedsSession(L) THEN open_session(S, draw) ELSE S
  BY DEF kal_send
<1>4. Segments[m] \in 1 .. MaxSegments /\ MaxSegments \in 1 .. KAL_MAX_SEGMENTS
  BY DataAssumption
<1> HIDE DEF tx, N
<1>5. /\ Same(L, S) /\ S.tx = tx /\ S.session_open = L.session_open /\ S.window = L.window
      /\ S.hello_pending = L.hello_pending /\ S.deadline_set = L.deadline_set
      /\ S.out_frames = << >> /\ S.rx = L.rx /\ S.role = L.role /\ DOMAIN S = DOMAIN L
  BY <1>1 DEF Shaped, Fields, Same
<1>6. Shaped(S)  BY <1>1, <1>2, <1>5 DEF Shaped
<1> HIDE DEF S
<1>7. CASE Waiting(L, M, c, k, gM) /\ gL.type = "NONE"
  <2>0. Unheard(L, M) /\ ~L.session_open /\ ~L.hello_pending /\ ~L.deadline_set /\ k = << >>
    BY <1>7 DEF Waiting, Unheard
  <2>1. Unheard(S, M)  BY <1>2, <1>5, <2>0 DEF Unheard, Same, Sent
  <2>2. /\ S.next_message_id = NextId(S) /\ Remembered(S, M)
        /\ S.tx.message_id = S.next_message_id /\ S.tx.payload \in M.accepts
        /\ S.delivered = NoBody /\ S.profile = M.profile
    BY <1>2, <1>5 DEF Pair, NextId, Same, Sent, Remembered
  <2>3. CASE ~NeedsSession(L)
    <3>1. N = S /\ S.role # "initiator"  BY <1>3, <1>5, <2>0, <2>3 DEF NeedsSession
    <3>2. Waiting(S, M, << >>, << >>, gM)
      BY <1>5, <1>7, <2>1, <3>1 DEF Waiting
    <3>3. Pair(S, M, << >>, << >>, gL, gM)  BY <1>7, <2>2, <3>2 DEF Pair
    <3> QED  BY <1>5, <2>0, <3>1, <3>3 DEF N
  <2>4. CASE NeedsSession(L)
    <3> DEFINE H == [S EXCEPT !.session_id = draw.id, !.challenge = draw.id]
               f == build_hello(H, "HELLO")
    <3>1. /\ H.out_frames = << >> /\ H.tx = tx /\ H.session_open = L.session_open
          /\ H.role = L.role /\ H.profile = L.profile /\ H.window = L.window
          /\ H.next_message_id = L.next_message_id /\ H.delivered = L.delivered
          /\ H.stats = L.stats /\ DOMAIN H = DOMAIN S
      BY <1>5, <1>6 DEF Shaped, Fields, Same
    <3>2. Len(<< >>) = 0 /\ ~(0 >= OutQueueFrames)  BY BoundsAssumption
    <3>3. N = [queue_frame(H, f) EXCEPT !.hello_pending = TRUE, !.hello_retries = 0,
                                        !.deadline_set = TRUE]
      BY <1>3, <1>5, <2>0, <2>4, <3>2 DEF open_session
    <3> HIDE DEF H
    <3>4. queue_frame(H, f) = [H EXCEPT !.out_frames = Append(<< >>, f)]
      BY <3>1, <3>2 DEF queue_frame
    <3>5. Append(<< >>, f) = <<f>>  OBVIOUS
    <3>6. Fields \subseteq DOMAIN H  BY <1>6, <3>1 DEF Shaped
    <3> HIDE DEF f
    <3>7. /\ N.out_frames = <<f>> /\ N.tx = tx /\ ~N.session_open /\ N.hello_pending
          /\ N.deadline_set /\ N.role = L.role /\ N.profile = L.profile /\ N.window = L.window
          /\ N.next_message_id = L.next_message_id /\ N.delivered = L.delivered
          /\ N.stats = L.stats /\ N.session_id = H.session_id /\ N.challenge = H.challenge
      BY <2>0, <3>1, <3>3, <3>4, <3>5, <3>6 DEF Fields
    <3>8. f = build_hello(N, "HELLO")  BY <3>1, <3>7 DEF f, build_hello
    <3>9. Greeting(N, M, N.out_frames, << >>, gM)
      <4>1. Unheard(N, M)  BY <1>2, <2>0, <3>7 DEF Unheard, Sent
      <4>2. ~M.session_open /\ gM.type = "NONE"  BY <1>7 DEF Waiting
      <4> QED  BY <1>2, <3>7, <3>8, <4>1, <4>2 DEF Greeting
    <3>10. Pair(N, M, N.out_frames, << >>, gL, gM)
      BY <1>2, <1>5, <1>7, <2>2, <3>7, <3>9 DEF Pair, NextId, Same, Sent, Remembered
    <3>11. Len(N.out_frames) = 1 /\ N.out_frames # << >>
      <4>1. Len(<<f>>) = 1 /\ <<f>> # << >>  OBVIOUS
      <4> QED  BY <3>7, <4>1
    <3>12. \A C \in ClockType : AfterSend(C, L, N).left = base_timeout(1)
      BY <2>0, <3>7 DEF AfterSend, arm_deadline, recompute_timeouts, ClockType
    <3> QED  BY <2>0, <3>10, <3>11, <3>12 DEF N
  <2> QED  BY <2>3, <2>4
<1>8. CASE Greeting(L, M, c, k, gM)  BY <1>8 DEF Greeting
<1>9. CASE Open(L, M, c, k, gL, gM)
  <2>1. PICK h \in 0 .. MaxSegments : Talking(L, M, c, k, h) /\ Apart(L, gL, gM, h)
    BY <1>9 DEF Open
  <2>2. Idle(L, M, c, k) /\ h = 0
    BY <2>1 DEF Talking, Sending, Answered, InFlight
  <2>3. L.session_open /\ ~L.hello_pending /\ Joined(L, M) /\ M.window = L.window
    BY <1>9 DEF Open
  <2>4. Ready(S)
    <3>1. {} = 0 .. 0 - 1  OBVIOUS
    <3>2. L.window =< OutQueueFrames  BY <2>3 DEF Pair
    <3>3. 0 % L.window = 0 /\ 0 < Segments[m]  BY <1>1, <1>4 DEF Numbers
    <3>4. Numbers(S)  BY <1>1, <1>2, <1>4, <1>5 DEF Numbers, KAL_MAX_SEGMENTS
    <3> QED  BY <1>2, <1>5, <3>1, <3>2, <3>3, <3>4 DEF Ready
  <2>5. Holding(S, M, 0)  BY <1>5, <2>2 DEF Holding, Idle, Same, Sent
  <2>6. Apart(S, gL, gM, 0)  BY <1>2, <1>5, <2>1, <2>2 DEF Apart, Idle, NoTx, Same, Sent, LastId
  <2>7. 0 \in 0 .. MaxSegments /\ 0 = S.tx.base  BY <1>2, <1>4, <1>5
  <2>8. N = start_or_resume_tx(S)  BY <1>3, <2>3
  <2>9. /\ Pair(N, M, N.out_frames, << >>, gL, gM)
        /\ N.tx.inflight = S.tx.base .. Upto(S) - 1 /\ Upto(S) \in Nat /\ S.tx.base < Upto(S)
        /\ Len(N.out_frames) = Upto(S) - S.tx.base
        /\ ~N.hello_pending
    <3>1. S.tx.message_id = L.next_message_id /\ S.tx.payload \in M.accepts  BY <1>2, <1>5
    <3>2. S.session_open /\ ~S.hello_pending /\ M.window = S.window  BY <1>5, <2>3
    <3>3. /\ Remembered(L, M) /\ M.tx = NoTx /\ ~M.hello_pending /\ ~M.deadline_set
          /\ L.delivered = NoBody /\ L.profile = M.profile /\ M.window =< OutQueueFrames
          /\ L.next_message_id = NextId(L)
      BY DEF Pair
    <3> QED
      BY <1>5, <1>6, <2>3, <2>4, <2>5, <2>6, <2>7, <2>8, <3>1, <3>2, <3>3, BatchSent
  <2>10. \A C \in ClockType : AfterSend(C, L, N).left = base_timeout(Len(N.out_frames))
    <3>1. NewlyQueued(L, N) = Cardinality(N.tx.inflight)
      <4>1. L.tx.inflight = {}  BY <2>2 DEF Idle, NoTx
      <4>2. N.tx.inflight \ {} = N.tx.inflight  OBVIOUS
      <4> QED  BY <4>1, <4>2 DEF NewlyQueued
    <3>2. S.tx.base \in Nat /\ S.tx.base =< Upto(S)  BY <2>7, <2>9
    <3>3. Cardinality(S.tx.base .. Upto(S) - 1) = Upto(S) - S.tx.base
      BY <2>9, <3>2, IntervalRanks
    <3>4. NewlyQueued(L, N) = Len(N.out_frames)  BY <2>9, <3>1, <3>3
    <3>5. Len(N.out_frames) \in Nat \ {0}  BY <2>9, <3>2
    <3>6. \A C \in ClockType : Started(C, L, N).left = base_timeout(Len(N.out_frames))
      BY <3>4, <3>5, StartedLeft
    <3> QED  BY <2>9, <3>6 DEF AfterSend
  <2>11. N.out_frames # << >>
    <3>1. Len(<< >>) = 0 /\ S.tx.base \in Nat  BY <2>7
    <3> QED  BY <2>9, <3>1
  <2> QED  BY <2>2, <2>9, <2>10, <2>11 DEF N, Idle
<1> QED  BY <1>7, <1>8, <1>9 DEF Pair

\* A packed capability word is taken apart again.
LEMMA Unpacked ==
  ASSUME NEW p \in 0 .. 5, NEW w \in 1 .. 16
  PROVE  /\ kal_capability_profile(kal_capability_pack(p, w)) = p
         /\ kal_capability_window(kal_capability_pack(p, w)) = w
  BY DEF kal_capability_profile, kal_capability_window, kal_capability_pack

\* The silent peer answers the HELLO of an initiator.
LEMMA HelloPair ==
  ASSUME NEW L, NEW M, Ends(L, M), NEW gL, NEW gM,
         NEW c, NEW k, Pair(L, M, c, k, gL, gM), Greeting(L, M, c, k, gM), gL.type = "NONE",
         c # << >>, M.out_frames = << >>, M.delivered = NoBody, NEW f, f = Head(c)
  PROVE  LET N == handle_frame(M, f) IN
         /\ Pair(L, N, Tail(c), N.out_frames, gL, f)
         /\ Len(N.out_frames) = 1 /\ N.accepts = M.accepts /\ N.delivered = NoBody
<1> DEFINE N == handle_frame(M, f)
<1>1. c = <<build_hello(L, "HELLO")>> /\ k = << >> /\ ~M.session_open /\ Unheard(L, M)
  BY DEF Greeting
<1>2. f = build_hello(L, "HELLO") /\ Tail(c) = << >>  BY <1>1
<1>3. /\ f.type = "HELLO" /\ f.session_id = L.session_id /\ f.message_id = L.next_message_id
      /\ f.challenge = L.challenge /\ f.value = kal_capability_pack(L.profile, L.window)
  BY <1>2 DEF build_hello, ZeroFrame
<1>4. /\ L.window \in 1 .. 16 /\ M.window \in 1 .. 16 /\ L.profile \in 0 .. 5 /\ Shaped(M)
      /\ L.profile = M.profile
  BY EndsTypes, Shapes DEF Ends, Numbers, Pair
<1>5. kal_capability_profile(f.value) = M.profile /\ kal_capability_window(f.value) = L.window
  BY <1>3, <1>4, Unpacked
<1> DEFINE w == IF L.window < M.window THEN L.window ELSE M.window
           H == [M EXCEPT !.session_id = f.session_id, !.window = Narrowed(M, f),
                          !.challenge = f.challenge]
           reply == [build_hello(H, "HELLO_ACK") EXCEPT !.message_id = f.message_id]
           A == [H EXCEPT !.hello_ack_cached = reply, !.hello_ack_valid = TRUE,
                          !.session_open = TRUE]
           O == queue_frame(A, reply)
<1>6. Narrowed(M, f) = w /\ w \in 1 .. 16 /\ w =< L.window /\ w =< M.window
  BY <1>4, <1>5 DEF Narrowed, clamp_window, KAL_MIN_WINDOW_FRAMES, KAL_MAX_WINDOW_FRAMES
<1>7. N = AcceptHello(M, f)
  <2>1. ~M.hello_pending  BY DEF Pair
  <2> QED  BY <1>1, <1>3, <1>5, <2>1 DEF handle_frame, handle_hello, InSession
<1>8. N = IF O.tx.active /\ ~O.tx.started THEN start_or_resume_tx(O) ELSE O
  BY <1>7 DEF AcceptHello
<1> HIDE DEF N, w, reply
<1>9. /\ H.session_id = L.session_id /\ H.window = w /\ H.challenge = L.challenge
      /\ H.profile = M.profile /\ H.next_message_id = M.next_message_id
      /\ DOMAIN H = DOMAIN M /\ H.tx = M.tx /\ H.rx = M.rx /\ H.dup_cache = M.dup_cache
      /\ H.delivered = M.delivered /\ H.stats = M.stats /\ H.accepts = M.accepts
      /\ H.hello_pending = M.hello_pending /\ H.deadline_set = M.deadline_set
      /\ H.out_frames = M.out_frames
  BY <1>3, <1>4, <1>6 DEF Shaped, Fields
<1> HIDE DEF H
<1>10. /\ A.session_id = L.session_id /\ A.window = w /\ A.challenge = L.challenge
       /\ A.profile = M.profile /\ A.next_message_id = M.next_message_id
       /\ DOMAIN A = DOMAIN M /\ A.tx = M.tx /\ A.rx = M.rx /\ A.dup_cache = M.dup_cache
       /\ A.delivered = M.delivered /\ A.stats = M.stats /\ A.accepts = M.accepts
       /\ A.hello_pending = M.hello_pending /\ A.deadline_set = M.deadline_set
       /\ A.out_frames = << >> /\ A.session_open = TRUE
  BY <1>4, <1>9 DEF Shaped, Fields
<1> HIDE DEF A
<1>11. O = [A EXCEPT !.out_frames = Append(<< >>, reply)]
  <2>1. Len(<< >>) = 0 /\ ~(0 >= OutQueueFrames)  BY BoundsAssumption
  <2> QED  BY <1>10, <2>1 DEF queue_frame
<1>12. Append(<< >>, reply) = <<reply>>  OBVIOUS
<1>13. /\ O.session_id = L.session_id /\ O.window = w /\ O.challenge = L.challenge
       /\ O.profile = M.profile /\ O.next_message_id = M.next_message_id
       /\ O.tx = M.tx /\ O.rx = M.rx /\ O.dup_cache = M.dup_cache
       /\ O.delivered = M.delivered /\ O.stats = M.stats /\ O.accepts = M.accepts
       /\ O.hello_pending = M.hello_pending /\ O.deadline_set = M.deadline_set
       /\ O.out_frames = <<reply>> /\ O.session_open = TRUE
  BY <1>4, <1>10, <1>11, <1>12 DEF Shaped, Fields
<1> HIDE DEF O
<1>14. N = O
  <2>1. ~O.tx.active  BY <1>13 DEF Pair, NoTx
  <2> QED  BY <1>8, <2>1
<1>15. reply = Reply(L, N)
  <2>1. build_hello(H, "HELLO_ACK") = build_hello(N, "HELLO_ACK")
    BY <1>9, <1>13, <1>14 DEF build_hello
  <2> QED  BY <1>3, <2>1 DEF reply, Reply
<1>16. Greeting(L, N, << >>, <<reply>>, f)
  <2>1. Unheard(L, N)  BY <1>1, <1>13, <1>14 DEF Unheard, Log
  <2> QED  BY <1>3, <1>6, <1>13, <1>14, <1>15, <2>1 DEF Greeting, Joined
<1>17. N.window =< OutQueueFrames
  <2>1. M.window =< OutQueueFrames /\ OutQueueFrames \in Nat  BY BoundsAssumption DEF Pair
  <2> QED  BY <1>4, <1>6, <1>13, <1>14, <2>1
<1>18. Remembered(L, N)  BY <1>13, <1>14 DEF Pair, Remembered, Log
<1>19. Pair(L, N, << >>, <<reply>>, gL, f)
  BY <1>13, <1>14, <1>16, <1>17, <1>18 DEF Pair
<1>20. Len(<<reply>>) = 1  OBVIOUS
<1> QED  BY <1>2, <1>13, <1>14, <1>19, <1>20 DEF N

\* The first h segments are those before segment h.
LEMMA FirstReceived ==
  ASSUME NEW L, NEW M, NEW h \in 0 .. MaxSegments, HasFirst(L, M, h), L.tx.payload # NoBody
  PROVE  Received(M) = 0 .. h - 1 /\ Cardinality(Received(M)) = h
<1>1. MaxSegments \in Nat  BY SegmentNat
<1>2. Received(M) = {s \in Segment : s < h}  BY DEF Received, HasFirst
<1>3. Received(M) = 0 .. h - 1  BY <1>1, <1>2 DEF Segment
<1>4. Cardinality(0 .. h - 1) = h - 0  BY <1>1, IntervalRanks
<1> QED  BY <1>1, <1>3, <1>4

\* R becomes N when it stores segment h - 1 of what L sends: it waits for the next one, or
\* answers the batch, or delivers the message.
StoredNext(L, R, N, h) ==
  \/ /\ h < Upto(L) /\ HasFirst(L, N, h)
     /\ N = [R EXCEPT !.rx = N.rx]
  \/ /\ h = Upto(L) /\ h < L.tx.total /\ HasFirst(L, N, h)
     /\ N = [R EXCEPT !.rx = N.rx, !.out_frames = <<PartialAck(L, h)>>]
  \/ /\ h = Upto(L) /\ h = L.tx.total
     /\ \E S : /\ S = [R EXCEPT !.rx = S.rx]
               /\ N = clear_rx_message(dup_store(queue_frame(Deliver(S, L.tx.payload), FinalAck(L)),
                        L.session_id, L.tx.message_id, FinalAck(L)))

\* The next segment is not the last of its batch, or it is answered.
LEMMA StorePair ==
  ASSUME NEW L, NEW M, Ends(L, M), NEW R, Shaped(R), NEW h \in 0 .. MaxSegments,
         HasFirst(L, R, h),
         InFlight(L), h \in L.tx.base .. Upto(L) - 1, L.tx.payload \in R.accepts,
         R.window = L.window, R.out_frames = << >>, NEW f, f = DataFrame(L, h)
  PROVE  StoredNext(L, R, StoreSegment(R, f), h + 1)
<1> DEFINE t == L.tx.total
           body == L.tx.payload
           stored == [R.rx.payload EXCEPT ![h] = body]
           S == [R EXCEPT !.rx = [R.rx EXCEPT !.payload = stored]]
           N == StoreSegment(R, f)
<1>1. /\ t \in 1 .. MaxSegments /\ body \in Message /\ body # NoBody /\ Segments[body] = t
      /\ L.window \in 1 .. 16 /\ L.tx.base \in Nat /\ L.tx.base % L.window = 0
      /\ MaxSegments \in 1 .. KAL_MAX_SEGMENTS /\ Numbers(L) /\ L.tx.base < t
  BY EndsTypes, DataAssumption DEF InFlight, Numbers
<1>2. /\ Upto(L) \in L.tx.base + 1 .. L.tx.base + L.window /\ Upto(L) =< t
      /\ Upto(L) < t => Upto(L) = L.tx.base + L.window
  BY <1>1, UptoBounds
<1>3. /\ h \in Nat /\ h + 1 =< Upto(L) /\ h + 1 \in 1 .. MaxSegments /\ h \in Segment
      /\ h + 1 \in L.tx.base + 1 .. L.tx.base + L.window
  <2> DEFINE u == Upto(L)
             b == L.tx.base
  <2>1. b \in Nat /\ h \in b .. u - 1 /\ u \in b + 1 .. b + L.window /\ u =< t /\ t \in Nat
        /\ t =< MaxSegments /\ L.window \in Nat /\ MaxSegments \in Nat
    <3>1. b \in Nat /\ h \in b .. u - 1  BY <1>1
    <3>2. u \in b + 1 .. b + L.window /\ u =< t  BY <1>2
    <3>3. L.window \in Nat  BY <1>1
    <3>4. MaxSegments \in Nat /\ t \in Nat /\ t =< MaxSegments  BY <1>1 DEF KAL_MAX_SEGMENTS
    <3> QED  BY <3>1, <3>2, <3>3, <3>4
  <2> HIDE DEF u, b, t
  <2>2. h \in Nat /\ h + 1 =< u /\ h + 1 \in 1 .. MaxSegments /\ h \in 0 .. MaxSegments - 1
        /\ h + 1 \in b + 1 .. b + L.window
    BY <2>1
  <2> QED  BY <2>2 DEF u, b, Segment
<1>4. f.sequence = h /\ f.payload = body  BY DEF DataFrame, ZeroFrame
<1>5. stored = [s \in Segment |-> IF s < h + 1 THEN body ELSE NoBody]
  <2>1. R.rx.payload = [s \in Segment |-> IF s < h THEN body ELSE NoBody]  BY DEF HasFirst
  <2>2. \A s \in Segment : s < h + 1 <=> s < h \/ s = h  BY <1>3, SegmentNat
  <2> HIDE DEF body, t
  <2> QED  BY <1>3, <2>1, <2>2
<1>6. HasFirst(L, S, h + 1)
  <2> HIDE DEF stored
  <2>1. S.rx = [R.rx EXCEPT !.payload = stored]  BY DEF Shaped, Fields
  <2> HIDE DEF S
  <2> QED  BY <1>5, <2>1 DEF HasFirst
<1>7. /\ S.window = L.window /\ S.rx.total = t /\ S.out_frames = << >> /\ S.accepts = R.accepts
      /\ "rx" \in DOMAIN S /\ "out_frames" \in DOMAIN S
      /\ RxFields \subseteq DOMAIN S.rx
      /\ S = [R EXCEPT !.rx = S.rx]
  <2> HIDE DEF stored
  <2>1. S.rx = [R.rx EXCEPT !.payload = stored]  BY DEF Shaped, Fields
  <2>2. S.rx.total = R.rx.total /\ R.rx.total = t  BY <2>1 DEF HasFirst, Shaped, RxFields
  <2>3. S = [R EXCEPT !.rx = S.rx]  BY <2>1
  <2> HIDE DEF S
  <2> QED  BY <2>1, <2>2, <2>3 DEF Shaped, Fields
<1>8. N = IF Cardinality(Received(S)) = S.rx.total THEN finish_rx_message(S)
          ELSE IF Cardinality(Received(S)) % S.window = 0 THEN queue_partial_ack(S) ELSE S
  BY <1>4 DEF StoreSegment
<1> HIDE DEF S, N, stored
<1>9. Received(S) = 0 .. h /\ Cardinality(Received(S)) = h + 1
  <2>1. Received(S) = 0 .. (h + 1) - 1 /\ Cardinality(Received(S)) = h + 1
    BY <1>1, <1>3, <1>6, FirstReceived
  <2>2. (h + 1) - 1 = h  BY <1>3
  <2> QED  BY <2>1, <2>2
<1>10. (h + 1) % L.window = 0 <=> h + 1 = L.tx.base + L.window
  BY <1>1, <1>3, WindowEnds
<1>11. CASE h + 1 = t
  <2>1. N = finish_rx_message(S)  BY <1>7, <1>8, <1>9, <1>11
  <2>2. Assembled(S) = body
    <3> DEFINE whole == {m \in Message : /\ Segments[m] = S.rx.total
                                         /\ \A s \in 0 .. S.rx.total - 1 : S.rx.payload[s] = m}
    <3>1. \A s \in 0 .. t - 1 : S.rx.payload[s] = body
      BY <1>1, <1>3, <1>6, <1>11 DEF HasFirst, Segment
    <3>2. 0 \in 0 .. t - 1  BY <1>1
    <3>3. whole = {body}  BY <1>1, <1>7, <3>1, <3>2
    <3>4. Assembled(S) = IF whole = {} THEN Garbled ELSE CHOOSE m \in whole : TRUE
      BY DEF Assembled
    <3> HIDE DEF whole
    <3>5. whole # {} /\ \A m \in whole : m = body  BY <3>3
    <3>6. (CHOOSE m \in whole : TRUE) \in whole  BY <3>5
    <3> QED  BY <3>4, <3>5, <3>6
  <2>3. DeliveredAck(S) = FinalAck(L)
    BY <1>6, <1>7, <1>11 DEF DeliveredAck, FinalAck, HasFirst
  <2>4. Intact(S, body)  BY <1>7 DEF Intact
  <2>5. N = clear_rx_message(dup_store(queue_frame(Deliver(S, body), FinalAck(L)),
                             L.session_id, L.tx.message_id, FinalAck(L)))
    <3> DEFINE ack == FinalAck(L)
    <3>1. S.rx.session_id = L.session_id /\ S.rx.message_id = L.tx.message_id  BY <1>6 DEF HasFirst
    <3>2. DeliveredAck(S) = ack  BY <2>3
    <3> HIDE DEF ack, body
    <3>3. N = clear_rx_message(dup_store(queue_frame(Deliver(S, body), ack),
                                         S.rx.session_id, S.rx.message_id, ack))
      BY <2>1, <2>2, <2>4, <3>2 DEF finish_rx_message
    <3> QED  BY <3>1, <3>3 DEF ack
  <2>6. h + 1 = Upto(L)  BY <1>2, <1>3, <1>11
  <2>7. S = [R EXCEPT !.rx = S.rx]  BY <1>7
  <2> QED  BY <1>11, <2>5, <2>6, <2>7 DEF N, StoredNext
<1>12. CASE h + 1 # t /\ h + 1 = Upto(L)
  <2>1. h + 1 < t /\ h + 1 = L.tx.base + L.window  BY <1>1, <1>2, <1>3, <1>12
  <2>2. N = queue_partial_ack(S)  BY <1>7, <1>8, <1>9, <1>10, <1>12, <2>1
  <2>3. first_missing(S) = h + 1
    <3> DEFINE n == FirstOutside(0 .. h, 0, t)
    <3>1. /\ n \in 0 .. t /\ (n = t \/ n \notin 0 .. h)
          /\ \A s \in 0 .. n - 1 : s \in 0 .. h
      BY <1>1, FirstOutsideFound
    <3>2. first_missing(S) = n  BY <1>7, <1>9 DEF first_missing
    <3> HIDE DEF n
    <3>3. n > h  BY <1>1, <1>3, <2>1, <3>1
    <3>4. h + 1 \in 0 .. n - 1 => FALSE  BY <1>3, <3>1
    <3>5. n = h + 1  BY <1>1, <1>3, <3>1, <3>3, <3>4
    <3> QED  BY <3>2, <3>5
  <2>4. {s \in Received(S) : /\ h + 1 < s /\ s =< (h + 1) + KAL_ACK_BITS
                             /\ s < S.rx.total} = {}
    BY <1>3, <1>9
  <2> DEFINE ack == PartialAck(L, h + 1)
             A == [S EXCEPT !.rx = [S.rx EXCEPT !.ack_cached = ack, !.ack_valid = TRUE]]
  <2>5. ack = [ZeroFrame EXCEPT !.type = "ACK", !.session_id = S.rx.session_id,
                 !.message_id = S.rx.message_id, !.sequence = h + 1, !.bitmap = {}]
    <3>1. S.rx.session_id = L.session_id /\ S.rx.message_id = L.tx.message_id  BY <1>6 DEF HasFirst
    <3> QED  BY <3>1 DEF PartialAck
  <2>6. N = queue_frame(A, ack)
    <3> DEFINE a == [ZeroFrame EXCEPT !.type = "ACK", !.session_id = S.rx.session_id,
                !.message_id = S.rx.message_id, !.sequence = first_missing(S),
                !.bitmap = {s \in Received(S) : /\ first_missing(S) < s
                                                /\ s =< first_missing(S) + KAL_ACK_BITS
                                                /\ s < S.rx.total}]
    <3>1. a = ack  BY <2>3, <2>4, <2>5
    <3>2. N = queue_frame([S EXCEPT !.rx = [S.rx EXCEPT !.ack_cached = a, !.ack_valid = TRUE]], a)
      BY <2>2 DEF queue_partial_ack
    <3> HIDE DEF a, ack
    <3> QED  BY <3>1, <3>2
  <2> HIDE DEF ack
  <2>7. A.rx = [S.rx EXCEPT !.ack_cached = ack, !.ack_valid = TRUE] /\ A.out_frames = << >>
        /\ "out_frames" \in DOMAIN A /\ "rx" \in DOMAIN A
        /\ A = [R EXCEPT !.rx = A.rx]
    BY <1>7
  <2>8. A.rx.active = S.rx.active /\ A.rx.session_id = S.rx.session_id
        /\ A.rx.message_id = S.rx.message_id /\ A.rx.total = S.rx.total
        /\ A.rx.payload = S.rx.payload
    BY <1>7, <2>7 DEF RxFields
  <2> HIDE DEF A
  <2>9. N = [A EXCEPT !.out_frames = <<ack>>]
    <3>1. Len(<< >>) = 0 /\ ~(0 >= OutQueueFrames) /\ Append(<< >>, ack) = <<ack>>
      BY BoundsAssumption
    <3> QED  BY <2>6, <2>7, <3>1 DEF queue_frame
  <2>10. N.rx = A.rx  BY <2>7, <2>9
  <2>11. N = [R EXCEPT !.rx = N.rx, !.out_frames = <<ack>>]  BY <2>7, <2>9, <2>10
  <2>12. HasFirst(L, N, h + 1)  BY <1>6, <2>8, <2>10 DEF HasFirst
  <2> QED  BY <1>12, <2>1, <2>11, <2>12 DEF N, ack, StoredNext
<1>13. CASE h + 1 # t /\ h + 1 # Upto(L)
  <2>1. h + 1 < Upto(L) /\ h + 1 # L.tx.base + L.window  BY <1>1, <1>2, <1>3, <1>13
  <2>2. N = S  BY <1>7, <1>8, <1>9, <1>10, <1>13, <2>1
  <2> QED  BY <1>6, <1>7, <2>1, <2>2 DEF N, StoredNext
<1> QED  BY <1>11, <1>12, <1>13

\* What the cache says of the peer's messages, apart from its name.
LEMMA MemoryFacts ==
  ASSUME NEW L, NEW M, M.dup_cache \in Seq(DupEntry), Len(Log(M)) \in Nat, Remembered(L, M)
  PROVE  LET n == Len(Log(M))
             q == Len(M.dup_cache) IN
         /\ n \in Nat /\ q \in Nat /\ q =< n /\ DOMAIN M.dup_cache = 1 .. q
         /\ \A i \in 1 .. q : M.dup_cache[i].message_id = IdAfter(L.role, n - q + i - 1)
<1> DEFINE n == Len(Log(M))
           q == Len(M.dup_cache)
<1>1. n \in Nat /\ q \in Nat /\ DOMAIN M.dup_cache = 1 .. q  OBVIOUS
<1>2. /\ q =< n
      /\ \A i \in DOMAIN M.dup_cache :
           M.dup_cache[i].message_id = IdAfter(L.role, n - q + i - 1)
  BY DEF Remembered
<1> HIDE DEF n, q
<1>3. /\ n \in Nat /\ q \in Nat /\ q =< n /\ DOMAIN M.dup_cache = 1 .. q
      /\ \A i \in 1 .. q : M.dup_cache[i].message_id = IdAfter(L.role, n - q + i - 1)
  BY <1>1, <1>2
<1> QED  BY <1>3 DEF n, q

\* The cache forgets its oldest entry.
LEMMA MemoryFades ==
  ASSUME NEW L, NEW M, M.dup_cache \in Seq(DupEntry), Len(Log(M)) \in Nat, Remembered(L, M),
         NEW N, M.dup_cache # << >>, N.dup_cache = Tail(M.dup_cache), Log(N) = Log(M)
  PROVE  Remembered(L, N)
<1> DEFINE n == Len(Log(M))
           q == Len(M.dup_cache)
<1>1. /\ n \in Nat /\ q \in Nat /\ q =< n /\ DOMAIN M.dup_cache = 1 .. q
      /\ \A i \in 1 .. q : M.dup_cache[i].message_id = IdAfter(L.role, n - q + i - 1)
  BY MemoryFacts
<1>2. /\ Len(N.dup_cache) = q - 1 /\ DOMAIN N.dup_cache = 1 .. q - 1
      /\ \A i \in 1 .. q - 1 : N.dup_cache[i] = M.dup_cache[i + 1]
  <2>1. /\ Tail(M.dup_cache) \in Seq(DupEntry) /\ Len(Tail(M.dup_cache)) = q - 1
        /\ \A i \in 1 .. Len(Tail(M.dup_cache)) : Tail(M.dup_cache)[i] = M.dup_cache[i + 1]
    BY HeadTailProperties
  <2> QED  BY <2>1
<1> HIDE DEF n, q
<1>3. \A i \in 1 .. q - 1 : i + 1 \in 1 .. q /\ n - q + (i + 1) - 1 = n - (q - 1) + i - 1
  BY <1>1
<1>4. \A i \in 1 .. q - 1 : N.dup_cache[i].message_id = IdAfter(L.role, n - (q - 1) + i - 1)
  BY <1>1, <1>2, <1>3
<1>5. q - 1 =< n /\ Len(Log(N)) = n  BY <1>1 DEF n
<1> QED  BY <1>2, <1>4, <1>5 DEF Remembered

\* The cache takes the entry of a delivery.
LEMMA MemoryGrows ==
  ASSUME NEW L, NEW M, M.dup_cache \in Seq(DupEntry), Len(Log(M)) \in Nat, Remembered(L, M),
         NEW N, NEW x, x.message_id = IdAfter(L.role, Len(Log(M))),
         N.dup_cache = Append(M.dup_cache, x), Len(Log(N)) = Len(Log(M)) + 1
  PROVE  Remembered(L, N)
<1> DEFINE n == Len(Log(M))
           q == Len(M.dup_cache)
<1>1. /\ n \in Nat /\ q \in Nat /\ q =< n /\ DOMAIN M.dup_cache = 1 .. q
      /\ \A i \in 1 .. q : M.dup_cache[i].message_id = IdAfter(L.role, n - q + i - 1)
  BY MemoryFacts
<1>2. M.dup_cache \in Seq(DupEntry \cup {x}) /\ x \in DupEntry \cup {x}  OBVIOUS
<1>3. /\ Len(N.dup_cache) = q + 1 /\ DOMAIN N.dup_cache = 1 .. q + 1
      /\ \A i \in 1 .. q : N.dup_cache[i] = M.dup_cache[i]
      /\ N.dup_cache[q + 1] = x
  BY <1>2
<1>4. x.message_id = IdAfter(L.role, n) /\ Len(Log(N)) = n + 1  OBVIOUS
<1> HIDE DEF n, q
<1>5. \A i \in 1 .. q : n - q + i - 1 = (n + 1) - (q + 1) + i - 1  BY <1>1
<1>6. (n + 1) - (q + 1) + (q + 1) - 1 = n  BY <1>1
<1>7. ASSUME NEW i \in 1 .. q + 1
      PROVE  N.dup_cache[i].message_id = IdAfter(L.role, (n + 1) - (q + 1) + i - 1)
  <2>1. CASE i = q + 1  BY <1>3, <1>4, <1>6, <2>1
  <2>2. CASE i # q + 1
    <3>1. i \in 1 .. q  BY <1>1, <2>2
    <3> QED  BY <1>1, <1>3, <1>5, <3>1
  <2> QED  BY <2>1, <2>2
<1>8. q + 1 =< n + 1  BY <1>1
<1> QED  BY <1>3, <1>4, <1>7, <1>8 DEF Remembered

\* A message under way is not in the cache.
LEMMA NotCached ==
  ASSUME Fits, NEW L, NEW M, Ends(L, M), Remembered(L, M), Len(M.dup_cache) =< DupCacheEntries,
         Len(Log(M)) = Len(Sent(L)), NEW id
  PROVE  dup_lookup(M, id, NextId(L)) = {}
<1> DEFINE n == Len(Log(M))
           q == Len(M.dup_cache)
<1>1. n \in Nat /\ q \in Nat /\ q < 32768 /\ q =< n /\ DOMAIN M.dup_cache = 1 .. q
  <2>1. M.dup_cache \in Seq(DupEntry) /\ n \in Nat  BY EndsTypes
  <2>2. q \in Nat /\ DOMAIN M.dup_cache = 1 .. q  BY <2>1
  <2>3. q =< DupCacheEntries /\ DupCacheEntries < 32768 /\ DupCacheEntries \in Nat /\ q =< n
    BY BoundsAssumption DEF Fits, Remembered
  <2> HIDE DEF n, q
  <2> QED  BY <2>1, <2>2, <2>3
<1>2. ASSUME NEW i \in 1 .. q PROVE M.dup_cache[i].message_id # NextId(L)
  <2>0. i \in DOMAIN M.dup_cache  BY <1>1
  <2>1. M.dup_cache[i].message_id = IdAfter(L.role, n - q + i - 1)  BY <2>0 DEF Remembered
  <2> DEFINE j == n - q + i - 1
  <2>2. j \in Nat /\ j < n /\ n - j < 32768
    <3> HIDE DEF n, q
    <3> QED  BY <1>1
  <2>3. IdAfter(L.role, j) # IdAfter(L.role, n)
    <3> HIDE DEF j, n, q
    <3> QED  BY <1>1, <2>2, Ids
  <2> QED  BY <2>1, <2>3 DEF NextId
<1> QED  BY <1>1, <1>2 DEF dup_lookup

\* The silent peer takes the next segment, and at the end of a batch answers.
LEMMA DataPair ==
  ASSUME Fits, NEW L, NEW M, Ends(L, M), NEW gL, NEW gM,
         NEW c, NEW k, Pair(L, M, c, k, gL, gM), Open(L, M, c, k, gL, gM),
         NEW h \in 0 .. MaxSegments, Sending(L, M, c, k, h), Apart(L, gL, gM, h),
         M.out_frames = << >>, M.delivered = NoBody, Len(M.dup_cache) =< DupCacheEntries,
         NEW f, f = Head(c)
  PROVE  LET N == handle_frame(M, f) IN
         /\ Pair(L, N, Tail(c), N.out_frames, gL, f)
         /\ Len(N.out_frames) =< 1 /\ N.accepts = M.accepts
         /\ N.delivered # NoBody => N.out_frames # << >>
<1> DEFINE N == handle_frame(M, f)
           n == Len(Sent(L))
           b == L.tx.base
           t == L.tx.total
           body == L.tx.payload
           ack == FinalAck(L)
           R == Reassembling(M, f)
<1>1. /\ InFlight(L) /\ h \in b .. Upto(L) - 1 /\ c = Batched(L, h) /\ Holding(L, M, h)
      /\ L.tx.active /\ Log(M) = Sent(L) /\ Len(Log(M)) = n
  BY DEF Sending, InFlight, Holding
<1>2. /\ Numbers(L) /\ b < t /\ b \in Nat /\ t \in Nat /\ t \in 1 .. MaxSegments
      /\ MaxSegments \in Nat /\ body \in Message /\ body # NoBody /\ n \in Nat
      /\ M.dup_cache \in Seq(DupEntry) /\ Log(M) \in Seq(Message)
  BY <1>1, EndsTypes, DataAssumption, SegmentNat DEF InFlight, Numbers
<1>3. Upto(L) \in Nat /\ Upto(L) =< t /\ h \in Nat /\ h < Upto(L) /\ h < t
      /\ h + 1 \in 0 .. MaxSegments
  <2>1. Upto(L) \in b + 1 .. b + L.window /\ Upto(L) =< t /\ Upto(L) \in 1 .. MaxSegments
    BY <1>2, UptoBounds
  <2> DEFINE u == Upto(L)
  <2>2. h \in b .. u - 1 /\ u \in 1 .. MaxSegments /\ u =< t  BY <1>1, <2>1
  <2> HIDE DEF b, t, u
  <2>3. u \in Nat /\ u =< t /\ h \in Nat /\ h < u /\ h < t /\ h + 1 \in 0 .. MaxSegments
    BY <1>2, <2>2
  <2> QED  BY <2>3 DEF u
<1>4. /\ f = DataFrame(L, h) /\ Tail(c) = Batched(L, h + 1)
      /\ Len(Batched(L, h + 1)) = Upto(L) - (h + 1)
      /\ h + 1 = Upto(L) => Batched(L, h + 1) = << >>
  BY <1>1, <1>3, BatchedParts
<1>5. /\ f.type = "DATA" /\ f.session_id = L.session_id /\ f.message_id = L.tx.message_id
      /\ f.sequence = h /\ f.value = t
  BY <1>4 DEF DataFrame, ZeroFrame
<1>6. /\ M.session_open /\ M.session_id = L.session_id /\ M.window = L.window
      /\ L.session_open /\ ~L.hello_pending
      /\ L.tx.message_id = NextId(L) /\ body \in M.accepts /\ Remembered(L, M)
  BY <1>1 DEF Open, Joined, Pair
<1>7. dup_lookup(M, f.session_id, f.message_id) = {}  BY <1>1, <1>5, <1>6, NotCached
<1>8. Shaped(M)  BY Shapes DEF Ends
<1>9. /\ HasFirst(L, R, h) /\ Shaped(R) /\ R = [M EXCEPT !.rx = R.rx]
      /\ R.accepts = M.accepts /\ R.window = M.window /\ R.out_frames = << >>
  <2>1. CASE h = 0
    <3>1. M.rx = NoRx /\ ~M.rx.active  BY <1>1, <2>1 DEF Holding, NoRx
    <3> DEFINE rx == [NoRx EXCEPT !.active = TRUE, !.session_id = f.session_id,
                        !.message_id = f.message_id, !.total = f.value]
    <3>2. R = [M EXCEPT !.rx = rx]  BY <3>1 DEF Reassembling
    <3>3. /\ rx.active = TRUE /\ rx.session_id = f.session_id /\ rx.message_id = f.message_id
          /\ rx.total = f.value /\ rx.payload = [s \in Segment |-> NoBody]
          /\ RxFields \subseteq DOMAIN rx
      BY DEF NoRx, RxFields
    <3> HIDE DEF rx, R
    <3>4. R.rx = rx /\ R.tx = M.tx /\ DOMAIN R = DOMAIN M  BY <1>8, <3>2 DEF Shaped, Fields
    <3>5. [s \in Segment |-> NoBody] = [s \in Segment |-> IF s < h THEN body ELSE NoBody]
      BY <2>1, SegmentNat
    <3>6. HasFirst(L, R, h)
      <4> HIDE DEF body, t
      <4> QED  BY <1>5, <3>3, <3>4, <3>5 DEF HasFirst, body, t
    <3>7. Shaped(R)  BY <1>8, <3>3, <3>4 DEF Shaped
    <3> QED  BY <1>8, <3>2, <3>4, <3>6, <3>7 DEF Shaped, Fields
  <2>2. CASE h # 0
    <3>1. HasFirst(L, M, h)  BY <1>1, <2>2 DEF Holding
    <3>2. R = M  BY <1>5, <3>1 DEF Reassembling, HasFirst
    <3>3. M = [M EXCEPT !.rx = M.rx]
      <4>1. M \in EndState(Message, Message)  BY DEF Ends
      <4> QED  BY <4>1 DEF EndState
    <3> QED  BY <1>8, <3>1, <3>2, <3>3
  <2> QED  BY <2>1, <2>2
<1>10. N = StoreSegment(R, f)
  <2>1. N = handle_data(M, f)  BY <1>5 DEF handle_frame
  <2>2. InSession(M, f)  BY <1>5, <1>6 DEF InSession
  <2>3. R.rx.total = f.value /\ ~(f.sequence >= R.rx.total)
    <3>1. R.rx.total = t /\ f.value = t /\ f.sequence = h  BY <1>5, <1>9 DEF HasFirst
    <3> HIDE DEF t, R
    <3> QED  BY <1>2, <1>3, <3>1
  <2>4. Received(R) = 0 .. h - 1  BY <1>2, <1>9, FirstReceived
  <2>5. f.sequence \notin Received(R)  BY <1>3, <1>5, <2>4
  <2> HIDE DEF N, R
  <2> QED  BY <1>7, <2>1, <2>2, <2>3, <2>5 DEF handle_data, R
<1> HIDE DEF N, R
<1>11. StoredNext(L, R, N, h + 1)
  <2>1. L.tx.payload \in R.accepts /\ R.window = L.window  BY <1>6, <1>9
  <2> HIDE DEF b, t, ack, body
  <2>2. h \in L.tx.base .. Upto(L) - 1  BY <1>1 DEF b
  <2>3. InFlight(L) /\ f = DataFrame(L, h)  BY <1>1, <1>4
  <2>4. R.out_frames = << >> /\ HasFirst(L, R, h) /\ Shaped(R)  BY <1>9
  <2> QED  BY <1>10, <2>1, <2>2, <2>3, <2>4, StorePair
<1>12. Apart(L, gL, f, h + 1)  BY <1>3, <1>5 DEF Apart
<1>13. ASSUME NEW k2, Talking(L, N, Tail(c), k2, h + 1), Remembered(L, N),
              N.tx = M.tx, N.hello_pending = M.hello_pending, N.deadline_set = M.deadline_set,
              N.profile = M.profile, N.window = M.window, N.accepts = M.accepts,
              N.session_open = M.session_open, N.session_id = M.session_id
       PROVE  Pair(L, N, Tail(c), k2, gL, f)
  <2>1. Open(L, N, Tail(c), k2, gL, f)
    BY <1>3, <1>6, <1>12, <1>13 DEF Open, Joined
  <2> QED  BY <1>13, <2>1 DEF Pair
<1>14. CASE h + 1 < Upto(L) /\ HasFirst(L, N, h + 1) /\ N = [R EXCEPT !.rx = N.rx]
  <2>1. N = [M EXCEPT !.rx = N.rx]  BY <1>9, <1>14
  <2>2. /\ N.tx = M.tx /\ N.hello_pending = M.hello_pending /\ N.deadline_set = M.deadline_set
        /\ N.profile = M.profile /\ N.window = M.window /\ N.accepts = M.accepts
        /\ N.session_open = M.session_open /\ N.session_id = M.session_id
        /\ N.out_frames = << >> /\ N.stats = M.stats /\ N.dup_cache = M.dup_cache
        /\ N.delivered = NoBody
    BY <1>8, <2>1 DEF Shaped, Fields
  <2>3. Remembered(L, N)  BY <1>6, <2>2 DEF Remembered, Log
  <2>4. Sending(L, N, Tail(c), << >>, h + 1)
    <3>1. h + 1 \in b .. Upto(L) - 1 /\ h + 1 # 0  BY <1>1, <1>2, <1>3, <1>14
    <3> QED  BY <1>1, <1>4, <1>14, <2>2, <3>1 DEF Sending, Holding, Log
  <2>5. Pair(L, N, Tail(c), << >>, gL, f)  BY <1>13, <2>2, <2>3, <2>4 DEF Talking
  <2>6. Len(<< >>) =< 1  OBVIOUS
  <2> QED  BY <2>2, <2>5, <2>6 DEF N
<1>15. CASE /\ h + 1 = Upto(L) /\ h + 1 < t /\ HasFirst(L, N, h + 1)
            /\ N = [R EXCEPT !.rx = N.rx, !.out_frames = <<PartialAck(L, h + 1)>>]
  <2> DEFINE k2 == <<PartialAck(L, h + 1)>>
  <2>1. N = [M EXCEPT !.rx = N.rx, !.out_frames = k2]  BY <1>9, <1>15
  <2>0. Len(k2) =< 1 /\ k2 # << >>  OBVIOUS
  <2> HIDE DEF k2
  <2>2. /\ N.tx = M.tx /\ N.hello_pending = M.hello_pending /\ N.deadline_set = M.deadline_set
        /\ N.profile = M.profile /\ N.window = M.window /\ N.accepts = M.accepts
        /\ N.session_open = M.session_open /\ N.session_id = M.session_id
        /\ N.out_frames = k2 /\ N.stats = M.stats /\ N.dup_cache = M.dup_cache
        /\ N.delivered = NoBody
    BY <1>8, <2>1 DEF Shaped, Fields
  <2>3. Remembered(L, N)  BY <1>6, <2>2 DEF Remembered, Log
  <2>4. Answered(L, N, Tail(c), k2, h + 1)
    <3>1. h + 1 # 0  BY <1>3
    <3> QED  BY <1>1, <1>4, <1>15, <2>2, <3>1 DEF Answered, Holding, Log, k2
  <2>5. Pair(L, N, Tail(c), k2, gL, f)  BY <1>13, <2>2, <2>3, <2>4 DEF Talking
  <2> QED  BY <2>0, <2>2, <2>5 DEF N
<1>16. CASE /\ h + 1 = Upto(L) /\ h + 1 = t
            /\ \E S : /\ S = [R EXCEPT !.rx = S.rx]
                      /\ N = clear_rx_message(dup_store(queue_frame(Deliver(S, body), ack),
                               L.session_id, L.tx.message_id, ack))
  <2>1. PICK S : /\ S = [R EXCEPT !.rx = S.rx]
                 /\ N = clear_rx_message(dup_store(queue_frame(Deliver(S, body), ack),
                          L.session_id, L.tx.message_id, ack))
    BY <1>16
  <2> HIDE DEF ack, body
  <2> DEFINE D == Deliver(S, body)
             Q == queue_frame(D, ack)
             x == [session_id |-> L.session_id, message_id |-> L.tx.message_id, ack |-> ack]
             kept == IF Len(M.dup_cache) >= DupCacheEntries THEN Tail(M.dup_cache)
                     ELSE M.dup_cache
             E == dup_store(Q, L.session_id, L.tx.message_id, ack)
  <2>2. /\ S.tx = M.tx /\ S.hello_pending = M.hello_pending /\ S.deadline_set = M.deadline_set
        /\ S.profile = M.profile /\ S.window = M.window /\ S.accepts = M.accepts
        /\ S.session_open = M.session_open /\ S.session_id = M.session_id
        /\ S.out_frames = << >> /\ S.stats = M.stats /\ S.dup_cache = M.dup_cache
        /\ DOMAIN S = DOMAIN M
    <3>1. S = [M EXCEPT !.rx = S.rx]  BY <1>9, <2>1
    <3> QED  BY <1>8, <3>1 DEF Shaped, Fields
  <2>3. /\ D.tx = M.tx /\ D.hello_pending = M.hello_pending /\ D.deadline_set = M.deadline_set
        /\ D.profile = M.profile /\ D.window = M.window /\ D.accepts = M.accepts
        /\ D.session_open = M.session_open /\ D.session_id = M.session_id
        /\ D.out_frames = << >> /\ D.dup_cache = M.dup_cache
        /\ D.stats = [M.stats EXCEPT !.messages_delivered = Append(@, body)]
        /\ DOMAIN D = DOMAIN M
    <3>1. D = [S EXCEPT !.delivered = body,
                 !.stats = [S.stats EXCEPT !.messages_delivered = Append(@, body)]]
      BY DEF Deliver
    <3> HIDE DEF D
    <3> QED  BY <1>8, <2>2, <3>1 DEF Shaped, Fields
  <2> HIDE DEF D
  <2>4. Q = [D EXCEPT !.out_frames = <<ack>>]
    <3>1. Len(<< >>) = 0 /\ ~(0 >= OutQueueFrames) /\ Append(<< >>, ack) = <<ack>>
      BY BoundsAssumption
    <3> QED  BY <2>3, <3>1 DEF queue_frame
  <2> HIDE DEF Q
  <2>5. E = [Q EXCEPT !.dup_cache = Append(kept, x)]
    <3>1. Q.dup_cache = M.dup_cache  BY <1>8, <2>3, <2>4 DEF Shaped, Fields
    <3> QED  BY <3>1 DEF dup_store
  <2> HIDE DEF E, kept, x
  <2>6. N = [E EXCEPT !.rx = NoRx]  BY <2>1 DEF clear_rx_message, E, Q, D
  <2>7. /\ N.tx = M.tx /\ N.hello_pending = M.hello_pending /\ N.deadline_set = M.deadline_set
        /\ N.profile = M.profile /\ N.window = M.window /\ N.accepts = M.accepts
        /\ N.session_open = M.session_open /\ N.session_id = M.session_id
        /\ N.out_frames = <<ack>> /\ N.dup_cache = Append(kept, x) /\ N.rx = NoRx
        /\ N.stats = [M.stats EXCEPT !.messages_delivered = Append(@, body)]
    BY <1>8, <2>3, <2>4, <2>5, <2>6 DEF Shaped, Fields
  <2>8. Log(N) = Append(Log(M), body) /\ Len(Log(N)) = n + 1
    <3>1. M.stats \in Stats(Message, Message)  BY DEF Ends, EndState
    <3>2. "messages_delivered" \in DOMAIN M.stats  BY <3>1 DEF Stats
    <3>3. Log(N) = Append(Log(M), body)  BY <2>7, <3>2 DEF Log
    <3>4. body \in Message  BY <1>2
    <3> QED  BY <1>1, <1>2, <3>3, <3>4
  <2>9. Remembered(L, N)
    <3>1. x.message_id = IdAfter(L.role, Len(Log(M)))  BY <1>1, <1>6 DEF x, NextId
    <3>2. CASE ~(Len(M.dup_cache) >= DupCacheEntries)
      BY <1>1, <1>2, <1>6, <2>7, <2>8, <3>1, <3>2, MemoryGrows DEF kept
    <3>3. CASE Len(M.dup_cache) >= DupCacheEntries
      <4> DEFINE T == [M EXCEPT !.dup_cache = Tail(M.dup_cache)]
      <4>1. T.dup_cache = Tail(M.dup_cache) /\ T.stats = M.stats
        BY <1>8 DEF Shaped, Fields
      <4> HIDE DEF T
      <4>2. M.dup_cache # << >>
        <5>1. Len(<< >>) = 0 /\ DupCacheEntries > 0 /\ DupCacheEntries \in Nat
          BY BoundsAssumption
        <5> QED  BY <3>3, <5>1
      <4>3. Log(T) = Log(M) /\ T.dup_cache \in Seq(DupEntry)  BY <1>2, <4>1, <4>2 DEF Log
      <4>4. Remembered(L, T)  BY <1>1, <1>2, <1>6, <4>1, <4>2, <4>3, MemoryFades
      <4>5. N.dup_cache = Append(T.dup_cache, x)  BY <2>7, <3>3, <4>1 DEF kept
      <4> QED  BY <1>1, <1>2, <2>8, <3>1, <4>3, <4>4, <4>5, MemoryGrows
    <3> QED  BY <3>2, <3>3
  <2>10. Answered(L, N, Tail(c), <<ack>>, h + 1)
    <3>1. Log(N) = Append(Sent(L), L.tx.payload)  BY <1>1, <2>8 DEF body
    <3>2. ~(h + 1 < L.tx.total)  BY <1>2, <1>16
    <3>3. Tail(c) = << >>  BY <1>4, <1>16
    <3> QED  BY <1>1, <1>16, <2>7, <3>1, <3>2, <3>3 DEF Answered, ack
  <2>11. Pair(L, N, Tail(c), <<ack>>, gL, f)  BY <1>13, <2>7, <2>9, <2>10 DEF Talking
  <2>12. Len(<<ack>>) =< 1 /\ <<ack>> # << >>  OBVIOUS
  <2> QED  BY <2>7, <2>11, <2>12 DEF N
<1> QED  BY <1>11, <1>14, <1>15, <1>16 DEF StoredNext

\* N has segments b .. u - 1 in flight, which L has not.
NewBatch(L, N, b, u) ==
  /\ b \in Nat /\ u \in Nat /\ b < u
  /\ N.tx.inflight = b .. u - 1 /\ L.tx.inflight \cap (b .. u - 1) = {}

\* A batch that was not in flight before is what the clock is set for.
LEMMA BatchClock ==
  ASSUME NEW L, NEW N, NEW b, NEW u, NewBatch(L, N, b, u)
  PROVE  \A C \in ClockType : Started(C, L, N).left = base_timeout(u - b)
<1>1. N.tx.inflight \ L.tx.inflight = b .. u - 1  BY DEF NewBatch
<1>2. b \in Nat /\ u \in Nat /\ b =< u /\ u - b \in Nat \ {0}  BY DEF NewBatch
<1>3. Cardinality(b .. u - 1) = u - b  BY <1>2, IntervalRanks
<1>4. NewlyQueued(L, N) = u - b  BY <1>1, <1>3 DEF NewlyQueued
<1> QED  BY <1>2, <1>4, StartedLeft

\* N, which the sender becomes when it hears f, has sent what comes next, if anything,
\* and its clock covers it.
HeardWell(L, M, N, f, gM) ==
  /\ Pair(N, M, N.out_frames, << >>, f, gM)
  /\ N.deadline_set =>
       /\ N.out_frames # << >>
       /\ \A C \in ClockType : AfterFrame(C, f, L, N).left = base_timeout(Len(N.out_frames))

\* The HELLO_ACK opens the session and starts the message.
LEMMA GreetedPair ==
  ASSUME Fits, NEW L, NEW M, Ends(L, M), NEW gL, NEW gM,
         NEW c, NEW k, Pair(L, M, c, k, gL, gM), Greeting(L, M, c, k, gM),
         k # << >>, L.out_frames = << >>, NEW f, f = Head(k)
  PROVE  Tail(k) = << >> /\ HeardWell(L, M, handle_frame(L, f), f, gM)
<1> DEFINE N == handle_frame(L, f)
           O == [L EXCEPT !.hello_pending = FALSE, !.session_open = TRUE,
                          !.window = Narrowed(L, f), !.deadline_set = FALSE]
<1>1. /\ Unheard(L, M) /\ L.hello_pending /\ L.tx.active
      /\ Joined(L, M) /\ M.challenge = L.challenge /\ M.window =< L.window
      /\ k = <<Reply(L, M)>> /\ gM.type # "DATA"
  BY DEF Greeting
<1>2. f = Reply(L, M) /\ Tail(k) = << >>  BY <1>1
<1>3. /\ f.type = "HELLO_ACK" /\ f.session_id = L.session_id /\ f.challenge = L.challenge
      /\ f.value = kal_capability_pack(M.profile, M.window)
  <2>1. M.session_id = L.session_id /\ M.challenge = L.challenge  BY <1>1 DEF Joined
  <2> QED  BY <1>2, <2>1 DEF Reply, build_hello, ZeroFrame
<1>4. /\ L.window \in 1 .. 16 /\ M.window \in 1 .. 16 /\ L.profile \in 0 .. 5
      /\ L.profile = M.profile /\ Shaped(L) /\ Numbers(L)
      /\ L.tx.total \in 1 .. MaxSegments /\ MaxSegments \in Nat
  BY <1>1, EndsTypes, Shapes, SegmentNat DEF Ends, Numbers, Pair
<1>5. kal_capability_profile(f.value) = L.profile /\ kal_capability_window(f.value) = M.window
  <2>1. f.value = kal_capability_pack(L.profile, M.window)  BY <1>3, <1>4
  <2>2. L.profile \in 0 .. 5 /\ M.window \in 1 .. 16  BY <1>4
  <2> DEFINE v == kal_capability_pack(L.profile, M.window)
  <2>3. kal_capability_profile(v) = L.profile /\ kal_capability_window(v) = M.window
    BY <2>2, Unpacked
  <2> HIDE DEF v
  <2> QED  BY <2>1, <2>3 DEF v
<1>6. Narrowed(L, f) = M.window
  <2>1. (IF M.window < L.window THEN M.window ELSE L.window) = M.window
    <3> DEFINE v == M.window
               w == L.window
    <3>1. v \in 1 .. 16 /\ w \in 1 .. 16 /\ v =< w  BY <1>1, <1>4
    <3> HIDE DEF v, w
    <3>2. (IF v < w THEN v ELSE w) = v  BY <3>1
    <3> QED  BY <3>2 DEF v, w
  <2>2. Narrowed(L, f) = clamp_window(M.window)  BY <1>5, <2>1 DEF Narrowed
  <2>3. clamp_window(M.window) = M.window
    BY <1>4 DEF clamp_window, KAL_MIN_WINDOW_FRAMES, KAL_MAX_WINDOW_FRAMES
  <2> QED  BY <2>2, <2>3
<1>7. N = start_or_resume_tx(O)  BY <1>1, <1>3, <1>5 DEF handle_frame, handle_hello_ack
<1>8. /\ O.session_open /\ ~O.hello_pending /\ O.window = M.window /\ O.tx = L.tx
      /\ O.out_frames = << >> /\ Same(L, O) /\ DOMAIN O = DOMAIN L /\ O.rx = L.rx
  BY <1>4, <1>6 DEF Shaped, Fields, Same
<1> HIDE DEF N, O
<1>9. Shaped(O)  BY <1>4, <1>8 DEF Shaped
<1>10. Ready(O)
  <2>1. {} = 0 .. 0 - 1  OBVIOUS
  <2>2. L.tx.acked = {} /\ L.tx.inflight = {} /\ L.tx.base = 0  BY <1>1 DEF Unheard
  <2>3. M.window =< OutQueueFrames  BY DEF Pair
  <2>4. 0 % M.window = 0 /\ 0 < L.tx.total  BY <1>4
  <2>5. Numbers(O)  BY <1>4, <1>8 DEF Numbers
  <2> QED  BY <1>1, <1>8, <2>1, <2>2, <2>3, <2>4, <2>5 DEF Ready
<1>11. Holding(O, M, 0)
  <2>1. Sent(O) = << >> /\ Log(M) = << >> /\ M.rx = NoRx  BY <1>1, <1>8 DEF Unheard, Same, Sent
  <2> QED  BY <2>1 DEF Holding
<1>12. Apart(O, f, gM, 0)  BY <1>1, <1>3 DEF Apart
<1>13. L.tx.base = 0 /\ 0 \in 0 .. MaxSegments /\ 0 = O.tx.base
  BY <1>1, <1>4, <1>8 DEF Unheard
<1>14. /\ Pair(N, M, N.out_frames, << >>, f, gM)
       /\ N.tx.inflight = O.tx.base .. Upto(O) - 1 /\ Upto(O) \in Nat /\ O.tx.base < Upto(O)
       /\ Len(N.out_frames) = Upto(O) - O.tx.base
       /\ ~N.hello_pending /\ N.deadline_set
  <2>1. /\ Remembered(L, M) /\ M.tx = NoTx /\ ~M.hello_pending /\ ~M.deadline_set
        /\ L.delivered = NoBody /\ L.profile = M.profile /\ M.window =< OutQueueFrames
        /\ L.next_message_id = NextId(L)
        /\ L.tx.message_id = L.next_message_id /\ L.tx.payload \in M.accepts
    BY <1>1 DEF Pair
  <2> QED
    BY <1>1, <1>7, <1>8, <1>9, <1>10, <1>11, <1>12, <1>13, <2>1, BatchSent
<1>15. \A C \in ClockType : AfterFrame(C, f, L, N).left = base_timeout(Len(N.out_frames))
  <2>1. L.tx.inflight = {}  BY <1>1 DEF Unheard
  <2>2. \A C \in ClockType : Started(C, L, N).left = base_timeout(Len(N.out_frames))
    <3> DEFINE b == O.tx.base
               u == Upto(O)
    <3>1. b \in Nat /\ u \in Nat /\ b < u /\ N.tx.inflight = b .. u - 1
          /\ Len(N.out_frames) = u - b
      BY <1>13, <1>14
    <3> HIDE DEF b, u
    <3>2. L.tx.inflight \cap (b .. u - 1) = {}  BY <2>1
    <3>3. NewBatch(L, N, b, u)  BY <3>1, <3>2 DEF NewBatch
    <3>4. \A C \in ClockType : Started(C, L, N).left = base_timeout(u - b)
      BY <3>3, BatchClock
    <3> QED  BY <3>1, <3>4
  <2>3. N.window \in Nat
    <3>1. N.window = O.window  BY <1>7, <1>9, <1>10, ReadyStarts DEF Shaped, Fields
    <3> QED  BY <1>4, <1>8, <3>1
  <2>4. Opens(f, L, N)  BY <1>1, <1>3, <1>14 DEF Opens
  <2>5. \A C \in ClockType : recompute_timeouts(C, N.window) \in ClockType  BY <2>3, ClockOps
  <2> QED  BY <2>2, <2>4, <2>5 DEF AfterFrame
<1>16. N.out_frames # << >>
  <2>1. Len(<< >>) = 0  OBVIOUS
  <2> QED  BY <1>13, <1>14, <2>1
<1> QED  BY <1>2, <1>14, <1>15, <1>16 DEF HeardWell, N

\* A partial ACK of the whole batch starts the next one.
LEMMA NextBatchPair ==
  ASSUME Fits, NEW L, NEW M, Ends(L, M), NEW gL, NEW gM,
         NEW c, NEW k, Pair(L, M, c, k, gL, gM), Open(L, M, c, k, gL, gM),
         NEW h \in 0 .. MaxSegments, Answered(L, M, c, k, h), Apart(L, gL, gM, h),
         h < L.tx.total, L.out_frames = << >>, NEW f, f = PartialAck(L, h)
  PROVE  HeardWell(L, M, handle_frame(L, f), f, gM)
<1> DEFINE b == L.tx.base
           t == L.tx.total
           S == MarkAcked(L, 0 .. h - 1)
           N == start_or_resume_tx(S)
<1>1. InFlight(L) /\ h = Upto(L) /\ Holding(L, M, h)  BY DEF Answered
<1>2. /\ Numbers(L) /\ Shaped(L) /\ MaxSegments \in Nat
      /\ L.tx.active /\ L.deadline_set /\ b < t /\ b % L.window = 0
      /\ L.tx.acked = 0 .. b - 1 /\ L.tx.inflight = b .. h - 1
  BY <1>1, EndsTypes, Shapes, SegmentNat DEF Ends, InFlight
<1>3. /\ b \in Nat /\ t \in 1 .. MaxSegments /\ h \in Nat /\ b < h /\ h < t
      /\ h = b + L.window /\ L.window \in 1 .. 16
  BY <1>1, <1>2, UptoBounds DEF Numbers, KAL_MAX_SEGMENTS
<1>4. /\ f.type = "ACK" /\ f.session_id = L.session_id /\ f.message_id = L.tx.message_id
      /\ f.sequence = h /\ f.bitmap = {} /\ f.flag = FALSE
  BY DEF PartialAck, ZeroFrame
<1>5. h % L.window = 0
  <2> HIDE DEF b
  <2>1. h \in b + 1 .. b + L.window  BY <1>3
  <2> QED  BY <1>2, <1>3, <2>1, WindowEnds
<1>6. handle_frame(L, f) = [N EXCEPT !.deadline_set = TRUE]
  <2> DEFINE marked == {s \in Segment : s < t /\ (s < f.sequence \/ s \in f.bitmap)}
  <2>1. marked = 0 .. h - 1
    <3> HIDE DEF t
    <3> QED  BY <1>2, <1>3, <1>4 DEF Segment
  <2>2. ~(f.sequence > L.tx.total)  BY <1>3, <1>4
  <2>3. handle_frame(L, f) = [start_or_resume_tx(MarkAcked(L, marked)) EXCEPT !.deadline_set = TRUE]
    BY <1>2, <1>4, <2>2 DEF handle_frame, handle_ack
  <2> HIDE DEF marked
  <2> QED  BY <2>1, <2>3
<1> DEFINE tx == [L.tx EXCEPT !.acked = 0 .. h - 1, !.inflight = {}, !.retries = 0, !.base = h]
<1>7. S = [L EXCEPT !.tx = tx]
  <2>1. L.tx.acked \cup (0 .. h - 1) = 0 .. h - 1  BY <1>2, <1>3
  <2>2. L.tx.inflight \ (0 .. h - 1) = {}  BY <1>2, <1>3
  <2>3. FirstOutside(0 .. h - 1, L.tx.base, L.tx.total) = h
    <3> DEFINE n == FirstOutside(0 .. h - 1, b, t)
    <3>1. n \in b .. t /\ (n = t \/ n \notin 0 .. h - 1) /\ \A s \in b .. n - 1 : s \in 0 .. h - 1
      <4> HIDE DEF b, t
      <4>1. b \in Nat /\ t \in Nat /\ b =< t  BY <1>2, <1>3
      <4> QED  BY <4>1, FirstOutsideFound
    <3> HIDE DEF n, b, t
    <3>2. n >= h  BY <1>3, <3>1
    <3>3. h \in b .. n - 1 => FALSE  BY <1>3, <3>1
    <3>4. n = h  BY <1>3, <3>1, <3>2, <3>3
    <3> QED  BY <3>4 DEF n, b, t
  <2>4. S = [L EXCEPT !.tx = [L.tx EXCEPT !.acked = L.tx.acked \cup (0 .. h - 1),
               !.inflight = L.tx.inflight \ (0 .. h - 1), !.retries = 0,
               !.base = FirstOutside(L.tx.acked \cup (0 .. h - 1), L.tx.base, L.tx.total)]]
    BY DEF MarkAcked
  <2> HIDE DEF S
  <2> QED  BY <2>1, <2>2, <2>3, <2>4
<1>8. /\ tx.acked = 0 .. h - 1 /\ tx.inflight = {} /\ tx.base = h /\ tx.total = t
      /\ tx.active = L.tx.active /\ tx.message_id = L.tx.message_id
      /\ tx.payload = L.tx.payload /\ DOMAIN tx = DOMAIN L.tx
  BY <1>2 DEF Shaped, TxFields
<1> HIDE DEF S, tx
<1>9. /\ S.tx = tx /\ Same(L, S) /\ S.session_open = L.session_open /\ S.window = L.window
      /\ S.hello_pending = L.hello_pending /\ S.out_frames = << >> /\ DOMAIN S = DOMAIN L
      /\ S.rx = L.rx
  BY <1>2, <1>7 DEF Shaped, Fields, Same
<1>10. Shaped(S)  BY <1>2, <1>8, <1>9 DEF Shaped
<1>11. /\ L.session_open /\ ~L.hello_pending /\ Joined(L, M) /\ M.window = L.window
       /\ Remembered(L, M) /\ M.tx = NoTx /\ ~M.hello_pending /\ ~M.deadline_set
       /\ L.delivered = NoBody /\ L.profile = M.profile /\ M.window =< OutQueueFrames
       /\ L.next_message_id = NextId(L)
       /\ L.tx.message_id = L.next_message_id /\ L.tx.payload \in M.accepts
  BY <1>2 DEF Pair, Open
<1>12. Ready(S)
  <2>1. Numbers(S)  BY <1>2, <1>3, <1>8, <1>9 DEF Numbers
  <2>2. S.tx.base < S.tx.total /\ S.tx.base % S.window = 0  BY <1>3, <1>5, <1>8, <1>9
  <2> QED  BY <1>2, <1>8, <1>9, <1>11, <2>1, <2>2 DEF Ready
<1>13. Holding(S, M, h)
  BY <1>1, <1>8, <1>9 DEF Holding, HasFirst, Same, Sent
<1>14. Apart(S, f, gM, h)  BY <1>3, <1>4, <1>8, <1>9 DEF Apart
<1>15. /\ Pair(N, M, N.out_frames, << >>, f, gM)
       /\ N.tx.inflight = h .. Upto(S) - 1 /\ Upto(S) \in Nat /\ h < Upto(S)
       /\ Len(N.out_frames) = Upto(S) - h
       /\ ~N.hello_pending /\ N.deadline_set
  <2>1. S.session_open /\ ~S.hello_pending /\ M.window = S.window /\ h = S.tx.base
        /\ S.tx.message_id = L.next_message_id /\ S.tx.payload \in M.accepts
    BY <1>8, <1>9, <1>11
  <2> HIDE DEF N
  <2>2. /\ Pair(N, M, N.out_frames, << >>, f, gM)
        /\ N.tx.inflight = S.tx.base .. Upto(S) - 1 /\ Upto(S) \in Nat /\ S.tx.base < Upto(S)
        /\ Len(N.out_frames) = Upto(S) - S.tx.base
        /\ ~N.hello_pending /\ N.deadline_set
    BY <1>9, <1>10, <1>11, <1>12, <1>13, <1>14, <2>1, BatchSent DEF N
  <2> QED  BY <2>1, <2>2
<1>16. [N EXCEPT !.deadline_set = TRUE] = N
  <2>1. N = [S EXCEPT !.out_frames = Batched(S, S.tx.base), !.deadline_set = TRUE,
               !.tx = [S.tx EXCEPT !.inflight = S.tx.base .. Upto(S) - 1, !.started = TRUE]]
    BY <1>10, <1>12, ReadyStarts
  <2> HIDE DEF N
  <2> QED  BY <2>1
<1> HIDE DEF N
<1>17. \A C \in ClockType : AfterFrame(C, f, L, N).left = base_timeout(Len(N.out_frames))
  <2> DEFINE u == Upto(S)
  <2>1. u \in Nat /\ h < u /\ N.tx.inflight = h .. u - 1 /\ Len(N.out_frames) = u - h
    BY <1>15
  <2> HIDE DEF u
  <2>2. L.tx.inflight \cap (h .. u - 1) = {}  BY <1>2, <1>3
  <2>3. \A C \in ClockType : Started(C, L, N).left = base_timeout(Len(N.out_frames))
    <3>1. \A C \in ClockType : Started(C, L, N).left = base_timeout(u - h)
      <4>1. NewBatch(L, N, h, u)  BY <1>3, <2>1, <2>2 DEF NewBatch
      <4> QED  BY <4>1, BatchClock
    <3> QED  BY <2>1, <3>1
  <2>4. Acknowledges(f, L) /\ ~Opens(f, L, N)  BY <1>2, <1>3, <1>4 DEF Acknowledges, Opens
  <2>5. \A C \in ClockType : recompute_timeouts(C, L.window) \in ClockType
    <3>1. L.window \in Nat  BY <1>3
    <3> QED  BY <3>1, ClockOps
  <2>6. SUFFICES ASSUME NEW C \in ClockType
                 PROVE  AfterFrame(C, f, L, N).left = base_timeout(Len(N.out_frames))
    OBVIOUS
  <2> DEFINE D == recompute_timeouts(C, L.window)
  <2>7. D \in ClockType  BY <2>5
  <2>8. AfterFrame(C, f, L, N) = Started(D, L, N)  BY <1>2, <2>4 DEF AfterFrame
  <2> HIDE DEF D
  <2> QED  BY <2>3, <2>7, <2>8
<1>18. N.out_frames # << >>
  <2>1. Len(<< >>) = 0  OBVIOUS
  <2> QED  BY <1>3, <1>15, <2>1
<1>19. handle_frame(L, f) = N  BY <1>6, <1>16
<1> QED  BY <1>15, <1>17, <1>18, <1>19 DEF HeardWell

\* The ACK of the whole message ends the transfer.
LEMMA ConfirmedPair ==
  ASSUME Fits, NEW L, NEW M, Ends(L, M), NEW gL, NEW gM,
         NEW c, NEW k, Pair(L, M, c, k, gL, gM), Open(L, M, c, k, gL, gM),
         NEW h \in 0 .. MaxSegments, Answered(L, M, c, k, h), Apart(L, gL, gM, h),
         ~(h < L.tx.total), L.out_frames = << >>, NEW f, f = FinalAck(L)
  PROVE  HeardWell(L, M, handle_frame(L, f), f, gM)
<1> DEFINE N == handle_frame(L, f)
           n == Len(Sent(L))
<1>1. /\ InFlight(L) /\ h = Upto(L) /\ M.rx = NoRx /\ L.tx.active
      /\ Log(M) = Append(Sent(L), L.tx.payload)
  BY DEF Answered, InFlight
<1>2. /\ Numbers(L) /\ Shaped(L) /\ MaxSegments \in Nat /\ n \in Nat
      /\ Sent(L) \in Seq(Message \cup {NoBody}) /\ L.tx.payload \in Message
  BY <1>1, EndsTypes, Shapes, SegmentNat DEF Ends
<1>3. h # 0
  <2>1. h \in 1 .. MaxSegments  BY <1>1, <1>2, UptoBounds DEF InFlight
  <2> QED  BY <1>2, <2>1
<1>4. /\ f.type = "ACK" /\ f.session_id = L.session_id /\ f.message_id = L.tx.message_id
      /\ f.sequence = L.tx.total /\ f.flag = TRUE
  BY DEF FinalAck, ZeroFrame
<1>5. N = TxDelivered(L)  BY <1>1, <1>4 DEF handle_frame, handle_ack
<1> HIDE DEF N
<1>6. N = [L EXCEPT !.tx = NoTx, !.deadline_set = FALSE, !.tx_status = "OK",
             !.next_message_id = (@ + 2) % 65536,
             !.stats = [L.stats EXCEPT !.messages_sent = Append(@, L.tx.payload)]]
  BY <1>5 DEF TxDelivered, clear_tx_message
<1>7. /\ N.tx = NoTx /\ N.deadline_set = FALSE /\ N.role = L.role /\ N.profile = L.profile
      /\ N.window = L.window /\ N.session_open = L.session_open
      /\ N.hello_pending = L.hello_pending /\ N.session_id = L.session_id
      /\ N.delivered = L.delivered /\ N.out_frames = << >>
      /\ N.next_message_id = (L.next_message_id + 2) % 65536
      /\ N.stats = [L.stats EXCEPT !.messages_sent = Append(@, L.tx.payload)]
  BY <1>2, <1>6 DEF Shaped, Fields
<1>8. /\ Len(Sent(N)) = n + 1 /\ Sent(N) # << >>
      /\ Sent(N) = Append(Sent(L), L.tx.payload)
  <2>1. L.stats \in Stats(Message, Message)  BY DEF Ends, EndState
  <2>2. "messages_sent" \in DOMAIN L.stats  BY <2>1 DEF Stats
  <2>3. Sent(N) = Append(Sent(L), L.tx.payload)  BY <1>7, <2>2 DEF Sent
  <2>4. L.tx.payload \in Message \cup {NoBody}  BY <1>2
  <2>5. Len(Sent(N)) = n + 1  BY <1>2, <2>3, <2>4
  <2>6. Len(<< >>) = 0  OBVIOUS
  <2> HIDE DEF n
  <2> QED  BY <1>2, <2>3, <2>5, <2>6
<1>9. /\ L.session_open /\ ~L.hello_pending /\ Joined(L, M) /\ M.window = L.window
      /\ Remembered(L, M) /\ M.tx = NoTx /\ ~M.hello_pending /\ ~M.deadline_set
      /\ L.delivered = NoBody /\ L.profile = M.profile /\ M.window =< OutQueueFrames
      /\ L.next_message_id = NextId(L)
      /\ L.tx.message_id = L.next_message_id
  BY <1>1 DEF Pair, Open
<1>10. N.next_message_id = NextId(N) /\ LastId(N) = L.tx.message_id
  <2> HIDE DEF n
  <2>1. IdAfter(L.role, n + 1) = (IdAfter(L.role, n) + 2) % 65536  BY <1>2, Ids
  <2>2. (n + 1) - 1 = n  BY <1>2
  <2>3. NextId(L) = IdAfter(L.role, n)  BY DEF NextId, n
  <2> QED  BY <1>7, <1>8, <1>9, <2>1, <2>2, <2>3 DEF NextId, LastId
<1>11. Idle(N, M, << >>, << >>)  BY <1>1, <1>7, <1>8 DEF Idle
<1>12. Apart(N, f, gM, 0)
  <2>1. gM.type = "DATA" => gM.message_id = L.tx.message_id  BY <1>3 DEF Apart
  <2>2. N.tx.base = 0  BY <1>7 DEF NoTx
  <2> QED  BY <1>4, <1>8, <1>10, <2>1, <2>2 DEF Apart
<1>13. Open(N, M, << >>, << >>, f, gM)
  <2>1. Talking(N, M, << >>, << >>, 0)  BY <1>11 DEF Talking
  <2>2. Joined(N, M) /\ 0 \in 0 .. MaxSegments  BY <1>2, <1>7, <1>9 DEF Joined
  <2> QED  BY <1>7, <1>9, <1>12, <2>1, <2>2 DEF Open
<1>14. Remembered(N, M)  BY <1>7, <1>9 DEF Remembered
<1>15. Pair(N, M, << >>, << >>, f, gM)
  <2>1. ~N.tx.active  BY <1>7 DEF NoTx
  <2> QED  BY <1>7, <1>9, <1>10, <1>13, <1>14, <2>1 DEF Pair
<1> QED  BY <1>7, <1>15 DEF HeardWell, N

\* What comes next differs from what was heard last.
LEMMA NotRepeated ==
  ASSUME NEW L, NEW M, Ends(L, M), NEW gL, NEW gM,
         NEW c, NEW k, Pair(L, M, c, k, gL, gM)
  PROVE  /\ c # << >> => Head(c) # gM
         /\ k # << >> => Head(k) # gL
<1>1. CASE Waiting(L, M, c, k, gM)  BY <1>1 DEF Waiting
<1>2. CASE Greeting(L, M, c, k, gM) /\ gL.type = "NONE"
  <2>1. \A x : Head(<<x>>) = x  OBVIOUS
  <2>2. build_hello(L, "HELLO").type = "HELLO" /\ Reply(L, M).type = "HELLO_ACK"
    BY DEF Reply, build_hello, ZeroFrame
  <2> QED  BY <1>2, <2>1, <2>2 DEF Greeting
<1>3. CASE Open(L, M, c, k, gL, gM)
  <2>1. PICK h \in 0 .. MaxSegments : Talking(L, M, c, k, h) /\ Apart(L, gL, gM, h)
    BY <1>3 DEF Open
  <2>2. CASE Idle(L, M, c, k)  BY <2>2 DEF Idle
  <2> DEFINE n == Len(Sent(L))
  <2>3. n \in Nat /\ (Sent(L) # << >> => n # 0)
    <3>1. n \in Nat /\ Sent(L) \in Seq(Message \cup {NoBody})  BY EndsTypes
    <3> QED  BY <3>1, EmptySeq
  <2>4. Sent(L) # << >> => LastId(L) # NextId(L)
    <3> SUFFICES ASSUME Sent(L) # << >> PROVE LastId(L) # NextId(L)  OBVIOUS
    <3> HIDE DEF n
    <3>1. n - 1 \in Nat /\ n - 1 < n /\ n - (n - 1) < 32768  BY <2>3
    <3>2. IdAfter(L.role, n - 1) # IdAfter(L.role, n)  BY <2>3, <3>1, Ids
    <3> QED  BY <3>2 DEF LastId, NextId, n
  <2>5. L.tx.active => L.tx.message_id = NextId(L)  BY DEF Pair
  <2>6. ASSUME InFlight(L)
        PROVE  /\ Upto(L) \in Nat /\ L.tx.base \in Nat /\ L.tx.base < Upto(L)
    BY <2>6, EndsTypes, UptoBounds DEF InFlight, Numbers, KAL_MAX_SEGMENTS
  <2>7. CASE Sending(L, M, c, k, h)
    <3>1. Upto(L) \in Nat /\ h \in Nat /\ h < Upto(L) /\ InFlight(L)
      BY <2>6, <2>7 DEF Sending
    <3>2. c = Batched(L, h) /\ Head(c) = DataFrame(L, h) /\ k = << >>
      BY <2>7, <3>1, BatchedParts DEF Sending
    <3> DEFINE d == DataFrame(L, h)
    <3>3. d.type = "DATA" /\ d.message_id = L.tx.message_id /\ d.sequence = h
      BY DEF DataFrame, ZeroFrame
    <3> HIDE DEF d
    <3>4. d # gM
      <4> SUFFICES ASSUME d = gM PROVE FALSE  OBVIOUS
      <4>1. CASE h = 0  BY <2>1, <2>4, <2>5, <3>1, <3>3, <4>1 DEF Apart, InFlight
      <4>2. CASE h # 0
        <5>1. gM.sequence < h /\ gM.sequence = h  BY <2>1, <3>3, <4>2 DEF Apart
        <5> QED  BY <3>1, <5>1
      <4> QED  BY <4>1, <4>2
    <3> QED  BY <3>2, <3>4 DEF d
  <2>8. CASE Answered(L, M, c, k, h)
    <3>1. /\ InFlight(L) /\ L.tx.active /\ h = Upto(L) /\ c = << >>
          /\ L.tx.base \in Nat /\ h \in Nat /\ L.tx.base < h
      BY <2>6, <2>8 DEF Answered, InFlight
    <3>2. CASE k = <<PartialAck(L, h)>>
      <4> DEFINE d == PartialAck(L, h)
      <4>1. d.type = "ACK" /\ d.flag = FALSE /\ d.sequence = h  BY DEF PartialAck, ZeroFrame
      <4>2. Head(k) = d  BY <3>2
      <4> HIDE DEF d
      <4>3. d # gL
        <5> SUFFICES ASSUME d = gL PROVE FALSE  OBVIOUS
        <5>1. gL.sequence =< L.tx.base /\ gL.sequence = h  BY <2>1, <4>1 DEF Apart
        <5> QED  BY <3>1, <5>1
      <4> QED  BY <3>1, <4>2, <4>3
    <3>3. CASE k = <<FinalAck(L)>>
      <4> DEFINE d == FinalAck(L)
      <4>1. d.type = "ACK" /\ d.flag = TRUE /\ d.message_id = L.tx.message_id
        BY DEF FinalAck, ZeroFrame
      <4>2. Head(k) = d  BY <3>3
      <4> HIDE DEF d
      <4>3. d # gL  BY <2>1, <2>4, <2>5, <3>1, <4>1 DEF Apart
      <4> QED  BY <3>1, <4>2, <4>3
    <3> QED  BY <2>8, <3>2, <3>3 DEF Answered
  <2> QED  BY <2>1, <2>2, <2>7, <2>8 DEF Talking
<1> QED  BY <1>1, <1>2, <1>3 DEF Pair

\* Whatever the sender hears, it goes on.
LEMMA SenderHears ==
  ASSUME Fits, NEW L, NEW M, Ends(L, M), NEW gL, NEW gM,
         NEW c, NEW k, Pair(L, M, c, k, gL, gM),
         k # << >>, L.out_frames = << >>, NEW f, f = Head(k)
  PROVE  Tail(k) = << >> /\ HeardWell(L, M, handle_frame(L, f), f, gM)
<1>1. CASE Waiting(L, M, c, k, gM)  BY <1>1 DEF Waiting
<1>2. CASE Greeting(L, M, c, k, gM)  BY <1>2, GreetedPair
<1>3. CASE Open(L, M, c, k, gL, gM)
  <2>1. PICK h \in 0 .. MaxSegments : Talking(L, M, c, k, h) /\ Apart(L, gL, gM, h)
    BY <1>3 DEF Open
  <2>2. Answered(L, M, c, k, h)  BY <2>1 DEF Talking, Idle, Sending
  <2>3. \A x : Head(<<x>>) = x /\ Tail(<<x>>) = << >>  OBVIOUS
  <2>4. CASE h < L.tx.total
    <3>1. f = PartialAck(L, h) /\ Tail(k) = << >>  BY <2>2, <2>3, <2>4 DEF Answered
    <3> QED  BY <1>3, <2>1, <2>2, <2>4, <3>1, NextBatchPair
  <2>5. CASE ~(h < L.tx.total)
    <3>1. f = FinalAck(L) /\ Tail(k) = << >>  BY <2>2, <2>3, <2>5 DEF Answered
    <3> QED  BY <1>3, <2>1, <2>2, <2>5, <3>1, ConfirmedPair
  <2> QED  BY <2>4, <2>5
<1> QED  BY <1>1, <1>2, <1>3 DEF Pair

\* Whatever its silent peer hears, it goes on, and answers when nothing more is coming.
LEMMA SilentHears ==
  ASSUME Fits, NEW L, NEW M, Ends(L, M), NEW gL, NEW gM,
         NEW c, NEW k, Pair(L, M, c, k, gL, gM), c # << >>,
         M.out_frames = << >>, M.delivered = NoBody, Len(M.dup_cache) =< DupCacheEntries,
         NEW f, f = Head(c)
  PROVE  LET N == handle_frame(M, f) IN
         /\ Pair(L, N, Tail(c), N.out_frames, gL, f)
         /\ Len(N.out_frames) =< 1 /\ N.accepts = M.accepts
         /\ N.delivered # NoBody => N.out_frames # << >>
<1>1. CASE Waiting(L, M, c, k, gM)  BY <1>1 DEF Waiting
<1>2. CASE Greeting(L, M, c, k, gM) /\ gL.type = "NONE"
  <2> DEFINE N == handle_frame(M, f)
  <2>1. /\ Pair(L, N, Tail(c), N.out_frames, gL, f)
        /\ Len(N.out_frames) = 1 /\ N.accepts = M.accepts /\ N.delivered = NoBody
    BY <1>2, HelloPair
  <2> HIDE DEF N
  <2>2. Len(N.out_frames) =< 1  BY <2>1
  <2> QED  BY <2>1, <2>2 DEF N
<1>3. CASE Open(L, M, c, k, gL, gM)
  <2>1. PICK h \in 0 .. MaxSegments : Talking(L, M, c, k, h) /\ Apart(L, gL, gM, h)
    BY <1>3 DEF Open
  <2>2. Sending(L, M, c, k, h)  BY <2>1 DEF Talking, Idle, Answered
  <2> QED  BY <1>3, <2>1, <2>2, DataPair
<1> QED  BY <1>1, <1>2, <1>3 DEF Pair

\* A timeout for n frames is longer than the n frames and their answer.
LEMMA TimeoutCovers ==
  ASSUME Fits, NEW n \in Nat \ {0}
  PROVE  base_timeout(n) > Airtime * n + Airtime
<1> DEFINE t == Airtime * n + Airtime
<1>1. Airtime \in Nat /\ Airtime >= 2  BY TimesAssumption DEF Fits
<1>2. Airtime * n \in Nat /\ Airtime * n >= Airtime  BY <1>1
<1>3. base_timeout(n) = t + t \div 4  BY DEF base_timeout
<1>4. t \in Nat /\ t >= 4  BY <1>1, <1>2
<1> HIDE DEF t
<1>5. t + t \div 4 > t  BY <1>4
<1> QED  BY <1>3, <1>5 DEF t

----------------------------------------------------------------------------
(* The steps of the system while one end is silent and nothing disturbs the air. *)

\* N differs from L in its queue, its duplicate cache and what is staged at most.
Matches(L, N) ==
  /\ N.role = L.role /\ N.profile = L.profile /\ N.window = L.window /\ N.accepts = L.accepts
  /\ N.session_open = L.session_open /\ N.hello_pending = L.hello_pending
  /\ N.session_id = L.session_id /\ N.challenge = L.challenge
  /\ N.next_message_id = L.next_message_id /\ N.tx = L.tx
  /\ N.deadline_set = L.deadline_set /\ N.rx = L.rx /\ N.stats = L.stats

\* What was heard last may be forgotten.
Fainter(g, h) == h = g \/ h.type = "NONE"

\* A pair does not depend on what is queued and staged.
LEMMA PairAlike ==
  ASSUME NEW L, NEW M, NEW L2, NEW M2, NEW c, NEW k, NEW gL, NEW gM, NEW hL, NEW hM,
         Pair(L, M, c, k, gL, gM), Matches(L, L2), Matches(M, M2), L2.delivered = NoBody,
         Remembered(L2, M2), Fainter(gL, hL), Fainter(gM, hM)
  PROVE  Pair(L2, M2, c, k, hL, hM)
<1>1. /\ \A h : DataFrame(L2, h) = DataFrame(L, h) /\ PartialAck(L2, h) = PartialAck(L, h)
      /\ FinalAck(L2) = FinalAck(L) /\ Upto(L2) = Upto(L)
      /\ build_hello(L2, "HELLO") = build_hello(L, "HELLO") /\ Reply(L2, M2) = Reply(L, M)
      /\ Sent(L2) = Sent(L) /\ Log(M2) = Log(M) /\ NextId(L2) = NextId(L)
      /\ LastId(L2) = LastId(L)
  BY DEF Matches, DataFrame, PartialAck, FinalAck,
         Upto, build_hello, Reply, Sent, Log, NextId, LastId
<1>2. \A h : Batched(L2, h) = Batched(L, h)  BY <1>1 DEF Batched
<1>3. Waiting(L, M, c, k, gM) => Waiting(L2, M2, c, k, hM)
  BY <1>1 DEF Waiting, Unheard, Matches, Fainter
<1>4. Greeting(L, M, c, k, gM) => Greeting(L2, M2, c, k, hM)
  BY <1>1 DEF Greeting, Unheard, Joined, Matches, Fainter
<1>5. gL.type = "NONE" => hL.type = "NONE"  BY DEF Fainter
<1>6. Open(L, M, c, k, gL, gM) => Open(L2, M2, c, k, hL, hM)
  <2> SUFFICES ASSUME Open(L, M, c, k, gL, gM) PROVE Open(L2, M2, c, k, hL, hM)  OBVIOUS
  <2>1. PICK h \in 0 .. MaxSegments : Talking(L, M, c, k, h) /\ Apart(L, gL, gM, h)
    BY DEF Open
  <2>2. Holding(L, M, h) => Holding(L2, M2, h)  BY <1>1 DEF Holding, HasFirst, Matches
  <2>3. InFlight(L) => InFlight(L2)  BY <1>1 DEF InFlight, Matches
  <2>4. Idle(L, M, c, k) => Idle(L2, M2, c, k)  BY <1>1 DEF Idle, Matches
  <2>5. Sending(L, M, c, k, h) => Sending(L2, M2, c, k, h)
    BY <1>1, <1>2, <2>2, <2>3 DEF Sending, Matches
  <2>6. Answered(L, M, c, k, h) => Answered(L2, M2, c, k, h)
    BY <1>1, <2>2, <2>3 DEF Answered, Matches
  <2>7. Talking(L2, M2, c, k, h)  BY <2>1, <2>4, <2>5, <2>6 DEF Talking
  <2>8. Apart(L2, hL, hM, h)
    <3>1. hM.type = "DATA" => hM = gM  BY DEF Fainter
    <3>2. hL.type = "ACK" => hL = gL  BY DEF Fainter
    <3> QED  BY <1>1, <2>1, <3>1, <3>2 DEF Apart, Matches
  <2> QED  BY <2>7, <2>8 DEF Open, Joined, Matches
<1> QED  BY <1>1, <1>3, <1>4, <1>5, <1>6 DEF Pair, Matches

\* What is on its way from an end: the frame that sounds, and the queue.
LEMMA Ways ==
  ASSUME IInv, NEW e \in End, Len(air[e]) =< 1
  PROVE  /\ Way(e) = << >> <=> air[e] = << >> /\ link[e].out_frames = << >>
         /\ air[e] = << >> => Way(e) = link[e].out_frames
         /\ air[e] # << >> => /\ Head(Way(e)) = Head(air[e]) /\ Tail(air[e]) = << >>
                              /\ Tail(Way(e)) = link[e].out_frames
         /\ Len(link[e].out_frames) \in Nat
<1>1. link[e] \in EndState(Message, Message) /\ air[e] \in Seq(Frame(Message))  BY DEF IInv
<1>2. link[e].out_frames \in Seq(Frame(Message))  BY <1>1 DEF EndState
<1> DEFINE s == air[e]
           t == link[e].out_frames
<1>3. s \in Seq(Frame(Message)) /\ t \in Seq(Frame(Message)) /\ Len(s) =< 1 /\ Way(e) = s \o t
  BY <1>1, <1>2 DEF Way
<1> HIDE DEF s, t
<1>4. /\ Way(e) = << >> <=> s = << >> /\ t = << >>
      /\ s = << >> => Way(e) = t
      /\ s # << >> => Head(Way(e)) = Head(s) /\ Tail(s) = << >> /\ Tail(Way(e)) = t
  BY <1>3, Parts
<1>5. Len(t) \in Nat  BY <1>3
<1> QED  BY <1>4, <1>5 DEF s, t

\* Where the two ends stand.
Stage(s, r) ==
  /\ s \in End /\ r \in End /\ r # s /\ Peer(s) = r /\ Peer(r) = s /\ \A d \in End : d = s \/ d = r
  /\ Ends(link[s], link[r])
  /\ Pair(link[s], link[r], Way(s), Way(r), guard[s].frame, guard[r].frame)
  /\ Len(air[s]) =< 1 /\ Len(air[r]) =< 1
  /\ Way(s) = << >> \/ Way(r) = << >>
  /\ clock[s] \in ClockType /\ clock[r] \in ClockType
  /\ sounding[s] \in 0 .. Airtime /\ sounding[r] \in 0 .. Airtime

\* In step, both ends are where the steps need them, and no deadline has passed.
LEMMA Staged ==
  ASSUME IInv, TimersOK, NEW s \in End, Outbox[Peer(s)] = << >>, Lockstep(s)
  PROVE  /\ Stage(s, Peer(s))
         /\ ~Sendable(Peer(s))
         /\ \A e \in End : ~DeadlinePassed(e)
<1> DEFINE r == Peer(s)
<1>1. s \in End /\ r \in End /\ r # s /\ Peer(r) = s /\ \A d \in End : d = s \/ d = r
  BY PeerType
<1>2. Ends(link[s], link[r])  BY <1>1 DEF Ends, IInv, Good
<1>3. /\ Pair(link[s], link[r], Way(s), Way(r), guard[s].frame, guard[r].frame)
      /\ Len(air[s]) =< 1 /\ Len(air[r]) =< 1 /\ InTime(s)
  BY <1>1 DEF Lockstep
<1>4. (Way(s) = << >> \/ Way(r) = << >>) /\ ~link[r].deadline_set
  BY <1>2, <1>3, OneWay
<1>5. /\ clock[s] \in ClockType /\ clock[r] \in ClockType
      /\ sounding[s] \in 0 .. Airtime /\ sounding[r] \in 0 .. Airtime
  BY <1>1, TimersParts
<1>6. Stage(s, r)  BY <1>1, <1>2, <1>3, <1>4, <1>5 DEF Stage
<1>7. ~Sendable(r)
  <2>1. link[r].submitted \in Nat /\ Len(<< >>) = 0  BY <1>1, SubmittedType
  <2> QED  BY <2>1 DEF Sendable
<1>8. ~DeadlinePassed(s)
  <2> SUFFICES ASSUME link[s].deadline_set PROVE clock[s].left # 0  BY DEF DeadlinePassed
  <2> DEFINE a == Len(link[s].out_frames)
             b == Len(link[r].out_frames)
  <2>1. a \in Nat /\ b \in Nat  BY <1>1, <1>3, Ways
  <2>2. Airtime \in Nat /\ sounding[s] \in Nat /\ sounding[r] \in Nat
    BY <1>5, TimesAssumption
  <2>3. clock[s].left > ToGo(s) + (IF Way(s) # << >> THEN Airtime ELSE ToGo(r))
    BY <1>3 DEF InTime
  <2> HIDE DEF a, b
  <2>4. Airtime * a \in Nat /\ Airtime * b \in Nat  BY <2>1, <2>2
  <2>5. ToGo(s) \in Nat /\ ToGo(r) \in Nat
    <3>1. /\ ToGo(s) = Airtime * a + (IF air[s] = << >> THEN 0 ELSE sounding[s])
          /\ ToGo(r) = Airtime * b + (IF air[r] = << >> THEN 0 ELSE sounding[r])
      BY DEF ToGo, a, b
    <3> QED  BY <2>2, <2>4, <3>1
  <2> QED  BY <2>2, <2>3, <2>5
<1>9. ~DeadlinePassed(r)  BY <1>4 DEF DeadlinePassed
<1> QED  BY <1>1, <1>6, <1>7, <1>8, <1>9

\* With nothing on the air what is on its way is the queue.
LEMMA QueuedWay ==
  ASSUME IInv', NEW e \in End, air'[e] = << >>
  PROVE  Way(e)' = link'[e].out_frames /\ Len(link'[e].out_frames) \in Nat
         /\ ToGo(e)' = Airtime * Len(link'[e].out_frames)
<1>1. link'[e] \in EndState(Message, Message)  BY DEF IInv
<1>2. link'[e].out_frames \in Seq(Frame(Message))  BY <1>1 DEF EndState
<1> DEFINE t == link'[e].out_frames
<1>3. t \in Seq(Frame(Message)) /\ Way(e)' = << >> \o t
      /\ ToGo(e)' = Airtime * Len(t) + 0
  BY <1>2 DEF Way, ToGo
<1> HIDE DEF t
<1>4. << >> \o t = t /\ Len(t) \in Nat  BY <1>3
<1>5. Airtime * Len(t) \in Nat  BY <1>4, TimesAssumption
<1> QED  BY <1>3, <1>4, <1>5 DEF t

\* A deadline set for a batch leaves time for it and its answer.
LEMMA ArmedInTime ==
  ASSUME Fits, IInv', NEW s \in End, air'[s] = << >>,
         link'[s].deadline_set =>
           /\ link'[s].out_frames # << >>
           /\ clock'[s].left = base_timeout(Len(link'[s].out_frames))
  PROVE  InTime(s)'
<1> DEFINE t == link'[s].out_frames
<1>1. Way(s)' = t /\ Len(t) \in Nat /\ ToGo(s)' = Airtime * Len(t)  BY QueuedWay
<1>2. link'[s] \in EndState(Message, Message)  BY DEF IInv
<1>3. t \in Seq(Frame(Message))  BY <1>2 DEF EndState
<1>4. SUFFICES ASSUME link'[s].deadline_set
               PROVE  clock'[s].left >
                        ToGo(s)' + (IF Way(s)' # << >> THEN Airtime ELSE ToGo(Peer(s))')
  BY DEF InTime
<1>5. t # << >> /\ clock'[s].left = base_timeout(Len(t))  BY <1>4
<1> HIDE DEF t
<1>6. Len(t) \in Nat \ {0}  BY <1>3, <1>5, EmptySeq
<1>7. base_timeout(Len(t)) > Airtime * Len(t) + Airtime  BY <1>6, TimeoutCovers
<1> QED  BY <1>1, <1>5, <1>7

\* Only the sender sends, a whole batch at a time.
LEMMA SendLockstep ==
  ASSUME Fits, IInv, TimersOK, IInv', NEW s \in End, Outbox[Peer(s)] = << >>, Lockstep(s),
         NEW e \in End, TimedSend(e)
  PROVE  Lockstep(s)'
<1> DEFINE r == Peer(s)
           L == link[s]
           m == NextMessage(s)
<1>1. Stage(s, r) /\ ~Sendable(r)  BY Staged
<1>2. r \in End /\ r # s /\ \A d \in End : d = s \/ d = r  BY <1>1 DEF Stage
<1>3. e = s /\ Sendable(s)  BY <1>1, <1>2 DEF TimedSend, Send, SendOpening
<1>4. PICK draw : draw.ok /\ Becomes(s, kal_send(L, m, draw))
  <2>1. CASE Send(s)
    <3> DEFINE z == [ok |-> TRUE, id |-> 0]
    <3>1. z.ok /\ Becomes(s, kal_send(L, m, z))  BY <2>1 DEF Send
    <3> QED  BY <3>1
  <2>2. CASE SendOpening(s)
    <3>1. PICK id : Becomes(s, kal_send(L, m, [ok |-> TRUE, id |-> id]))
      BY <2>2 DEF SendOpening
    <3> DEFINE z == [ok |-> TRUE, id |-> id]
    <3>2. z.ok /\ Becomes(s, kal_send(L, m, z))  BY <3>1
    <3> QED  BY <3>2
  <2> QED  BY <1>3, <2>1, <2>2 DEF TimedSend
<1> DEFINE N == kal_send(L, m, draw)
<1>5. link'[s] = N /\ link'[r] = link[r]  BY <1>2, <1>4, BecomesFacts
<1>6. air' = air  BY <1>3 DEF TimedSend, Send, SendOpening
<1>7. ~L.tx.active /\ m \in Message /\ m \in link[r].accepts
  <2>1. L.submitted \in Nat /\ L.submitted < Len(Outbox[s]) /\ ~L.tx.active
    BY <1>3, SubmittedType DEF Sendable
  <2>2. Outbox[s] \in Seq(Message)  BY DataAssumption
  <2> DEFINE j == L.submitted + 1
  <2>3. j \in 1 .. Len(Outbox[s])  BY <2>1, <2>2
  <2>4. m = Outbox[s][j]  BY DEF NextMessage
  <2>5. Outbox[s][j] \in Message  BY <2>2, <2>3
  <2>6. Outbox[s][j] \in Accepts[Peer(s)]  BY <2>3 DEF Fits
  <2> QED  BY <2>1, <2>4, <2>5, <2>6 DEF Lockstep
<1>8. Pair(L, link[r], Way(s), Way(r), guard[s].frame, guard[r].frame) /\ Ends(L, link[r])
      /\ clock[s] \in ClockType
  BY <1>1 DEF Stage
<1>9. Way(s) = << >>
  <2> DEFINE M == link[r]
             c == Way(s)
             k == Way(r)
             gM == guard[r].frame
             gL == guard[s].frame
  <2>1. Pair(L, M, c, k, gL, gM) /\ ~L.tx.active  BY <1>7, <1>8
  <2> HIDE DEF L, M, c, k, gL, gM
  <2>2. c = << >>
    BY <2>1 DEF Pair, Waiting, Greeting, Open, Talking, Idle, Sending, Answered, InFlight
  <2> QED  BY <2>2 DEF c
<1>10. air[s] = << >> /\ L.out_frames = << >>
  <2>1. Len(air[s]) =< 1  BY <1>1 DEF Stage
  <2> QED  BY <1>9, <2>1, Ways
<1>11. /\ Pair(N, link[r], N.out_frames, << >>, guard[s].frame, guard[r].frame)
       /\ Way(r) = << >>
       /\ N.deadline_set =>
            /\ N.out_frames # << >>
            /\ \A C \in ClockType : AfterSend(C, L, N).left = base_timeout(Len(N.out_frames))
  <2> HIDE DEF L, m, r
  <2> QED  BY <1>4, <1>7, <1>8, <1>10, SendPair
<1> HIDE DEF N
<1>12. /\ clock'[s] = (IF N.deadline_set THEN AfterSend(clock[s], L, N)
                       ELSE [AfterSend(clock[s], L, N) EXCEPT !.left = 0])
       /\ UNCHANGED <<sounding, torn, guard, channel>>
  <2>1. clock \in [End -> ClockType]  BY TimersParts
  <2>2. Clocked(s, AfterSend(clock[s], L, N)) /\ UNCHANGED <<sounding, torn, guard, channel>>
    BY <1>3, <1>5 DEF TimedSend
  <2> QED  BY <1>5, <2>1, <2>2 DEF Clocked
<1>13. InTime(s)'  BY <1>5, <1>6, <1>8, <1>10, <1>11, <1>12, ArmedInTime
<1>14. Way(s)' = N.out_frames /\ Way(r)' = << >>
  <2>1. Way(s)' = N.out_frames  BY <1>5, <1>6, <1>10, QueuedWay
  <2>2. Way(r)' = Way(r)  BY <1>5, <1>6 DEF Way
  <2> QED  BY <1>11, <2>1, <2>2
<1>15. link[r].delivered = NoBody  BY <1>11 DEF Lockstep
<1> QED  BY <1>5, <1>6, <1>11, <1>12, <1>13, <1>14, <1>15 DEF Lockstep

\* Time leaves the clock ahead of what is on its way when nothing that is not on the air
\* or in a queue has changed.
LEMMA InTimeKept ==
  ASSUME NEW s \in End, InTime(s), link'[s].deadline_set = link[s].deadline_set,
         link[s].deadline_set => clock'[s].left = clock[s].left,
         Way(s)' = Way(s), ToGo(s)' = ToGo(s), ToGo(Peer(s))' = ToGo(Peer(s))
  PROVE  InTime(s)'
  BY DEF InTime

\* The host of the silent end collects.
LEMMA CollectLockstep ==
  ASSUME Fits, IInv, TimersOK, IInv', NEW s \in End, Outbox[Peer(s)] = << >>, Lockstep(s),
         NEW e \in End, TimedCollect(e)
  PROVE  Lockstep(s)'
<1> DEFINE r == Peer(s)
<1>1. Stage(s, r)  BY Staged
<1>2. r \in End /\ r # s /\ \A d \in End : d = s \/ d = r  BY <1>1 DEF Stage
<1>3. e = r
  <2>1. link[s].delivered = NoBody  BY <1>1 DEF Stage, Pair
  <2> QED  BY <1>2, <2>1 DEF TimedCollect, Collect
<1> DEFINE N == [link[r] EXCEPT !.delivered = NoBody]
<1>4. link'[r] = N /\ link'[s] = link[s]
  <2>1. Becomes(r, N)  BY <1>3 DEF TimedCollect, Collect
  <2> QED  BY <1>2, <2>1, BecomesFacts
<1>5. /\ Matches(link[r], N) /\ N.out_frames = link[r].out_frames
      /\ N.dup_cache = link[r].dup_cache /\ N.delivered = NoBody
  <2>1. link[r] \in EndState(Message, Message)  BY <1>2 DEF IInv
  <2>2. Shaped(link[r])  BY <2>1, Shapes
  <2> QED  BY <2>2 DEF Matches, Shaped, Fields
<1> HIDE DEF N
<1>6. UNCHANGED <<air, clock, sounding, torn, guard, channel>>
  BY DEF TimedCollect, Collect, timers
<1>7. /\ Way(s)' = Way(s) /\ Way(r)' = Way(r) /\ ToGo(s)' = ToGo(s) /\ ToGo(r)' = ToGo(r)
  BY <1>4, <1>5, <1>6 DEF Way, ToGo
<1>8. InTime(s)'
  <2>1. InTime(s)  BY DEF Lockstep
  <2> QED  BY <1>4, <1>6, <1>7, <2>1, InTimeKept
<1>9. Pair(link[s], N, Way(s), Way(r), guard[s].frame, guard[r].frame)
  <2>1. Pair(link[s], link[r], Way(s), Way(r), guard[s].frame, guard[r].frame)
    BY <1>1 DEF Stage
  <2>2. Remembered(link[s], N) /\ link[s].delivered = NoBody
    BY <1>5, <2>1 DEF Pair, Remembered, Matches, Log
  <2>3. Matches(link[s], link[s])  BY DEF Matches
  <2>4. \A g : Fainter(g, g)  BY DEF Fainter
  <2> QED  BY <1>5, <2>1, <2>2, <2>3, <2>4, PairAlike
<1> QED  BY <1>4, <1>5, <1>6, <1>7, <1>8, <1>9 DEF Lockstep, Matches

\* An entry of a cache reaches the end of its life.
LEMMA AgeLockstep ==
  ASSUME Fits, IInv, TimersOK, IInv', NEW s \in End, Outbox[Peer(s)] = << >>, Lockstep(s),
         NEW e \in End, TimedAge(e)
  PROVE  Lockstep(s)'
<1> DEFINE r == Peer(s)
           A(d) == IF d = e THEN [link[d] EXCEPT !.dup_cache = Tail(@)] ELSE link[d]
<1>1. Stage(s, r)  BY Staged
<1>2. r \in End /\ r # s /\ \A d \in End : d = s \/ d = r  BY <1>1 DEF Stage
<1>3. \A d \in End : link'[d] = A(d)
  <2>1. Becomes(e, [link[e] EXCEPT !.dup_cache = Tail(@)])  BY DEF TimedAge, Age
  <2> QED  BY <2>1, BecomesFacts
<1>4. \A d \in End : /\ Matches(link[d], A(d)) /\ A(d).out_frames = link[d].out_frames
                     /\ A(d).delivered = link[d].delivered
                     /\ A(d).dup_cache = (IF d = e THEN Tail(link[d].dup_cache)
                                          ELSE link[d].dup_cache)
  <2> SUFFICES ASSUME NEW d \in End
               PROVE  /\ Matches(link[d], A(d)) /\ A(d).out_frames = link[d].out_frames
                      /\ A(d).delivered = link[d].delivered
                      /\ A(d).dup_cache = (IF d = e THEN Tail(link[d].dup_cache)
                                           ELSE link[d].dup_cache)
    OBVIOUS
  <2>1. link[d] \in EndState(Message, Message)  BY DEF IInv
  <2>2. Shaped(link[d])  BY <2>1, Shapes
  <2> QED  BY <2>2 DEF Matches, Shaped, Fields
<1> HIDE DEF A
<1>5. UNCHANGED <<air, clock, sounding, torn, guard, channel>>
  BY DEF TimedAge, Age
<1>6. /\ Way(s)' = Way(s) /\ Way(r)' = Way(r) /\ ToGo(s)' = ToGo(s) /\ ToGo(r)' = ToGo(r)
  BY <1>2, <1>3, <1>4, <1>5 DEF Way, ToGo
<1>7. InTime(s)'
  <2>1. InTime(s)  BY DEF Lockstep
  <2>2. link'[s].deadline_set = link[s].deadline_set  BY <1>3, <1>4 DEF Matches
  <2> QED  BY <1>5, <1>6, <2>1, <2>2, InTimeKept
<1>8. Pair(A(s), A(r), Way(s), Way(r), guard[s].frame, guard[r].frame)
  <2>1. /\ Pair(link[s], link[r], Way(s), Way(r), guard[s].frame, guard[r].frame)
        /\ Ends(link[s], link[r])
    BY <1>1 DEF Stage
  <2>2. Remembered(link[s], link[r]) /\ link[s].delivered = NoBody  BY <2>1 DEF Pair
  <2>3. /\ link[r].dup_cache \in Seq(DupEntry) /\ Len(Log(link[r])) \in Nat
    BY <2>1, EndsTypes
  <2>4. Log(A(r)) = Log(link[r]) /\ A(s).role = link[s].role  BY <1>2, <1>4 DEF Matches, Log
  <2>5. Remembered(link[s], A(r))
    <3>1. CASE e = r
      <4>1. link[r].dup_cache # << >>  BY <3>1 DEF TimedAge, Age
      <4>2. A(r).dup_cache = Tail(link[r].dup_cache)  BY <1>2, <1>4, <3>1
      <4> QED  BY <2>2, <2>3, <2>4, <4>1, <4>2, MemoryFades
    <3>2. CASE e # r
      <4>1. A(r).dup_cache = link[r].dup_cache  BY <1>2, <1>4, <3>2
      <4> QED  BY <2>2, <2>4, <4>1 DEF Remembered
    <3> QED  BY <3>1, <3>2
  <2>6. Remembered(A(s), A(r))  BY <2>4, <2>5 DEF Remembered
  <2>7. A(s).delivered = NoBody /\ Matches(link[s], A(s)) /\ Matches(link[r], A(r))
    BY <1>2, <1>4, <2>2
  <2>8. \A g : Fainter(g, g)  BY DEF Fainter
  <2> QED  BY <2>1, <2>6, <2>7, <2>8, PairAlike
<1>9. link'[s] = A(s) /\ link'[r] = A(r) /\ A(r).accepts = link[r].accepts
      /\ A(r).delivered = link[r].delivered
  BY <1>2, <1>3, <1>4 DEF Matches
<1> QED  BY <1>5, <1>6, <1>7, <1>8, <1>9 DEF Lockstep

\* A frame moves from the queue to the air.
LEMMA PullLockstep ==
  ASSUME Fits, IInv, TimersOK, IInv', NEW s \in End, Outbox[Peer(s)] = << >>, Lockstep(s),
         NEW e \in End, TimedPull(e)
  PROVE  Lockstep(s)'
<1> DEFINE r == Peer(s)
           o == link[e].out_frames
           N == [link[e] EXCEPT !.out_frames = Tail(@)]
<1>1. Stage(s, r)  BY Staged
<1>2. /\ r \in End /\ r # s /\ \A d \in End : d = s \/ d = r
      /\ Peer(s) = r /\ Peer(r) = s
  BY <1>1 DEF Stage
<1>3. /\ o # << >> /\ air[e] = << >>
      /\ Becomes(e, N) /\ air' = [air EXCEPT ![e] = Append(@, Head(o))]
      /\ sounding' = [sounding EXCEPT ![e] = Airtime]
      /\ torn' = [d \in End |-> d # e /\ (torn[d] \/ Receiving(e))]
      /\ UNCHANGED <<clock, guard, channel>>
  BY DEF TimedPull, CanPull, Pull
<1>4. link'[e] = N /\ \A d \in End : d # e => link'[d] = link[d]  BY <1>3, BecomesFacts
<1>5. link[e] \in EndState(Message, Message)  BY DEF IInv
<1>6. o \in Seq(Frame(Message))  BY <1>5 DEF EndState
<1>7. /\ Matches(link[e], N) /\ N.out_frames = Tail(o)
      /\ N.dup_cache = link[e].dup_cache /\ N.delivered = link[e].delivered
  <2>1. Shaped(link[e])  BY <1>5, Shapes
  <2> QED  BY <2>1 DEF Matches, Shaped, Fields
<1> HIDE DEF N
<1>8. /\ air'[e] = <<Head(o)>> /\ sounding'[e] = Airtime
      /\ \A d \in End : d # e => air'[d] = air[d] /\ sounding'[d] = sounding[d]
  <2>1. air \in [End -> Seq(Frame(Message))] /\ sounding \in [End -> 0 .. Airtime]
    BY TimersParts DEF IInv
  <2>2. air'[e] = Append(<< >>, Head(o))  BY <1>3, <2>1
  <2>3. Append(<< >>, Head(o)) = <<Head(o)>>  OBVIOUS
  <2> QED  BY <1>3, <2>1, <2>2, <2>3
<1>9. /\ Way(e) = o /\ Way(e)' = o /\ ToGo(e)' = ToGo(e) /\ Len(air'[e]) =< 1
  <2>1. Len(air[e]) =< 1  BY <1>1, <1>2 DEF Stage
  <2>2. Way(e) = o /\ Len(o) \in Nat  BY <1>3, <2>1, Ways
  <2>3. Way(e)' = <<Head(o)>> \o Tail(o)  BY <1>4, <1>7, <1>8 DEF Way
  <2>4. /\ Head(o) \in Frame(Message) /\ Tail(o) \in Seq(Frame(Message))
        /\ Len(Tail(o)) = Len(o) - 1 /\ \A i \in 1 .. Len(Tail(o)) : Tail(o)[i] = o[i + 1]
    BY <1>3, <1>6, HeadTailProperties
  <2>5. <<Head(o)>> \o Tail(o) = o
    <3> DEFINE x == Head(o)
               z == Tail(o)
               n == Len(o)
    <3>1. x \in Frame(Message) /\ z \in Seq(Frame(Message)) /\ Len(z) = n - 1
          /\ n \in Nat /\ x = o[1] /\ \A i \in 1 .. Len(z) : z[i] = o[i + 1]
      BY <2>2, <2>4
    <3> HIDE DEF x, z, n
    <3>2. <<x>> \o z \in Seq(Frame(Message)) /\ Len(<<x>> \o z) = n  BY <3>1
    <3>3. ASSUME NEW i \in 1 .. n PROVE (<<x>> \o z)[i] = o[i]
      <4>1. CASE i = 1  BY <3>1, <4>1
      <4>2. CASE i # 1
        <5>1. i - 1 \in 1 .. Len(z) /\ (i - 1) + 1 = i  BY <3>1, <4>2
        <5>2. (<<x>> \o z)[i] = z[i - 1]  BY <3>1, <4>2
        <5> QED  BY <3>1, <5>1, <5>2
      <4> QED  BY <4>1, <4>2
    <3>4. <<x>> \o z = o
      <4> HIDE DEF o
      <4>1. o \in Seq(Frame(Message)) /\ Len(o) = n  BY <1>6 DEF n
      <4> QED  BY <3>2, <3>3, <4>1, SeqEqual
    <3> QED  BY <3>4 DEF x, z
  <2>6. ToGo(e)' = ToGo(e)
    <3> DEFINE n == Len(o)
    <3>1. <<Head(o)>> # << >>  OBVIOUS
    <3>2. ToGo(e) = Airtime * n + 0 /\ ToGo(e)' = Airtime * (n - 1) + Airtime
      BY <1>3, <1>4, <1>7, <1>8, <2>4, <3>1 DEF ToGo
    <3> HIDE DEF n
    <3>3. Airtime * n + 0 = Airtime * (n - 1) + Airtime  BY <2>2, TimesAssumption DEF n
    <3> QED  BY <3>2, <3>3
  <2>7. Len(<<Head(o)>>) = 1  OBVIOUS
  <2> QED  BY <1>8, <2>2, <2>3, <2>5, <2>6, <2>7
<1>10. \A d \in End : Way(d)' = Way(d) /\ ToGo(d)' = ToGo(d)
  <2>1. \A d \in End : d # e => Way(d)' = Way(d) /\ ToGo(d)' = ToGo(d)
    BY <1>4, <1>8 DEF Way, ToGo
  <2> QED  BY <1>9, <2>1
<1>11. Way(Peer(e)) = << >> /\ Peer(e) \in End /\ air[Peer(e)] = << >>
  <2>1. Way(s) = << >> \/ Way(r) = << >>  BY <1>1 DEF Stage
  <2>2. Way(Peer(e)) = << >> /\ Peer(e) \in End  BY <1>2, <1>3, <1>9, <2>1
  <2>3. Len(air[Peer(e)]) =< 1  BY <1>1, <1>2 DEF Stage
  <2> QED  BY <2>2, <2>3, Ways
<1>12. \A d \in End : ~torn'[d] /\ Len(air'[d]) =< 1
  <2>1. ~Receiving(e)  BY <1>11 DEF Receiving
  <2>2. \A d \in End : ~torn[d] /\ Len(air[d]) =< 1  BY DEF Lockstep
  <2> QED  BY <1>3, <1>8, <1>9, <2>1, <2>2
<1>13. \A d \in End : /\ Matches(link[d], link'[d]) /\ link'[d].delivered = link[d].delivered
                      /\ link'[d].dup_cache = link[d].dup_cache
  <2>1. \A d : Matches(link[d], link[d])  BY DEF Matches
  <2> QED  BY <1>4, <1>7, <2>1
<1>14. InTime(s)'
  <2>1. InTime(s)  BY DEF Lockstep
  <2>2. link'[s].deadline_set = link[s].deadline_set  BY <1>13 DEF Matches
  <2> QED  BY <1>2, <1>3, <1>10, <2>1, <2>2, InTimeKept
<1>15. Pair(link'[s], link'[r], Way(s), Way(r), guard[s].frame, guard[r].frame)
  <2>1. Pair(link[s], link[r], Way(s), Way(r), guard[s].frame, guard[r].frame)
    BY <1>1 DEF Stage
  <2>2. Matches(link[s], link'[s]) /\ Matches(link[r], link'[r])  BY <1>2, <1>13
  <2>3. Remembered(link'[s], link'[r]) /\ link'[s].delivered = NoBody
    BY <1>2, <1>13, <2>1, <2>2 DEF Pair, Remembered, Matches, Log
  <2>4. \A g : Fainter(g, g)  BY DEF Fainter
  <2> QED  BY <2>1, <2>2, <2>3, <2>4, PairAlike
<1>16. link'[r].delivered # NoBody =>
         Way(r)' # << >> /\ (air'[r] # << >> => sounding'[r] = Airtime)
  <2>1. link[r].delivered # NoBody => Way(r) # << >> /\ (air[r] # << >> => sounding[r] = Airtime)
    BY DEF Lockstep
  <2>2. CASE e = r  BY <1>2, <1>8, <1>10, <1>13, <2>1, <2>2
  <2>3. CASE e # r  BY <1>2, <1>8, <1>10, <1>11, <1>13, <2>1, <2>3
  <2> QED  BY <2>2, <2>3
<1>17. link'[r].accepts = Accepts[r] /\ ~channel'.noisy
  <2>1. link[r].accepts = Accepts[r] /\ ~channel.noisy  BY DEF Lockstep
  <2>2. link'[r].accepts = link[r].accepts  BY <1>2, <1>13 DEF Matches
  <2>3. channel' = channel  BY <1>3
  <2> QED  BY <2>1, <2>2, <2>3
<1>18. Pair(link[s], link[r], Way(s), Way(r), guard[s].frame, guard[r].frame)'
  <2>1. guard' = guard /\ Way(s)' = Way(s) /\ Way(r)' = Way(r)  BY <1>2, <1>3, <1>10
  <2> QED  BY <1>15, <2>1
<1>19. link'[r].delivered # NoBody =>
         Way(r)' # << >> /\ (air'[r] # << >> => sounding'[r] = Airtime)
  BY <1>2, <1>10, <1>16
<1> HIDE DEF r, o
<1> QED  BY <1>12, <1>14, <1>17, <1>18, <1>19 DEF Lockstep, r

\* What both hearings do to the air, the guard and the clocks.
LEMMA HearFacts ==
  ASSUME IInv, TimersOK, NEW e \in End, NEW d \in End, d = Peer(e), d # e, Len(air[d]) =< 1,
         TimedHear(e)
  PROVE  LET N == handle_frame(link[e], Head(Way(d))) IN
         /\ air[d] # << >> /\ sounding[d] = 0 /\ Way(d) # << >>
         /\ link'[e] = N /\ \A x \in End : x # e => link'[x] = link[x]
         /\ air'[d] = << >> /\ \A x \in End : x # d => air'[x] = air[x]
         /\ guard'[e].frame = Head(Way(d)) /\ \A x \in End : x # e => guard'[x] = guard[x]
         /\ N.deadline_set => clock'[e] = AfterFrame(clock[e], Head(Way(d)), link[e], N)
         /\ \A x \in End : x # e => clock'[x] = clock[x]
         /\ UNCHANGED <<sounding, torn, channel>>
<1> DEFINE f == Head(air[d])
           N == handle_frame(link[e], f)
<1>1. /\ air[d] # << >> /\ sounding[d] = 0
      /\ Becomes(e, N) /\ air' = [air EXCEPT ![d] = Tail(@)]
      /\ Clocked(e, AfterFrame(clock[e], f, link[e], link'[e]))
      /\ guard' = [guard EXCEPT ![e] = [frame |-> f, since |-> 0]]
      /\ UNCHANGED <<sounding, torn, channel>>
  BY DEF TimedHear, Hear, Audible, Sounded
<1>2. Head(Way(d)) = f /\ Tail(air[d]) = << >> /\ Way(d) # << >>  BY <1>1, Ways
<1>3. link'[e] = N /\ \A x \in End : x # e => link'[x] = link[x]  BY <1>1, BecomesFacts
<1>4. air \in [End -> Seq(Frame(Message))]  BY DEF IInv
<1>5. air'[d] = << >> /\ \A x \in End : x # d => air'[x] = air[x]  BY <1>1, <1>2, <1>4
<1>6. guard \in [End -> [frame : AnyFrame, since : 0 .. GuardTime]]
      /\ clock \in [End -> ClockType]
  BY TimersParts
<1> HIDE DEF f, N
<1>7. guard'[e].frame = f /\ \A x \in End : x # e => guard'[x] = guard[x]  BY <1>1, <1>6
<1>8. /\ N.deadline_set => clock'[e] = AfterFrame(clock[e], f, link[e], N)
      /\ \A x \in End : x # e => clock'[x] = clock[x]
  BY <1>1, <1>3, <1>6 DEF Clocked
<1> QED  BY <1>1, <1>2, <1>3, <1>5, <1>7, <1>8 DEF N

\* A frame is heard.
LEMMA HearLockstep ==
  ASSUME Fits, IInv, TimersOK, IInv', NEW s \in End, Outbox[Peer(s)] = << >>, Lockstep(s),
         NEW e \in End, TimedHear(e)
  PROVE  Lockstep(s)'
<1> DEFINE r == Peer(s)
           L == link[s]
           M == link[r]
           c == Way(s)
           k == Way(r)
           gL == guard[s].frame
           gM == guard[r].frame
<1>1. Stage(s, r)  BY Staged
<1>2. /\ r \in End /\ r # s /\ \A d \in End : d = s \/ d = r
      /\ Peer(s) = r /\ Peer(r) = s
      /\ Ends(L, M) /\ Pair(L, M, c, k, gL, gM) /\ (c = << >> \/ k = << >>)
      /\ Len(air[s]) =< 1 /\ Len(air[r]) =< 1
      /\ clock[s] \in ClockType
  BY <1>1 DEF Stage
<1>3. /\ InTime(s) /\ M.accepts = Accepts[r] /\ ~channel.noisy
      /\ \A d \in End : ~torn[d] /\ Len(air[d]) =< 1
      /\ M.delivered # NoBody => k # << >> /\ (air[r] # << >> => sounding[r] = Airtime)
  BY DEF Lockstep
<1>4. CASE e = r
  <2> DEFINE f == Head(c)
             N == handle_frame(M, f)
  <2>1. /\ air[s] # << >> /\ sounding[s] = 0 /\ c # << >>
        /\ link'[r] = N /\ link'[s] = L
        /\ air'[s] = << >> /\ air'[r] = air[r]
        /\ guard'[r].frame = f /\ guard'[s] = guard[s] /\ clock'[s] = clock[s]
        /\ UNCHANGED <<sounding, torn, channel>>
    BY <1>2, <1>4, HearFacts
  <2>2. k = << >> /\ M.out_frames = << >> /\ air[r] = << >> /\ M.delivered = NoBody
    BY <1>2, <1>3, <2>1, Ways
  <2>3. Len(M.dup_cache) =< DupCacheEntries  BY <1>2, EndFacts
  <2>4. /\ Pair(L, N, Tail(c), N.out_frames, gL, f)
        /\ Len(N.out_frames) =< 1 /\ N.accepts = M.accepts
        /\ N.delivered # NoBody => N.out_frames # << >>
    <3> HIDE DEF L, M, c, k, gL, gM
    <3> QED  BY <1>2, <2>1, <2>2, <2>3, SilentHears
  <2> HIDE DEF N
  <2>5. Tail(c) = L.out_frames  BY <1>2, <2>1, Ways
  <2>6. /\ Way(s)' = L.out_frames /\ ToGo(s)' = Airtime * Len(L.out_frames)
        /\ Len(L.out_frames) \in Nat
    BY <2>1, QueuedWay
  <2>7. /\ Way(r)' = N.out_frames /\ ToGo(r)' = Airtime * Len(N.out_frames)
        /\ Len(N.out_frames) \in Nat /\ air'[r] = << >>
    BY <1>2, <2>1, <2>2, QueuedWay
  <2>8. InTime(s)'
    <3> DEFINE a == Len(L.out_frames)
               b == Len(N.out_frames)
    <3>1. SUFFICES ASSUME link'[s].deadline_set
                   PROVE  clock'[s].left
                            > ToGo(s)' + (IF Way(s)' # << >> THEN Airtime ELSE ToGo(r)')
      BY DEF InTime
    <3>2. clock[s].left > ToGo(s) + Airtime
      BY <1>3, <2>1, <3>1 DEF InTime
    <3>3. ToGo(s) = Airtime * a + 0  BY <2>1 DEF ToGo
    <3>4. a \in Nat /\ b \in Nat /\ b =< 1 /\ Airtime \in Nat /\ clock[s].left \in Nat
      BY <1>2, <2>4, <2>6, <2>7, TimesAssumption DEF ClockType
    <3>5. ToGo(s)' = Airtime * a /\ ToGo(r)' = Airtime * b  BY <2>6, <2>7
    <3> HIDE DEF a, b
    <3>6. Airtime * a \in Nat /\ Airtime * b \in Nat /\ Airtime * b =< Airtime
      <4>1. b = 0 \/ b = 1  BY <3>4
      <4> QED  BY <3>4, <4>1
    <3> QED  BY <2>1, <3>2, <3>3, <3>4, <3>5, <3>6
  <2>9. Pair(link'[s], link'[r], Way(s)', Way(r)', guard'[s].frame, guard'[r].frame)
    BY <2>1, <2>4, <2>5, <2>6, <2>7
  <2>10. \A d \in End : ~torn'[d] /\ Len(air'[d]) =< 1
    <3>1. Len(<< >>) = 0  OBVIOUS
    <3> QED  BY <1>2, <1>3, <2>1, <2>7, <3>1
  <2> QED  BY <1>3, <2>1, <2>4, <2>7, <2>8, <2>9, <2>10 DEF Lockstep
<1>5. CASE e = s
  <2> DEFINE f == Head(k)
             N == handle_frame(L, f)
  <2>1. /\ air[r] # << >> /\ sounding[r] = 0 /\ k # << >>
        /\ link'[s] = N /\ link'[r] = M
        /\ air'[r] = << >> /\ air'[s] = air[s]
        /\ guard'[s].frame = f /\ guard'[r] = guard[r]
        /\ N.deadline_set => clock'[s] = AfterFrame(clock[s], f, L, N)
        /\ UNCHANGED <<sounding, torn, channel>>
    BY <1>2, <1>5, HearFacts
  <2>2. c = << >> /\ L.out_frames = << >> /\ air[s] = << >>  BY <1>2, <2>1, Ways
  <2>3. Tail(k) = << >> /\ HeardWell(L, M, N, f, gM)
    <3> HIDE DEF L, M, c, k, gL, gM
    <3> QED  BY <1>2, <2>1, <2>2, SenderHears
  <2> HIDE DEF N
  <2>4. Tail(k) = M.out_frames  BY <1>2, <2>1, Ways
  <2>5. Way(s)' = N.out_frames /\ air'[s] = << >>  BY <2>1, <2>2, QueuedWay
  <2>6. Way(r)' = << >>  BY <1>2, <2>1, <2>3, <2>4, QueuedWay
  <2>7. InTime(s)'
    <3>1. N.deadline_set =>
            /\ N.out_frames # << >>
            /\ clock'[s].left = base_timeout(Len(N.out_frames))
      BY <1>2, <2>1, <2>3 DEF HeardWell
    <3> QED  BY <2>1, <2>5, <3>1, ArmedInTime
  <2>8. M.delivered = NoBody
    <3>1. Airtime # 0  BY TimesAssumption
    <3> QED  BY <1>3, <2>1, <3>1
  <2>9. Pair(link'[s], link'[r], Way(s)', Way(r)', guard'[s].frame, guard'[r].frame)
    BY <2>1, <2>3, <2>5, <2>6 DEF HeardWell
  <2>10. \A d \in End : ~torn'[d] /\ Len(air'[d]) =< 1
    <3>1. Len(<< >>) = 0  OBVIOUS
    <3> QED  BY <1>2, <1>3, <2>1, <2>5, <3>1
  <2> QED  BY <1>3, <2>1, <2>6, <2>7, <2>8, <2>9, <2>10 DEF Lockstep
<1> QED  BY <1>2, <1>4, <1>5

\* The engine reports a frame once more, and the guard takes it.
LEMMA RepeatLockstep ==
  ASSUME Fits, IInv, TimersOK, IInv', NEW s \in End, Outbox[Peer(s)] = << >>, Lockstep(s),
         NEW e \in End, Repeat(e)
  PROVE  Lockstep(s)'
<1> DEFINE r == Peer(s)
<1>1. Stage(s, r)  BY Staged
<1>2. r \in End /\ r # s  BY <1>1 DEF Stage
<1>3. /\ Becomes(e, link[e]) /\ Clocked(e, clock[e])
      /\ UNCHANGED <<air, sounding, torn, guard>>
      /\ channel' = [channel EXCEPT !.repeats = @ + 1]
  BY RepeatsSuppressed DEF Repeat
<1>4. link' = link  BY <1>3 DEF Becomes, IInv
<1>5. link[s].deadline_set => clock'[s] = clock[s]
  <2>1. clock \in [End -> ClockType]  BY TimersParts
  <2> QED  BY <1>3, <1>4, <2>1 DEF Clocked
<1>6. channel'.noisy = channel.noisy
  <2>1. channel \in [noisy : BOOLEAN, bursts : 0 .. Bursts, repeats : 0 .. Repeats]
    BY TimersParts
  <2> QED  BY <1>3, <2>1
<1>7. \A d \in End : Way(d)' = Way(d) /\ ToGo(d)' = ToGo(d)
  BY <1>3, <1>4 DEF Way, ToGo
<1>8. InTime(s)'
  <2>1. InTime(s)  BY DEF Lockstep
  <2> QED  BY <1>2, <1>4, <1>5, <1>7, <2>1, InTimeKept
<1>9. /\ Pair(link[s], link[r], Way(s), Way(r), guard[s].frame, guard[r].frame)
      /\ link[r].accepts = Accepts[r] /\ ~channel.noisy
      /\ \A d \in End : ~torn[d] /\ Len(air[d]) =< 1
      /\ link[r].delivered # NoBody => Way(r) # << >> /\ (air[r] # << >> => sounding[r] = Airtime)
  BY DEF Lockstep
<1> QED  BY <1>2, <1>3, <1>4, <1>6, <1>7, <1>8, <1>9 DEF Lockstep

\* A frame that has come in is heard: it is not what was heard last, and the air is clear.
LEMMA NothingLost ==
  ASSUME IInv, TimersOK, NEW s \in End, Outbox[Peer(s)] = << >>, Lockstep(s), NEW e \in End
  PROVE  ~Suppress(e) /\ ~Destroy(e)
<1> DEFINE r == Peer(s)
<1>1. Stage(s, r)  BY Staged
<1>2. /\ r \in End /\ r # s /\ \A d \in End : d = s \/ d = r
      /\ Peer(s) = r /\ Peer(r) = s
      /\ Ends(link[s], link[r])
      /\ Pair(link[s], link[r], Way(s), Way(r), guard[s].frame, guard[r].frame)
      /\ Len(air[s]) =< 1 /\ Len(air[r]) =< 1
  BY <1>1 DEF Stage
<1>3. ~Destroy(e)  BY DEF Destroy, Audible, Lockstep
<1>4. ~Suppress(e)
  <2> SUFFICES ASSUME Suppress(e) PROVE FALSE  OBVIOUS
  <2>1. air[Peer(e)] # << >> /\ guard[e].frame = Head(air[Peer(e)])
    BY DEF Suppress, Audible, Sounded, Suppressed
  <2>2. /\ Way(s) # << >> => Head(Way(s)) # guard[r].frame
        /\ Way(r) # << >> => Head(Way(r)) # guard[s].frame
    <3> DEFINE L == link[s]
               M == link[r]
               c == Way(s)
               k == Way(r)
               gL == guard[s].frame
               gM == guard[r].frame
    <3>1. Ends(L, M) /\ Pair(L, M, c, k, gL, gM)  BY <1>2
    <3> HIDE DEF L, M, c, k, gL, gM
    <3>2. (c # << >> => Head(c) # gM) /\ (k # << >> => Head(k) # gL)  BY <3>1, NotRepeated
    <3> QED  BY <3>2 DEF c, k, gL, gM
  <2>3. CASE e = r
    <3>1. Head(Way(s)) = Head(air[s]) /\ Way(s) # << >>  BY <1>2, <2>1, <2>3, Ways
    <3> QED  BY <1>2, <2>1, <2>2, <2>3, <3>1
  <2>4. CASE e = s
    <3>1. Head(Way(r)) = Head(air[r]) /\ Way(r) # << >>  BY <1>2, <2>1, <2>4, Ways
    <3> QED  BY <1>2, <2>1, <2>2, <2>4, <3>1
  <2> QED  BY <1>2, <2>3, <2>4
<1> QED  BY <1>3, <1>4

\* Time is counted in natural numbers.
LEMMA AwaitedType ==
  ASSUME TimersOK
  PROVE  Awaited \subseteq Nat
<1> SUFFICES ASSUME NEW d \in Awaited PROVE d \in Nat
  OBVIOUS
<1>1. clock \in [End -> ClockType] /\ sounding \in [End -> 0 .. Airtime]
      /\ expiry \in [End -> Seq(Life)] /\ Airtime \in Nat
  BY TimersParts, TimesAssumption
<1> DEFINE W(e) == {clock[e].left : x \in {y \in {e} : link[y].deadline_set}}
                     \cup {sounding[e] : x \in {y \in {e} : air[y] # << >>}}
                     \cup {expiry[e][i] : i \in DOMAIN expiry[e]}
<1>2. PICK e \in End : d \in W(e)  BY DEF Awaited
<1>3. \/ d = clock[e].left
      \/ d = sounding[e]
      \/ \E i \in DOMAIN expiry[e] : d = expiry[e][i]
  BY <1>2
<1>4. clock[e].left \in Nat  BY <1>1 DEF ClockType
<1>5. sounding[e] \in Nat  BY <1>1
<1>6. ASSUME NEW i \in DOMAIN expiry[e] PROVE expiry[e][i] \in Nat
  <2>1. expiry[e] \in Seq(Life)  BY <1>1
  <2>2. expiry[e][i] \in Life  BY <2>1, ElementOfSeq
  <2> QED  BY <2>2, LifeType
<1> QED  BY <1>3, <1>4, <1>5, <1>6

\* What is set is awaited.
LEMMA AwaitedParts ==
  ASSUME NEW e \in End
  PROVE  /\ link[e].deadline_set => clock[e].left \in Awaited
         /\ air[e] # << >> => sounding[e] \in Awaited
<1> DEFINE W(x) == {clock[x].left : z \in {y \in {x} : link[y].deadline_set}}
                     \cup {sounding[x] : z \in {y \in {x} : air[y] # << >>}}
                     \cup {expiry[x][i] : i \in DOMAIN expiry[x]}
<1>1. \A v : v \in W(e) => v \in Awaited  BY DEF Awaited
<1>2. link[e].deadline_set => clock[e].left \in W(e)  OBVIOUS
<1>3. air[e] # << >> => sounding[e] \in W(e)  OBVIOUS
<1> QED  BY <1>1, <1>2, <1>3

\* Time passes: as much for what sounds as for the deadline.
LEMMA ElapseLockstep ==
  ASSUME Fits, IInv, TimersOK, IInv', NEW s \in End, Outbox[Peer(s)] = << >>, Lockstep(s),
         Elapse
  PROVE  Lockstep(s)'
<1> DEFINE r == Peer(s)
<1>1. Stage(s, r)  BY Staged
<1>2. /\ r \in End /\ r # s /\ \A d \in End : d = s \/ d = r
      /\ Peer(s) = r /\ Peer(r) = s
      /\ Ends(link[s], link[r])
      /\ Pair(link[s], link[r], Way(s), Way(r), guard[s].frame, guard[r].frame)
      /\ Len(air[s]) =< 1 /\ Len(air[r]) =< 1
      /\ (Way(s) = << >> \/ Way(r) = << >>)
      /\ clock[s] \in ClockType
      /\ sounding[s] \in 0 .. Airtime /\ sounding[r] \in 0 .. Airtime
  BY <1>1 DEF Stage
<1>3. /\ InTime(s) /\ link[r].accepts = Accepts[r] /\ ~channel.noisy
      /\ \A d \in End : ~torn[d] /\ Len(air[d]) =< 1
  BY DEF Lockstep
<1>4. PICK d \in Awaited :
        /\ \A t \in Awaited : d =< t
        /\ clock' = [e \in End |-> [clock[e] EXCEPT !.left = Less(@, d)]]
        /\ sounding' = [e \in End |-> Less(sounding[e], d)]
        /\ guard' = [e \in End |-> Older(guard[e], d)]
  BY DEF Elapse
<1>5. d \in Nat  BY AwaitedType
<1>6. UNCHANGED <<link, air, torn, channel>>  BY DEF Elapse, vars
<1>7. \A e \in End : ~Busy(e)  BY DEF Elapse
<1>8. link[r].delivered = NoBody  BY <1>2, <1>7 DEF Busy
<1>9. \A e \in End : Way(e)' = Way(e)  BY <1>6 DEF Way
<1>10. \A e \in End : Fainter(guard[e].frame, guard'[e].frame)
  <2>1. \A e \in End : guard[e] \in [frame : AnyFrame, since : 0 .. GuardTime]  BY TimersParts
  <2>2. NotHeard.frame.type = "NONE"  BY DEF NotHeard, ZeroFrame
  <2> SUFFICES ASSUME NEW e \in End PROVE Fainter(guard[e].frame, guard'[e].frame)  OBVIOUS
  <2>3. guard'[e] = Older(guard[e], d)  BY <1>4
  <2>4. CASE guard[e].since + d >= GuardTime  BY <2>2, <2>3, <2>4 DEF Older, Fainter
  <2>5. CASE ~(guard[e].since + d >= GuardTime)
    <3>1. guard'[e] = [guard[e] EXCEPT !.since = @ + d]  BY <2>3, <2>5 DEF Older
    <3>2. guard'[e].frame = guard[e].frame  BY <2>1, <3>1
    <3> QED  BY <3>2 DEF Fainter
  <2> QED  BY <2>4, <2>5
<1>11. Pair(link[s], link[r], Way(s), Way(r), guard'[s].frame, guard'[r].frame)
  <2>1. \A L : Matches(L, L)  BY DEF Matches
  <2>2. Remembered(link[s], link[r]) /\ link[s].delivered = NoBody  BY <1>2 DEF Pair
  <2> QED  BY <1>2, <1>10, <2>1, <2>2, PairAlike

\* What is on its way is on the air.
<1>12. ASSUME NEW e \in End, Way(e) # << >> PROVE air[e] # << >> /\ d =< sounding[e]
  <2>1. air[e] # << >>
    <3> SUFFICES ASSUME air[e] = << >> PROVE FALSE  OBVIOUS
    <3>1. link[e].out_frames # << >>  BY <1>2, <1>12, Ways
    <3>2. Peer(e) \in End /\ Way(Peer(e)) = << >>  BY <1>2, <1>12
    <3>3. air[Peer(e)] = << >>
      <4>1. Len(air[Peer(e)]) =< 1  BY <1>2
      <4> QED  BY <3>2, <4>1, Ways
    <3>4. CanPull(e)  BY <3>1, <3>3 DEF CanPull, rx_busy, Sounded
    <3> QED  BY <1>7, <3>4 DEF Busy
  <2> QED  BY <1>4, <2>1, AwaitedParts
<1>13. InTime(s)'
  <2>1. SUFFICES ASSUME link[s].deadline_set
                 PROVE  clock'[s].left > ToGo(s)' + (IF Way(s) # << >> THEN Airtime ELSE ToGo(r)')
    BY <1>2, <1>6, <1>9 DEF InTime
  <2>2. clock[s].left > ToGo(s) + (IF Way(s) # << >> THEN Airtime ELSE ToGo(r))
    BY <1>3, <2>1 DEF InTime
  <2>3. Way(s) # << >> \/ Way(r) # << >>
    <3> DEFINE L == link[s]
               M == link[r]
               c == Way(s)
               k == Way(r)
               gL == guard[s].frame
               gM == guard[r].frame
    <3>1. Ends(L, M) /\ Pair(L, M, c, k, gL, gM) /\ L.deadline_set  BY <1>2, <2>1
    <3> HIDE DEF L, M, c, k, gL, gM
    <3>2. c # << >> \/ k # << >>  BY <3>1, OneWay
    <3> QED  BY <3>2 DEF c, k
  <2> DEFINE left == clock[s].left
             a == Airtime * Len(link[s].out_frames)
             b == Airtime * Len(link[r].out_frames)
             x == sounding[s]
             y == sounding[r]
  <2>4. clock'[s].left = Less(left, d) /\ sounding'[s] = Less(x, d) /\ sounding'[r] = Less(y, d)
        /\ left \in Nat /\ x \in Nat /\ y \in Nat /\ Airtime \in Nat
    <3>1. Airtime \in Nat  BY TimesAssumption
    <3> QED  BY <1>2, <1>4, <3>1 DEF ClockType
  <2>5. a \in Nat /\ b \in Nat
    <3>1. Len(link[s].out_frames) \in Nat /\ Len(link[r].out_frames) \in Nat  BY <1>2, Ways
    <3> QED  BY <2>4, <3>1
  <2>6. /\ ToGo(s) = a + (IF air[s] = << >> THEN 0 ELSE x)
        /\ ToGo(r) = b + (IF air[r] = << >> THEN 0 ELSE y)
        /\ ToGo(s)' = a + (IF air[s] = << >> THEN 0 ELSE Less(x, d))
        /\ ToGo(r)' = b + (IF air[r] = << >> THEN 0 ELSE Less(y, d))
    BY <1>6, <2>4 DEF ToGo
  <2>7. CASE Way(s) # << >>
    <3>1. air[s] # << >> /\ d =< x  BY <1>12, <2>7
    <3> HIDE DEF left, a, b, x, y
    <3>2. ToGo(s) = a + x /\ ToGo(s)' = a + (x - d)
      BY <1>5, <2>4, <2>6, <3>1 DEF Less
    <3>3. left > a + x + Airtime  BY <2>2, <2>7, <3>2 DEF left
    <3>4. Less(left, d) > a + (x - d) + Airtime
      BY <1>5, <2>4, <2>5, <3>1, <3>3 DEF Less
    <3> QED  BY <2>4, <2>7, <3>2, <3>4
  <2>8. CASE Way(s) = << >>
    <3>1. air[r] # << >> /\ d =< y  BY <1>2, <1>12, <2>3, <2>8
    <3>2. air[s] = << >>  BY <1>2, <2>8, Ways
    <3> HIDE DEF left, a, b, x, y
    <3>3. /\ ToGo(s) = a + 0 /\ ToGo(s)' = a + 0 /\ ToGo(r) = b + y /\ ToGo(r)' = b + (y - d)
      BY <1>5, <2>4, <2>6, <3>1, <3>2 DEF Less
    <3>4. left > a + b + y  BY <2>2, <2>5, <2>4, <2>8, <3>3 DEF left
    <3>5. Less(left, d) > a + b + (y - d)
      BY <1>5, <2>4, <2>5, <3>1, <3>4 DEF Less
    <3> QED  BY <2>4, <2>5, <2>8, <3>1, <3>3, <3>5, <1>5
  <2> QED  BY <2>7, <2>8
<1> QED  BY <1>2, <1>3, <1>6, <1>8, <1>9, <1>11, <1>13 DEF Lockstep

\* A silent peer, and an air nothing disturbs, leave the two ends in step.
LEMMA SilenceInv ==
  ASSUME Fits
  PROVE  IInv /\ TimersOK /\ InSilence /\ [TimedNext]_timedVars => InSilence'
<1> SUFFICES ASSUME IInv, TimersOK, InSilence, [TimedNext]_timedVars,
                    channel'.bursts = 0, NEW s \in End, Outbox[Peer(s)] = << >>
             PROVE  Lockstep(s)'
  BY DEF InSilence
<1>1. IInv'  BY TimedInv
<1>2. channel \in [noisy : BOOLEAN, bursts : 0 .. Bursts, repeats : 0 .. Repeats]
  BY TimersParts
<1>3. CASE UNCHANGED timedVars
  <2>1. UNCHANGED <<link, air, clock, sounding, torn, guard, channel>>
    BY <1>3 DEF timedVars
  <2>2. Lockstep(s)  BY <2>1 DEF InSilence
  <2>3. Lockstep(s)' <=> Lockstep(s)  BY <2>1 DEF Lockstep, InTime, Way, ToGo
  <2> QED  BY <2>2, <2>3
<1>4. CASE NoiseBegins
  <2>1. channel'.bursts = channel.bursts + 1  BY <1>2, <1>4 DEF NoiseBegins
  <2> QED  BY <1>2, <2>1, TimesAssumption
<1>5. CASE NoiseEnds
  <2>1. channel'.bursts = channel.bursts /\ channel.noisy  BY <1>2, <1>5 DEF NoiseEnds
  <2> QED  BY <2>1 DEF InSilence, Lockstep
<1>6. CASE Elapse
  <2>1. channel' = channel  BY <1>6 DEF Elapse
  <2>2. Lockstep(s)  BY <2>1 DEF InSilence
  <2> QED  BY <1>1, <1>6, <2>2, ElapseLockstep
<1>7. ASSUME NEW e \in End, Repeat(e) PROVE Lockstep(s)'
  <2>1. channel'.bursts = channel.bursts  BY <1>2, <1>7 DEF Repeat
  <2>2. Lockstep(s)  BY <2>1 DEF InSilence
  <2> QED  BY <1>1, <1>7, <2>2, RepeatLockstep
<1>8. ASSUME NEW e \in End, System(e) PROVE Lockstep(s)'
  <2>1. channel' = channel
    BY <1>8
    DEF System, TimedSend, TimedCollect, TimedExpire, TimedAge, TimedPull, TimedHear,
        Suppress, Destroy, timers
  <2>2. Lockstep(s)  BY <2>1 DEF InSilence
  <2>3. ~TimedExpire(e)  BY <2>2, Staged DEF TimedExpire
  <2>4. ~Suppress(e) /\ ~Destroy(e)  BY <2>2, NothingLost
  <2> QED  BY <1>1, <1>8, <2>2, <2>3, <2>4, SendLockstep, CollectLockstep, AgeLockstep,
             PullLockstep, HearLockstep DEF System
<1> QED  BY <1>3, <1>4, <1>5, <1>6, <1>7, <1>8 DEF TimedNext

\* Two ends that have said nothing yet are in step.
LEMMA SilenceInit ==
  ASSUME Fits
  PROVE  TimedInit => InSilence
<1> SUFFICES ASSUME TimedInit, NEW s \in End, Outbox[Peer(s)] = << >> PROVE Lockstep(s)
  BY DEF InSilence
<1> DEFINE r == Peer(s)
           L == kal_link_create(s)
           M == kal_link_create(r)
<1>1. r \in End  BY PeerType
<1>2. /\ link[s] = L /\ link[r] = M /\ air[s] = << >> /\ air[r] = << >>
      /\ \A e \in End : ~torn[e] /\ Len(air[e]) =< 1
      /\ guard[s].frame = ZeroFrame /\ guard[r].frame = ZeroFrame /\ ~channel.noisy
  <2>1. Len(<< >>) = 0  OBVIOUS
  <2> QED  BY <1>1, <2>1 DEF TimedInit, Init, InitTimers, NotHeard
<1>3. /\ L.role = Role[s] /\ L.profile = Profile[s] /\ ~L.session_open /\ ~L.hello_pending
      /\ ~L.deadline_set /\ L.tx = NoTx /\ L.delivered = NoBody /\ L.out_frames = << >>
      /\ Sent(L) = << >> /\ L.next_message_id = FirstMessageId(Role[s])
  BY DEF kal_link_create, Sent
<1>4. /\ M.profile = Profile[r] /\ M.window = clamp_window(Window[r]) /\ M.accepts = Accepts[r]
      /\ ~M.session_open /\ ~M.hello_pending /\ ~M.deadline_set /\ M.tx = NoTx /\ M.rx = NoRx
      /\ M.dup_cache = << >> /\ M.delivered = NoBody /\ M.out_frames = << >> /\ Log(M) = << >>
  BY DEF kal_link_create, Log
<1> HIDE DEF L, M
<1>5. Way(s) = << >> /\ Way(r) = << >>
  <2>1. << >> \o << >> = << >>  OBVIOUS
  <2> QED  BY <1>2, <1>3, <1>4, <2>1 DEF Way
<1>6. M.window =< OutQueueFrames
  <2>1. Window[r] \in KAL_MIN_WINDOW_FRAMES .. KAL_MAX_WINDOW_FRAMES
    BY <1>1, OptionsAssumption
  <2>2. clamp_window(Window[r]) = Window[r]
    BY <2>1 DEF clamp_window, KAL_MIN_WINDOW_FRAMES, KAL_MAX_WINDOW_FRAMES
  <2> QED  BY <1>1, <1>4, <2>2 DEF Fits
<1>7. NextId(L) = FirstMessageId(Role[s])
  <2>1. FirstMessageId(Role[s]) \in {0, 1}  BY DEF FirstMessageId
  <2>2. Len(<< >>) = 0  OBVIOUS
  <2> DEFINE q == FirstMessageId(Role[s])
  <2>3. NextId(L) = (q + 2 * 0) % 65536  BY <1>3, <2>2 DEF NextId, IdAfter
  <2> HIDE DEF q
  <2>4. (q + 2 * 0) % 65536 = q  BY <2>1 DEF q
  <2> QED  BY <2>3, <2>4 DEF q
<1>8. Remembered(L, M)
  <2>1. Len(<< >>) = 0 /\ DOMAIN << >> = {}  OBVIOUS
  <2> QED  BY <1>4, <2>1 DEF Remembered
<1>9. Waiting(L, M, << >>, << >>, ZeroFrame) /\ ~L.tx.active /\ ZeroFrame.type = "NONE"
  BY <1>3, <1>4 DEF Waiting, Unheard, NoTx, ZeroFrame
<1>10. Pair(L, M, << >>, << >>, ZeroFrame, ZeroFrame)
  <2>1. L.profile = M.profile  BY <1>1, <1>3, <1>4 DEF Fits
  <2> QED  BY <1>3, <1>4, <1>6, <1>7, <1>8, <1>9, <2>1 DEF Pair
<1>11. InTime(s)  BY <1>2, <1>3 DEF InTime
<1> QED  BY <1>2, <1>4, <1>5, <1>10, <1>11 DEF Lockstep

----------------------------------------------------------------------------
(* The theorems.                                                           *)

\* Retransmission timeouts, backoff, expiry of cache entries, the repeat guard and
\* playing over a reception are steps of KalLink at chosen moments: what its theorems
\* say of every schedule they say of the one the clock allows.
THEOREM TimedImplementsLink == TimedSpec => Spec
<1>1. TimedInit => Init  BY DEF TimedInit
<1>2. TimedInit => IInv /\ TimersOK  BY InitInv, TimersInit DEF TimedInit
<1>3. IInv /\ TimersOK /\ [TimedNext]_timedVars => [Next]_vars  BY StepMaps
<1> QED  BY <1>1, <1>2, <1>3, TimedInv, PTL DEF TimedSpec, Spec

\* No timeout, backoff ceiling or life of an entry ever leaves its type, every cached
\* entry has exactly one life, and the one dup_store evicts is the closest to expiry.
THEOREM TimersKept == TimedSpec => []TimersOK
<1>1. TimedInit => IInv /\ TimersOK  BY InitInv, TimersInit DEF TimedInit
<1> QED  BY <1>1, TimedInv, PTL DEF TimedSpec

\* From the first state through every step.
LEMMA SilenceKept ==
  ASSUME Fits
  PROVE  TimedSpec => [](IInv /\ TimersOK /\ InSilence)
<1>1. TimedInit => IInv /\ TimersOK /\ InSilence
  BY InitInv, TimersInit, SilenceInit DEF TimedInit
<1>2. IInv /\ TimersOK /\ InSilence /\ [TimedNext]_timedVars => (IInv /\ TimersOK /\ InSilence)'
  BY TimedInv, SilenceInv
<1> QED  BY <1>1, <1>2, PTL DEF TimedSpec

\* While one end stays silent and nothing disturbs the air no deadline ever passes, in
\* every phase of a transfer and whatever the engine reports twice: the timeout
\* recompute_timeouts chose covers what was queued and its answer, for every airtime,
\* window, message and number of messages that satisfy Fits.
THEOREM PunctualTimeouts ==
  ASSUME Fits
  PROVE  TimedSpec => []PunctualInSilence
<1>1. IInv /\ TimersOK /\ InSilence => PunctualInSilence
  <2> SUFFICES ASSUME IInv, TimersOK, InSilence, channel.bursts = 0,
                      NEW d \in End, Outbox[d] = << >>
               PROVE  \A e \in End : ~DeadlinePassed(e)
    BY DEF PunctualInSilence
  <2>1. Peer(d) \in End /\ Peer(Peer(d)) = d  BY PeerType
  <2> QED  BY <2>1, Staged DEF InSilence
<1> QED  BY <1>1, SilenceKept, PTL

\* In the same quiet the messages confirmed are those delivered, in their order, and at
\* most the one under way is delivered and not yet confirmed: for any number of messages,
\* so however often their ids have wrapped past the entries of the duplicate cache.
THEOREM ConfirmationsTrue ==
  ASSUME Fits
  PROVE  TimedSpec => []ConfirmedInSilence
<1>1. InSilence => ConfirmedInSilence
  <2> SUFFICES ASSUME InSilence, channel.bursts = 0, NEW e \in End, Outbox[Peer(e)] = << >>
               PROVE  \/ DeliveredLog(Peer(e)) = SentLog(e)
                      \/ /\ link[e].tx.active
                         /\ DeliveredLog(Peer(e)) = Append(SentLog(e), link[e].tx.payload)
    BY DEF ConfirmedInSilence
  <2> DEFINE L == link[e]
             M == link[Peer(e)]
             c == Way(e)
             k == Way(Peer(e))
             gL == guard[e].frame
             gM == guard[Peer(e)].frame
  <2>1. Pair(L, M, c, k, gL, gM)  BY DEF InSilence, Lockstep
  <2>2. DeliveredLog(Peer(e)) = Log(M) /\ SentLog(e) = Sent(L)
    BY DEF DeliveredLog, SentLog, Log, Sent
  <2> HIDE DEF L, M, c, k, gL, gM
  <2>3. Log(M) = Sent(L) \/ (L.tx.active /\ Log(M) = Append(Sent(L), L.tx.payload))
    <3>1. CASE Waiting(L, M, c, k, gM) \/ Greeting(L, M, c, k, gM)
      BY <3>1 DEF Waiting, Greeting, Unheard
    <3>2. CASE Open(L, M, c, k, gL, gM)
      <4>1. PICK h : Talking(L, M, c, k, h)  BY <3>2 DEF Open
      <4>2. CASE Idle(L, M, c, k)  BY <4>2 DEF Idle
      <4>3. CASE Sending(L, M, c, k, h)  BY <4>3 DEF Sending, Holding
      <4>4. CASE Answered(L, M, c, k, h)  BY <4>4 DEF Answered, Holding, InFlight
      <4> QED  BY <4>1, <4>2, <4>3, <4>4 DEF Talking
    <3> QED  BY <2>1, <3>1, <3>2 DEF Pair
  <2> QED  BY <2>2, <2>3 DEF L
<1> QED  BY <1>1, SilenceKept, PTL

=============================================================================
