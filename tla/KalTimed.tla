------------------------------ MODULE KalTimed ------------------------------
(***************************************************************************)
(* The two ends of KalLink under one monotonic clock (src/kal_link.c):     *)
(* retransmission timeouts derived from the airtime of a frame, the backoff*)
(* and its ceiling, the deadline, the expiry of duplicate-cache entries,   *)
(* and the guard against frames the engine reports twice; and, of the modem *)
(* adapter, what it means to play while a frame is coming in.              *)
(*                                                                         *)
(* Each step that changes a link is a step of KalLink that happens when the*)
(* clock says so.  Every time is kept as what is left until it is reached. *)
(* The hosts are prompt: they pull, push, tick, send and collect as soon as*)
(* there is something to, and time passes when there is nothing.           *)
(***************************************************************************)
EXTENDS KalLink

CONSTANTS
  Airtime,  \* frame_airtime_ms, in any unit of time
  Bursts,   \* bound: bursts of noise
  Repeats   \* bound: frames the engine reports once more

ASSUME TimesAssumption ==
  /\ Airtime \in Nat \ {0}
  /\ Bursts \in Nat
  /\ Repeats \in Nat
\* A frame sounds at a time, and a deadline passes when it is time.
ASSUME AirAssumption == AirFrames = 1 /\ ~Patient

KAL_TIMEOUT_CEILING_MULT == 8
KAL_DUP_CACHE_TTL_FRAMES == 64

VARIABLES
  clock,     \* clock[e]: the timeout, its ceiling, and what is left of the deadline
  expiry,    \* expiry[e][i]: what is left of the life of link[e].dup_cache[i]
  sounding,  \* sounding[e]: what is left of the frame e is playing
  torn,      \* torn[e]: the peer's engine will not decode the frame e is playing
  guard,     \* guard[e]: last_rx_frame, and the time since it was heard
  channel    \* whether there is noise, and what has been used of the bounds

timers == <<clock, expiry, sounding, torn, guard, channel>>
timedVars == <<link, air, drawn, spent, clock, expiry, sounding, torn, guard, channel>>

----------------------------------------------------------------------------
(* The clock of one end.                                                   *)

\* Mutant: the airtime of the ACK is forgotten.
BaseWithoutAck(frames) == LET flight == Airtime * (IF frames = 0 THEN 1 ELSE frames)
                          IN  flight + flight \div 4

\* Data on the air plus one ACK, and a quarter of slack.
base_timeout(frames) ==
  LET air_ms == Airtime * (IF frames = 0 THEN 1 ELSE frames) + Airtime
  IN  air_ms + air_ms \div 4

recompute_timeouts(C, frames) ==
  [C EXCEPT !.timeout = base_timeout(frames),
            !.ceiling = base_timeout(frames) * KAL_TIMEOUT_CEILING_MULT]

arm_deadline(C) == [C EXCEPT !.left = C.timeout]

\* Backoff, up to the ceiling.
Double(C) == [C EXCEPT !.timeout = IF 2 * @ > C.ceiling THEN C.ceiling ELSE 2 * @]

\* What queue_window put in flight between L and N.
NewlyQueued(L, N) == Cardinality(N.tx.inflight \ L.tx.inflight)

\* start_or_resume_tx, not a retransmission: nothing queued leaves the clock alone.
Started(C, L, N) ==
  IF NewlyQueued(L, N) = 0 THEN C
  ELSE arm_deadline(recompute_timeouts(C, NewlyQueued(L, N)))

AfterSend(C, L, N) ==
  IF ~L.hello_pending /\ N.hello_pending THEN arm_deadline(recompute_timeouts(C, 1))
  ELSE Started(C, L, N)

\* A partial ACK of the transfer in progress.
Acknowledges(f, L) ==
  /\ f.type = "ACK" /\ ~f.flag
  /\ L.tx.active
  /\ f.session_id = L.session_id
  /\ f.message_id = L.tx.message_id
  /\ f.sequence =< L.tx.total

\* A HELLO or HELLO_ACK that opens a session.
Opens(f, L, N) ==
  \/ f.type = "HELLO" /\ ~InSession(L, f) /\ InSession(N, f)
  \/ f.type = "HELLO_ACK" /\ L.hello_pending /\ ~N.hello_pending

AfterFrame(C, f, L, N) ==
  IF Opens(f, L, N) THEN Started(recompute_timeouts(C, N.window), L, N)
  ELSE IF Acknowledges(f, L)
    THEN LET D == recompute_timeouts(C, L.window)
         IN  IF NewlyQueued(L, N) = 0 /\ ~L.deadline_set THEN arm_deadline(D)
             ELSE Started(D, L, N)
  ELSE C

\* A retry doubles the timeout; one that queues nothing leaves the deadline unset.  When
\* the budget is used up, or nothing is retried, the timeout is left as it is.
AfterTimeout(C, L, N) ==
  IF \/ L.hello_pending /\ N.hello_pending
     \/ ~L.hello_pending /\ L.tx.active /\ L.tx.started /\ N.tx.active
    THEN arm_deadline(Double(C)) ELSE C

\* Mutants: an entry lives half as long, the life of an evicted entry stays behind.
ExpiriesHalved(E, old, new) ==
  IF new = old THEN E
  ELSE IF new = << >> THEN << >>
  ELSE Append(IF Len(new) > Len(old) THEN E ELSE Tail(E), Airtime * 32)
ExpiriesKept(E, old, new) ==
  IF new = old THEN E
  ELSE IF new = << >> THEN << >>
  ELSE Append(E, Airtime * KAL_DUP_CACHE_TTL_FRAMES)

\* The lives of the entries as dup_store, handle_hello and kal_link_reset leave them.
Expiries(E, old, new) ==
  IF new = old THEN E
  ELSE IF new = << >> THEN << >>
  ELSE Append(IF Len(new) > Len(old) THEN E ELSE Tail(E), Airtime * KAL_DUP_CACHE_TTL_FRAMES)

\* End e's clock has become C, but for a deadline that is not set any more.
Clocked(e, C) ==
  /\ clock' = [clock EXCEPT ![e] = IF link'[e].deadline_set THEN C ELSE [C EXCEPT !.left = 0]]
  /\ expiry' = [expiry EXCEPT ![e] = Expiries(@, link[e].dup_cache, link'[e].dup_cache)]

----------------------------------------------------------------------------
(* The repeat guard.                                                       *)

GuardTime == Airtime * 2

NotHeard == [frame |-> ZeroFrame, since |-> GuardTime]

\* Mutant: there is no guard.
Unguarded(e, f) == FALSE

\* A frame identical to the last one, within two airtimes of it.
Suppressed(e, f) == guard[e].since < GuardTime /\ guard[e].frame = f

----------------------------------------------------------------------------
(* The system.                                                             *)

InitTimers ==
  /\ clock = [e \in End |-> [timeout |-> base_timeout(link[e].window),
                             ceiling |-> base_timeout(link[e].window) * KAL_TIMEOUT_CEILING_MULT,
                             left |-> 0]]
  /\ expiry = [e \in End |-> << >>]
  /\ sounding = [e \in End |-> 0]
  /\ torn = [e \in End |-> FALSE]
  /\ guard = [e \in End |-> NotHeard]
  /\ channel = [noisy |-> FALSE, bursts |-> 0, repeats |-> 0]

TimedInit == Init /\ InitTimers

\* Every call that is given the time begins with advance_time: what is due comes first.
DeadlinePassed(e) == link[e].deadline_set /\ clock[e].left = 0
EntryExpired(e) == expiry[e] # << >> /\ Head(expiry[e]) = 0
Due(e) == DeadlinePassed(e) \/ EntryExpired(e)

TimedSend(e) ==
  /\ Send(e) \/ SendOpening(e)
  /\ Clocked(e, AfterSend(clock[e], link[e], link'[e]))
  /\ UNCHANGED <<sounding, torn, guard, channel>>

TimedCollect(e) ==
  /\ Collect(e)
  /\ UNCHANGED timers

TimedExpire(e) ==
  /\ DeadlinePassed(e)
  /\ Expire(e)
  /\ Clocked(e, AfterTimeout(clock[e], link[e], link'[e]))
  /\ UNCHANGED <<sounding, torn, guard, channel>>

TimedAge(e) ==
  /\ EntryExpired(e)
  /\ Age(e)
  /\ expiry' = [expiry EXCEPT ![e] = Tail(@)]
  /\ UNCHANGED <<clock, sounding, torn, guard, channel>>

\* Some of the peer's frame has come in, and not yet all of it.
Receiving(e) == air[Peer(e)] # << >> /\ sounding[Peer(e)] < Airtime

\* kal_modem_rx_busy: the engine measures the duration of transmissions of variable
\* length only, and every KAL1 frame has 64 bytes.
rx_busy(e) == FALSE

Sounded(e) == air[e] # << >> /\ sounding[e] = 0

\* What has come in is pushed before more is pulled.
CanPull(e) == /\ link[e].out_frames # << >> /\ air[e] = << >>
              /\ ~rx_busy(e)
              /\ ~Sounded(Peer(e))

\* ggwave_encode clears what the same instance has heard so far.
TimedPull(e) ==
  /\ ~Due(e)
  /\ CanPull(e)
  /\ Pull(e)
  /\ sounding' = [sounding EXCEPT ![e] = Airtime]
  /\ torn' = [d \in End |-> d # e /\ (torn[d] \/ Receiving(e))]
  /\ UNCHANGED <<clock, expiry, guard, channel>>

Audible(e) == Sounded(e) /\ ~channel.noisy /\ ~torn[e]

TimedHear(e) ==
  LET f == Head(air[Peer(e)]) IN
  /\ Audible(Peer(e))
  /\ ~Due(e)
  /\ ~Suppressed(e, f)
  /\ Hear(e, f.type)
  /\ Clocked(e, AfterFrame(clock[e], f, link[e], link'[e]))
  /\ guard' = [guard EXCEPT ![e] = [frame |-> f, since |-> 0]]
  /\ UNCHANGED <<sounding, torn, channel>>

\* The guard takes a frame.
Suppress(e) ==
  /\ Audible(Peer(e))
  /\ ~Due(e)
  /\ Suppressed(e, Head(air[Peer(e)]))
  /\ Lose(Peer(e))
  /\ UNCHANGED timers

\* Noise takes a frame, or the peer has played over it.
Destroy(e) ==
  /\ Sounded(e) /\ ~Audible(e)
  /\ Lose(e)
  /\ UNCHANGED timers

\* The engine reports the last frame once more, before the next one is complete: at once,
\* or while it is taking in the next, but within two airtimes.
Repeat(e) ==
  LET f == guard[e].frame
      handled == ~Suppressed(e, f) IN
  /\ guard[e].since < GuardTime
  /\ ~Due(e)
  /\ channel.repeats < Repeats
  /\ channel' = [channel EXCEPT !.repeats = @ + 1]
  /\ Becomes(e, IF handled THEN handle_frame(link[e], f) ELSE link[e])
  /\ Clocked(e, IF handled THEN AfterFrame(clock[e], f, link[e], link'[e]) ELSE clock[e])
  /\ UNCHANGED <<air, drawn, spent, sounding, torn, guard>>

NoiseBegins ==
  /\ ~channel.noisy
  /\ channel.bursts < Bursts
  /\ channel' = [channel EXCEPT !.noisy = TRUE, !.bursts = @ + 1]
  /\ UNCHANGED <<vars, clock, expiry, sounding, torn, guard>>

NoiseEnds ==
  /\ channel.noisy
  /\ channel' = [channel EXCEPT !.noisy = FALSE]
  /\ UNCHANGED <<vars, clock, expiry, sounding, torn, guard>>

\* An end that has something to do at once.
Busy(e) ==
  \/ Due(e) \/ CanPull(e) \/ Sounded(e)
  \/ link[e].delivered # NoBody
  \/ Sendable(e) /\ (NeedsSession(link[e]) => SessionIds \ drawn # {})

\* What the ends wait for.
Awaited ==
  UNION {{clock[e].left : x \in {y \in {e} : link[y].deadline_set}}
           \cup {sounding[e] : x \in {y \in {e} : air[y] # << >>}}
           \cup {expiry[e][i] : i \in DOMAIN expiry[e]} : e \in End}

Less(t, d) == IF t > d THEN t - d ELSE 0

\* Mutant: the guard does not age.
Ageless(g, d) == g

\* The guard once d has passed: a frame too old to be compared with is forgotten.
Older(g, d) == IF g.since + d >= GuardTime THEN NotHeard ELSE [g EXCEPT !.since = @ + d]

\* Time passes up to the next thing awaited.
Elapse ==
  /\ \A e \in End : ~Busy(e)
  /\ \E d \in Awaited :
       /\ \A t \in Awaited : d =< t
       /\ clock' = [e \in End |-> [clock[e] EXCEPT !.left = Less(@, d)]]
       /\ expiry' = [e \in End |-> [i \in DOMAIN expiry[e] |-> Less(expiry[e][i], d)]]
       /\ sounding' = [e \in End |-> Less(sounding[e], d)]
       /\ guard' = [e \in End |-> Older(guard[e], d)]
  /\ UNCHANGED <<vars, torn, channel>>

System(e) == \/ TimedSend(e) \/ TimedCollect(e) \/ TimedExpire(e) \/ TimedAge(e)
             \/ TimedPull(e) \/ TimedHear(e) \/ Suppress(e) \/ Destroy(e)

TimedNext == \/ \E e \in End : System(e) \/ Repeat(e)
             \/ NoiseBegins \/ NoiseEnds \/ Elapse

TimedSpec == TimedInit /\ [][TimedNext]_timedVars

\* The hosts run and time passes; noise need neither begin nor end.
TimedFairness == WF_timedVars((\E e \in End : System(e)) \/ Elapse)

TimedFairSpec == TimedSpec /\ TimedFairness

----------------------------------------------------------------------------
(* Properties.                                                             *)

\* Every timer keeps its type, and each cached entry has its own life, the first the
\* shortest: the entry dup_store evicts, the one closest to expiry, is the oldest.
TimersOK ==
  /\ clock \in [End -> [timeout : Nat \ {0}, ceiling : Nat \ {0}, left : Nat]]
  /\ sounding \in [End -> 0 .. Airtime]
  /\ torn \in [End -> BOOLEAN]
  /\ guard \in [End -> [frame : AnyFrame, since : 0 .. GuardTime]]
  /\ channel \in [noisy : BOOLEAN, bursts : 0 .. Bursts, repeats : 0 .. Repeats]
  /\ expiry \in [End -> Seq(0 .. Airtime * KAL_DUP_CACHE_TTL_FRAMES)]
  /\ \A e \in End : /\ Len(expiry[e]) = Len(link[e].dup_cache)
                    /\ \A i, j \in DOMAIN expiry[e] : i =< j => expiry[e][i] =< expiry[e][j]

\* While only one end has anything to send and nothing disturbs the air no deadline
\* ever passes: the timeout recompute_timeouts chose covers what was queued and its
\* answer, in every phase of a transfer, whatever the engine reports twice.
PunctualInSilence ==
  channel.bursts = 0 /\ (\E e \in End : Outbox[e] = << >>)
    => \A e \in End : ~DeadlinePassed(e)

\* In the same quiet the messages confirmed are those delivered, in their order, and at
\* most the one under way is delivered and not yet confirmed: a new message is never
\* taken for one in the duplicate cache.
ConfirmedInSilence ==
  channel.bursts = 0 =>
    \A e \in End : Outbox[Peer(e)] = << >> =>
      \/ DeliveredLog(Peer(e)) = SentLog(e)
      \/ /\ link[e].tx.active
         /\ DeliveredLog(Peer(e)) = Append(SentLog(e), link[e].tx.payload)

\* No message is delivered twice, however long noise swallows the delivered ACKs: the
\* entry in the duplicate cache outlives every retransmission the budget allows.
DeliveredOnceInTime ==
  \A e \in End : \A i, j \in DOMAIN DeliveredLog(e) :
    DeliveredLog(e)[i] = DeliveredLog(e)[j] => i = j

\* However long the noise: a message that is not delivered yet when it ends for good,
\* with a retry left, is confirmed (not stuck behind the repeat guard, a backoff that
\* does not end, or frames that are played over).  A transfer before it that was
\* abandoned is another matter: the two share a message id.
OutageSurvived ==
  \A e \in End : \A n \in 1 .. Len(Outbox[e]) :
    /\ NoneAbandoned(e) /\ ~Holds(Peer(e), Outbox[e][n])
    /\ channel.bursts = Bursts /\ ~channel.noisy
    /\ link[e].submitted = n /\ link[e].tx.active /\ link[e].deadline_set
    /\ link[e].tx.retries < MaxRetries /\ link[e].hello_retries < MaxRetries
    ~> \E i \in DOMAIN SentLog(e) : SentLog(e)[i] = Outbox[e][n]

=============================================================================
