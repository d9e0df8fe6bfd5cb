# Models and proofs of kilix-acoustic-link

The repository holds one component, `components/kilix-acoustic-link`: a C library
that carries short messages between two machines over sound, and a diagnostic
tool around it. This directory models its protocol, its timing, its frames, the
engines it shares with other links and its child-process adapter in TLA+, checks
them with TLC on small instances, and proves the central invariants with TLAPS for
every value of the constants.

Paths below are relative to `src/components/kilix-acoustic-link/`.

## 1. Inventory

| Component | State | Operations | Talks to | Modelled in |
| --- | --- | --- | --- | --- |
| Link (`src/kal_link.c`) | `struct kal_link`: session, one outbound transfer, one reassembly, duplicate cache, staging buffer, outbound frame queue, one deadline, repeat guard | `kal_send`, `kal_beacon`, `kal_cancel`, `kal_receive`, `kal_link_reset`, `kal_tick`, `kal_rx_push_s16`, `kal_tx_pull_s16`, six frame handlers | codec, modem, random source, SHA-256, the application, the peer over the air | `KalLink`, `KalTimed` |
| Frame codec (`src/kal_frame.c`) | none | encode, decode, validate, capability word, segment count | link | `KalFrame`, `KalWire` |
| Modem adapter (`src/kal_modem.c`) | one ggwave instance, chunk buffer, process-wide frame-size cache | create, free, encode, feed, busy, reset | ggwave, link | `KalModem`, `KalTimed` |
| ggwave (`third_party/`) | table of 4 instances per process, shared by all threads without a lock | vendored | modem adapter | external |
| Random source, SHA-256 | none | draw, digest | link | by what they decide |
| Audio child adapter (`tools/kal_audio.c`) | one handle per child: pid, pipe end | spawn, read, write, close | pw-cat, parec, pacat, arecord, aplay, sox | `KalAudio` |
| Channel impairment (`tools/kal_channel.c`) | seed, filter memory | apply | tests, tool | no: floating point |
| Command line tool (`tools/kal_cli.c`) | none across calls | probe, send, receive, loopback, ... | all of the above | no: a driver over the API |
| Tests, release guard, scripts | | | | no |

What is hard here, and what makes each component correct:

* **Link.** Two ends act independently, each on its own view of one session; every
  frame may be lost, a deadline may pass while its answer is on the way, a message
  may be cancelled, or either end reset, with frames in the air. Correct means:
  nothing is delivered twice, nothing is delivered that was not sent, what waits to
  be collected is not overwritten, what the sender believes acknowledged is what the
  receiver holds, both ends are in one session with one window, and a transfer ends.
* **Timing.** Timeouts, backoff, cache lifetimes and the repeat guard are all derived
  from one airtime and must fit each other: a timeout covers what it waits for, a
  cached delivery outlives the retransmissions it answers, the guard takes no genuine
  retransmission.
* **Codec.** Every frame the link builds must satisfy the rules the codec enforces,
  or it is dropped in silence again and again; segment counts at the boundaries; one
  frame has one encoding.
* **Modem.** A budget of four engine instances per process, creation that can fail
  between any two of its steps, a size query that leaves an instance deaf.
* **Audio children.** The host and its children run concurrently; a child may exit,
  hang or ignore SIGTERM at any point of teardown. Correct means: teardown returns,
  the child is reaped, no descriptor leaks and no signal goes to a stranger.

`PROJECT.json` lists the hazards one by one, at the line where each bites, with the
properties that watch it.

## 2. Modules

| Module | Contents |
| --- | --- |
| `KalFrame` | wire constants, capability word, `kal_segment_count`, the canonical-form rules of `validate` |
| `KalWire` | the 64 bytes of a frame: `kal_frame_encode` and `kal_frame_decode` |
| `KalLink` | the two ends and the air between them |
| `KalDelivery` | the abstract specification: what a pair of links promises the applications |
| `KalLinkDelivery` | the refinement mapping from `KalLink` to `KalDelivery` |
| `KalTimed` | `KalLink` under one clock: timeouts, backoff, lifetimes, repeat guard, noise |
| `KalModem` | creation and freeing of links over the shared table of engines |
| `KalAudio` | a host and its audio children; checked directly, its constants are sets and numbers |
| `MCLink`, `MCTimed`, `MCModem` | values for the constants |
| `KalFrameProofs`, `KalLinkProofs`, `KalTimedProofs`, `KalDeliveryProofs`, `KalModemProofs`, `KalAudioProofs` | theorems and proofs of the module each is named after; `KalFrameProofs` has those of `KalWire` too |
| `KalSessionProofs` | on top of `KalLinkProofs`: every step of `KalLink` is a `Step` of one end; sessions, and what `kal_tx_status` tells |
| `KalPromiseProofs` | on top of `KalSessionProofs`: what is delivered and confirmed, and the refinement of `KalDelivery` |

### KalLink

The state of one end is a record with the fields of `struct kal_link`, nested as
`tx`, `rx` and `stats`. Each function of the source is an operator of the same name
from the record before to the record after, so that a handler and everything it calls
is one step: `handle_data` includes the trailing `finish_rx_message`, which includes
the ACK it queues and the entry it stores. The variables are `link[e]` for both ends,
`air[e]` (what end e has played, oldest first), `drawn` (session ids used) and `spent`
(disturbances used).

| Action | Code |
| --- | --- |
| `Send`, `SendOpening`, `SendWithoutEntropy` | `kal_send`, in or out of session, with a random source that fails |
| `SendBeacon`, `Cancel`, `Reset`, `Collect` | `kal_beacon`, `kal_cancel`, `kal_link_reset`, `kal_receive` |
| `Expire` | `advance_time` past an armed deadline, from `kal_tick` or a PCM call |
| `Age` | the oldest duplicate-cache entry reaches its expiry |
| `Pull` | `kal_tx_pull_s16` takes a frame from the queue |
| `Hear` | `kal_rx_push_s16` decodes a frame and `handle_frame` dispatches it |
| `Lose` | noise, a failed CRC or the repeat guard takes a frame |

Abstractions, all of them data or time:

* A payload is the message it was cut from. A digest matches exactly when all
  segments of a reassembly are those of one message (`Assembled`, `Intact`): this
  assumes SHA-256 has no collisions among the messages sent.
* An armed deadline may expire at any moment, and a cache entry may age at any
  moment: every schedule the real clock allows is included, and some it does not.
  `KalTimed` has the clock.
* The air is a lossy FIFO in each direction: sound does not overtake sound, and no
  frame is duplicated by the channel (a copy comes from a retransmission). Half
  duplex is not assumed; a collision is the loss of a frame.
* Session ids never repeat (32 random bits); the challenge goes with the id.
* The cancel reason and the statistics that no decision reads are left out.
  `stats.messages_sent` and `stats.messages_delivered` are kept as sequences of
  messages where the code keeps counts; properties compare them. A beacon is staged
  and cached like a message and is not in the log.

### KalDelivery and KalLinkDelivery

`KalDelivery` is the promise without the protocol: for each direction what was
submitted, delivered and confirmed, a mailbox for one message at the other end, and
whether the promise still stands. `Deliver` delivers the next message submitted,
`Confirm` confirms the next one delivered; `GiveUp` and `Forget` void the promise,
after which the link may repeat a delivery or confirm a message that never arrived,
but still overwrites nothing. `DeliversAsPromised` says that `KalLink`, with sessions,
windows, ACKs, cache and retries hidden, implements it: every frame handled is one of
these steps or none. The promise to an end counts as broken when a transfer of it ended
in anything but a delivered ACK, or when an entry aged or an end was reset.

### KalTimed

Each step that changes a link is the step of `KalLink` of the same name, taken when
the clock says so. Time is kept as what is left: of the deadline, of each cache entry,
of the frame being played, since the last frame heard.

| Action | Code |
| --- | --- |
| `TimedSend`, `TimedCollect` | the application's calls, at once |
| `TimedExpire`, `TimedAge` | `advance_time`, `dup_lookup`, when the time has come and not before |
| `TimedPull` | `kal_tx_pull_s16` starts a frame; encoding it clears what the same engine was hearing |
| `TimedHear` | the frame has sounded for its airtime, undisturbed, and the guard lets it pass |
| `Suppress` | the repeat guard drops a frame equal to the last, within two airtimes |
| `Destroy` | noise was on at its end, or the receiver played over it |
| `Repeat` | the engine reports the last frame once more, within the two airtimes of the guard |
| `NoiseBegins`, `NoiseEnds` | a burst, of any length |
| `Elapse` | time passes to the next thing awaited, when no host has anything to do |

`recompute_timeouts`, `arm_deadline`, the doubling in `advance_time` and its ceiling
are operators of their own (`base_timeout`, `Started`, `AfterFrame`, `AfterTimeout`).
`kal_modem_rx_busy` is FALSE here as in the build: the engine measures the duration of
variable-length transmissions only, and a KAL1 frame has a fixed length, so carrier
sense never holds a frame back and the two ends do talk over each other. A speaker is
not heard by the microphone beside it. A repeat comes before the next frame is complete, as
the comment on the guard describes it (`kal_link.c:117-123`); one that came after the next
frame had been decoded would find the guard set by that frame, and is not modelled.

### KalModem

`engine` is ggwave's table, `cache` the measured frame sizes, `link[l]` where the
thread that owns link l is inside `kal_link_create`, `query_frame_samples` and
`kal_modem_create`, with the instances it holds.

| Action | Code |
| --- | --- |
| `kal_link_create` | the call begins; the size is in the cache or must be measured |
| `FindProbe`, `OpenProbe`, `Query`, `FreeProbe` | `query_frame_samples`: `ggwave_init` in two steps (find, occupy), the size query, `ggwave_free` |
| `FindInstance`, `OpenInstance` | `kal_modem_create`: the working instance |
| `Allocate` | the modem's buffers, the link's arrays; each may fail, and then gives back what the call took |
| `kal_link_free` | the end of a link's life |

With `Overlap` FALSE a call runs to its end before the next begins, as in a program
with one thread, or with a lock of its own around these calls. With TRUE the calls of
two threads interleave.

### KalAudio

`host` is where the single-threaded caller is inside `kal_audio_*`; `handle`, `proc`,
`pipe` and `signals` describe each child; `ends[c]` is the set of processes that hold
the host's end of c's pipe, which is how descriptor inheritance across fork and exec
becomes visible; `inherited` is what the host was started with for SIGPIPE and SIGCHLD,
which nothing in the source sets. Time is counted in polls of `waitpid(WNOHANG)`, data
in blocks: a finite number of polls, which every timeout is but those whose limit in
microseconds is above 4294966000, where the counter of the loop wraps before it gets there. A child may exec late or fail to, stop streaming, exit, and catch SIGTERM.
The last, blocking wait may be interrupted by a handler of the caller
(`AwaitInterrupted`) or find no child because SIGCHLD is ignored (`AwaitFails`); a
playback child that is gone makes a write fail or, with SIGPIPE at its default, ends
the host (`WriteFails`). A failing pipe or fork leaves no state behind and is not an
action.

### KalFrame and KalWire

`validate` is a predicate with one operator per frame type. `KalWire` encodes and
decodes byte by byte: header fields most significant byte first, payload, zero padding,
CRC. `kal_crc32c` is a constant operator, any function of the 60 bytes it covers to 32
bits. Only the proofs use this module; to `KalLink` a damaged frame is one the receiver
never sees.

## 3. Runs

A run is one question. Bounds are given in the `.cfg`; those of the environment
(`Limit`) say how many frames are lost, messages cancelled, resets and so on, one for
each kind and one for all together.

| Run | Question | Instance |
| --- | --- | --- |
| `MCTransfer` | Do sender and receiver agree on what is acknowledged, and does the link deliver as promised, under eager timers? | two messages of three segments, window 2, retry budget 1, two frames in the air, two losses |
| `MCDisturbed` | Does delivery stay as promised, exactly-once and intact, and does what waits to be collected stay, under loss, cancel, reset, beacon, ageing and a failing random source? | messages both ways (two and one), two segments, windows 4 and 3, an outbound queue of 4, any two disturbances of different kinds |
| `MCInitiators` | Does one session survive two initiators, does the message of the one that wins arrive, and does every transfer end, and tell so, when losses exceed the budget? | one message from each end, retry budget 2, three losses |
| `MCRecovery` | Is every message confirmed as long as losses stay below the budget? | three messages, four losses, retry budget 5 |
| `MCTimed` | Do the timers fit each other through an outage of any length? | two messages of three segments and one, window 2, an airtime of 4 units, one burst of noise of any length, one repeated frame, retry budget 4, a cache of one entry |
| `MCModem` | Is every engine given back, usable and able to hear, wherever a creation fails? | five links, two profiles, four slots, calls that do not overlap |
| `AudioTeardown` | Does closing a child always return, cleanly? | a capture and a playback child, two polls per stage |
| `FalseConfirmation` | refutes `ConfirmedWasDelivered` | one cancel |
| `BeaconCollision` | refutes `SuppressedWasDelivered` | one beacon |
| `StrandedTransfer` | refutes `TransferResolves` | no disturbance; window 1 and a peer that accepts only short messages |
| `RepeatDelivery` | refutes `DeliveredOnceInTime` | the default retry budget of 5, window 4, one message of two segments, one burst |
| `SharedEngine` | refutes `AtMostAllSlots` | three links, two slots, two threads at once |

Why these bounds are enough: three segments and a window of two give a partial ACK
with a gap, a cumulative base that jumps and a final segment in a window of its own;
two messages with the same number of segments are the smallest instance in which one
reassembly can mix two messages or a stale ACK can meet the next transfer; queues of
four or six frames overflow; a cache of one or two entries evicts; a retry budget of
one reaches both a retry and the end of the budget, and three losses against a budget of two
give up a HELLO or a transfer in session. One loss in each direction of one
exchange is the classical hard case, and two losses include it. Five links on four
slots are one too many, and two profiles give a creation with and without a probe. An
airtime of 4 makes the quarter of slack in a timeout a whole unit; the lengths that
matter (64 airtimes, two airtimes, eight base timeouts) keep their proportions.

`Patient` (in `MCDisturbed`, `MCRecovery` and others) lets a deadline expire only when
nothing is queued, in the air or waiting to be collected: the run then is about losses
and disturbances, not about timers set too short. `MCTransfer` runs without it, and
`PunctualTimeouts` proves that the code aims at the same: with one end
sending and no noise, no deadline passes before its answer has come. With traffic both
ways nothing guarantees it, and there `Patient` is a bound on the instance.

Deadlock is checked in `MCModem`. It is not in the others: a link with nothing left
to send, or a host whose children are all closed, really does stop.

### What the properties say

* `TypeOK` (`TimersOK` for the clock) also bounds the queue and the cache.
* `TxBookkeeping`: acked, inflight and base of a transfer never contradict each other.
* `AckedIsStored`: a segment marked acknowledged is in the peer's reassembly of that
  message, or the message has been delivered: as long as no transfer was abandoned, no
  end was reset and none cancelled (a CANCEL drops the reassembly), for messages not
  larger than the peer accepts.
* `DeliversAsPromised`: the refinement described above.
* `StagedUntilCollected`: only `kal_receive` or `kal_link_reset` takes a message out of
  the staging buffer; no step of either end overwrites or drops it.
* `DeliveredOnce`, `DeliveredIntact`, `OneSession`: as their names say; see the comments
  in `KalLink.tla`.
* `QueuedIsCanonical`: type, sequence, value and flag of what an end queues. The length of
  a payload follows from the frame type here; the theorems of `KalFrameProofs` are about
  the lengths.
* `BusyUnlessYielded`: a step that ends a transfer and leaves KAL_ERR_BUSY is one in which
  the end hears a HELLO that wins over its own (`handle_hello`), or finds the queue full
  for its HELLO (`open_session`). Every other one says how the transfer ended, the give-ups
  in `advance_time` among them.
* `EveryMessageConfirmed`: with losses below the budget every message is confirmed.
* `CollisionSurvived`: after two crossing HELLOs a message arrives, unless more frames are
  lost than the budget covers.
* `TransferResolves`: a transfer ends, also when losses exceed the budget.
* `PunctualInSilence`: a timeout covers what was queued and its answer in every phase.
* `ConfirmedInSilence`: with one end silent and the air undisturbed the messages confirmed
  are those delivered, and at most the one under way is delivered and not yet confirmed.
  The run sends two messages; that ids wrap is covered by `ConfirmationsTrue` only.
* `DeliveredOnceInTime`: the cached delivery outlives the retransmissions.
* `OutageSurvived`: a transfer that noise finds with a retry left is confirmed after it.
* `Spec` in `MCTimed`: every timed step is a step of `KalLink`, and so the guard swallows
  every repeat. What it drops beyond that is a loss to `KalLink`: whether a genuine
  retransmission survives the guard is `OutageSurvived`.
* `NoEngineLost`, `EveryLinkHears`, `EveryEngineUsable`: the table of engines.
* `NothingLeftBehind`, `SignalsReachTheChild`, `CloseReturns`, `PipeReallyCloses`:
  teardown of audio children.

Three conditions in them are not decoration. `NoneAbandoned`: a transfer that is
cancelled or times out leaves its message id in use, and the next message can then be
confirmed by the ACK of the last; `FalseConfirmation` is that behaviour. No aged
entry in `DeliveredOnce`: whether an entry outlives every retransmission is a
question of real time, and `DeliveredOnceInTime` asks it; it holds for a retry budget
of 4 and a window of 2, and `RepeatDelivery` shows it fail for the default budget of 5.
The default SIGCHLD in `SignalsReachTheChild`: with SIGCHLD ignored a child is gone
without a wait.

### Fairness

`KalLink.Fairness`: the audio loop keeps moving PCM and ticking, as the README's
usage loop and the simulation in `tests/test_link.c` do; so a queued frame is played,
a frame in the air is heard or lost, an expired deadline is noticed and a delivered
message is collected. Nothing makes the application send, cancel or reset, and losses
are bounded by `Limit`, never by fairness.

`KalTimed.TimedFairness`: the two hosts run and time passes. That is one weak fairness
condition on any end's step or `Elapse`, because a prompt host leaves no step undone
while time passes. Noise need neither begin nor end, and no repeat need happen.

`KalAudio.Fairness`: the host is scheduled while it is inside close, a forked child
gets as far as its exec, SIGKILL takes effect. Nothing is assumed of what a child
does: not that it reads, writes, exits or heeds SIGTERM; and nothing need interrupt a
wait.

`KalModem` has no liveness property and no fairness.

## 4. What the code does and its texts do not say

Each is a run that TLC refutes, with the quotation in `PROJECT.json`.

1. **FalseConfirmation.** Only a delivered ACK uses up a message id. After a cancel or
   a timeout the next message reuses it, and the late ACK of the abandoned message
   confirms the new one.
2. **BeaconCollision.** A beacon and the next message share a key in the receiver's
   duplicate cache; the message is answered as already delivered, with a zeroed frame.
3. **StrandedTransfer.** If the receiver discards a complete message (its
   `max_message_bytes` is smaller), all segments may already be acknowledged; the next
   deadline finds nothing to send again and is not armed again. `kal_tx_status` says
   KAL_ERR_BUSY for ever. The same early return (`kal_link.c:534-538`) strands a transfer
   whose session opens while the outbound queue is full, of beacons for instance: nothing
   is queued and no deadline armed.
4. **RepeatDelivery.** A cache entry lives 64 airtimes from the first delivery, and
   answering from it does not renew it. Five retries with backoff take longer, so a
   message whose delivered ACKs are all lost is delivered a second time.
5. **SharedEngine.** Two threads that create their links at the same time find the same
   free slot of the engine's table; more links come into being than it holds.

Also met, with no text to hold it against:

* An initiator that yields to another drops its message and keeps KAL_ERR_BUSY, and so
  does one that finds no room for its HELLO (`BusyUnlessYielded` shows that no other
  step does that).
* Of two initiators one may forget its session (a reset, or a HELLO that was given up)
  while the HELLO of the other is still in the air. It then accepts that HELLO although
  the other has already yielded to its own, and the two are in session under different
  ids. `OneSession` is therefore checked for two initiators that lose frames but are not
  reset, and give a HELLO up only when nothing is in the air (`Patient`), and for an initiator and a responder under resets.
* A CANCEL is applied without looking at its message id, so an end that gives up its
  own transfer also ends the reverse one.
* A receiver that was reset forgets what it delivered: the transfer under way is
  delivered again.
* A partial reassembly of a message whose cache entry has expired leaves the sender
  with KAL_ERR_TIMEOUT for a message that was delivered.
* Carrier sense never reports a frame under way, and encoding a frame clears the
  reception under way in the same engine.
* A creation that finds the table full says KAL_ERR_MODEM when the frame size is not
  cached yet and KAL_ERR_MEMORY when it is.
* Writing to a playback child that has exited ends the host by SIGPIPE unless it was
  started with the signal ignored. With SIGCHLD ignored `kal_audio_close` returns -1
  and may signal a pid that is no longer the child's.
* `kal_cli send --output-pcm` as an initiator writes only the HELLO: nothing answers.

## 5. What is proved

TLAPS checks, for every value of the constants that satisfies their ASSUMEs:

| Theorem | Statement |
| --- | --- |
| `KalLinkProofs!TypeCorrect` | `Spec => []TypeOK` |
| `KalLinkProofs!BooksBalance` | `Spec => []TxBookkeeping` |
| `KalLinkProofs!IntactDelivery` | `Spec => []DeliveredIntact` |
| `KalLinkProofs!StageNeverOverwritten` | `Spec => StagedUntilCollected` |
| `KalLinkProofs!QueuedCanonical` | `Spec => []QueuedIsCanonical` |
| `KalLinkProofs!OriginKept`, `BackPressureKept` | `Spec => []Sourced`, `Spec => []BackPressure` |
| `KalSessionProofs!SessionsHold` | the inductive invariant `Sessions` of the two sessions |
| `KalSessionProofs!SessionsAgree` | `Spec => []OneSession`, when one end is a responder |
| `KalSessionProofs!StatusTold` | `Spec => BusyUnlessYielded` |
| `KalPromiseProofs!PromisesHold` | the inductive invariant `Promises` of the deliveries |
| `KalPromiseProofs!PromiseKept` | `Spec => DeliversAsPromised`: `KalLink` implements `KalDelivery` |
| `KalPromiseProofs!MessagesOnce` | `Spec => []DeliveredOnce` |
| `KalPromiseProofs!AcksTrue` | `Spec => []AckedIsStored` |
| `KalTimedProofs!TimedImplementsLink` | `TimedSpec => Spec` |
| `KalTimedProofs!TimersKept` | `TimedSpec => []TimersOK` |
| `KalTimedProofs!PunctualTimeouts` | `TimedSpec => []PunctualInSilence` |
| `KalTimedProofs!ConfirmationsTrue` | `TimedSpec => []ConfirmedInSilence` |
| `KalDeliveryProofs!PromiseMeansInOrder` | `Spec => []InOrderOnce` (of `KalDelivery`) |
| `KalModemProofs!TypeCorrect`, `EnginesKept`, `LinksHear`, `EnginesUsable`, `LinksFit` | `TypeOK`, `NoEngineLost`, `EveryLinkHears`, `EveryEngineUsable` and `AtMostAllSlots`, as long as calls do not overlap |
| `KalAudioProofs!TypeCorrect` | `Spec => []TypeOK` |
| `KalAudioProofs!CleanTeardown` | `Spec => []NothingLeftBehind` |
| `KalAudioProofs!SignalsWellAimed` | `Spec => SignalsReachTheChild` |
| `KalAudioProofs!ClosedEndsVanish` | `Spec => []HeldBeforeExec /\ [][NothingHandedOn]_vars` |
| `KalFrameProofs!SegmentsExact`, `SegmentsValidate`, `TooLongRefused` | the segments of a message of any legal length: how many, and that each is canonical |
| `KalFrameProofs!CapabilityRoundTrip` | profile and window survive the capability word |
| `KalFrameProofs!DecodesWhatWasEncoded`, `OneEncoding` | decode undoes encode, and encode undoes decode: a frame has exactly one encoding |

**KalLink.** `TypeOK` is not inductive: that a delivered ACK logs a message needs a
transfer with a payload, that a retransmission queues only segments of the message
needs the books, and that the queue stays in bounds needs its bound before the step.
`Good(L, own, theirs, n, held, stage)` says of one end: it has its type, with payloads
from `own` on the way out and from `theirs` on the way in; its books balance; its queue
and cache are in bounds; nothing of `held` waits while it reassembles; what waits is in
`stage`; its application has submitted n messages. Each operator of `KalLink` has a lemma
that it keeps `Good`; a handler's lemma cites those of the operators it calls, so the
proof follows the call graph of the source. `IInv` says both ends are `Good` for what
the two applications have submitted so far, and that the air carries nothing else.
`Sourced`, `DeliveredIntact` and the rest follow. For `StageNeverOverwritten` the same
lemmas are used once more with a `stage` of m alone (`StageKept`): every operator but those
of `kal_receive` and `kal_link_reset`, started with m waiting, ends with m waiting. Canonical form is part of the type of a frame
(`Frame(own)`), so the same lemmas carry `QueuedCanonical`: a DATA sequence is below a
total between 1 and `MaxSegments`; the total of a reassembly comes from a canonical DATA
frame, so a delivered ACK names 1 to 94 segments and a partial ACK's base is at most
that; the capability word is the round trip of `KalFrameProofs`.

**KalLink: sessions.** The proofs about both ends start from one description of a step.
`Moves(L, R, heard, ids, sends)` says of one end, before and after: what happens to its
session (stays, draws an id, gives up, joins on a HELLO, opens on a HELLO_ACK), to its
transfer (stays, starts, is dropped, is confirmed), to what it receives (idle, leaves,
reassembles, delivers, takes a beacon, collects), and what it may queue (`Emits`), given
the frame it heard, the ids it drew and the message it was handed. Each operator of
`KalLink` has a lemma that it `Moves`, along the call graph of the source. `Steps` collects
them: every step of `Next` is a `Step` of one end, which adds what happens to the channel
(the air, then the queue): what is taken is its head, what is put goes behind everything
in it, and a reset or an aged entry is a step that `Forgets`. From there on no proof looks
at an action again.

`Sessions` has a part for each end and one for the pair. `Alone`: an id in use was drawn,
the window is the own one or the smaller of the two, in session always the smaller
(`CommonWindow`), and the HELLO_ACKs cached, queued and in the air say so. `Agree`, for an
initiator and a responder: once either is in the initiator's session, or the answer to its
HELLO is under way, no HELLO of an older session is in the channel any more, and a
responder in session is in that one. For two initiators `OneSession` is false once one of
them forgets its session (section 4), hence the assumption that one end is a responder;
`MCInitiators` checks the other case, without resets and with patient timers.

`StatusTold` is about the step that ends a transfer, so it needs no invariant beyond
`IInv` and no assumption. `Informs(L, R)` says of an operator that it does not leave a
transfer untold that it found told, or leaves the state of one that was untold already
as it was; most operators change nothing this depends on (`TellsAlike`), and the proof is
about those that do.

**KalLink: the promise.** `Promises` follows a message along its way, for each direction,
as long as no reset and no aged entry lets an end forget. Before the sender is in session
nothing of it is in the channel or at the peer (`Silent`), afterwards what is there is of
one session (`Settled`, `Answers`, `Bound`). Message ids travel in order (`Ordered`), so
nothing in the channel is older than the reassembly (`Above`) or than the key the receiver
cached last (`Marks`): an entry that is evicted is never asked for again, which is why a
cache of one entry is enough. And as long as no transfer was abandoned (`Promised`), the
logs of the two ends are prefixes of what was submitted, every segment in the channel
carries the message its id stands for, and every delivered ACK, cached or in the air, is
that of a message delivered. Each part has a lemma for the turn of the sender and one for
that of the receiver, over records and channels before and after (`Turning`) without any
variable; `StepPromises` puts them together for both directions.

`PromiseKept` then maps every step to one of `KalDelivery` or to none. `MessagesOnce` is not
a consequence of it, since it also holds after a cancel or a timeout, when an id is used
again and the promise is void: its invariant `Once` says that a message has one id, and
that what was delivered travels under no id above the key cached last.

`AcksTrue` follows the bits of an ACK. Its invariant `AllStored` is of the message after
those delivered, n of them, as long as no transfer was abandoned and no end has reset,
cancelled or lost a key of its cache. What the peer reassembles are segments of that
message under its id, with the total it has (`Reassembly`); a partial ACK in the channel
either has an id below that message's, and so is of one delivered, or marks only segments
the peer holds (`Stored`); what the sender has marked, the peer holds. A segment once
held is held until the message is delivered (`StoresOn`): the reassembly is dropped only
when its session is left, which `Bound` excludes, for a CANCEL, and none is under way
(`Hushed`), or when the message is larger than the peer accepts, which `Kept` leaves out.
`Spares` and `Keeps` say so of every operator but `handle_data`, `DataStores` of that one.
The cached partial ACK is part of `Reassembly`, since `RepeatSegment` queues it again
long after it was made: it stays true because a reassembly only grows.

What is assumed: `FewMessages`, fewer than 32768 messages from each end, because a message
and a beacon take an id each and ids wrap at 16 bits, after which a new id meets old
entries of the cache (a hazard in `PROJECT.json`); `Distinct` for `MessagesOnce`, that an
application does not itself send the same thing twice. Any window, queue, cache of at
least one entry, retry budget, any roles, and any number of losses, cancels and beacons
are covered.

**KalTimed.** Every action has a step or stutter of `KalLink` inside it; what is left is
to see that a repeat is one the guard takes as long as it remembers the frame. So all that is proved of `KalLink` holds by the clock.
`TimersKept` ties the lives to the cache: every operator of `KalLink` leaves the cache
alone, empties it or adds one entry (`Cached`), and `Expiries` follows it.

`PunctualTimeouts` says that a retransmission is never the fault of the timeout alone:
with one end silent and the air undisturbed no deadline passes. Its invariant
`InSilence` says that the sender s and its silent peer r are in step (`Lockstep`).
`Pair` knows their states, with what is on its way between them, the frame that sounds
and the queue (`Way`):

| Phase | Sender | On its way |
| --- | --- | --- |
| `Waiting` | has said nothing; a responder keeps its message for a session | nothing |
| `Greeting` | has sent its HELLO | the HELLO, or the HELLO_ACK |
| `Idle` | has no transfer | nothing |
| `Sending` | has `base` to `Upto` - 1 in flight | the segments from h on, and r holds those before |
| `Answered` | the same | the partial ACK of `Upto`, or the final one |

`InTime` is what the theorem is about: a deadline leaves more time than what is on its
way from s and one answer, or than what is left of the answer. `start_or_resume_tx`
establishes it, since n + 1 airtimes and a quarter of them are more than n frames and
an answer take (`TimeoutCovers`), and `Elapse` keeps it, taking as much from the
deadline as from the frame that sounds. That nothing answers late has reasons in all of
the link, which the other conjuncts hold: the cache must not take a new message for a
delivered one (`Remembered`: its keys are the ids of the last messages, and ids 2 apart
meet again after 32768 messages only); the guard must not drop what is new (`Apart`:
what either heard last is not what it hears next, in any phase); the staging buffer
must be free when a message is complete, or its segment goes unanswered (the conjunct
on `delivered`: it is collected before the final ACK has sounded); and neither end
plays over the other (`OneWay`: only one of the two has anything to send). There is a
lemma for each frame that either end can hear (`HelloPair`, `DataPair`, `GreetedPair`,
`NextBatchPair`, `ConfirmedPair`), one for `kal_send` (`SendPair`), and one for each
step of the clock (`...Lockstep`).

`Fits` is what the theorem assumes of the constants, and the code has all of it but for
two choices of its user. A quarter of two airtimes must be some time (`Airtime` at
least 2; a frame takes hundreds of milliseconds); a window fits the queue (16 frames
and 32) and a cache has fewer than 32768 entries (8). The user's choices are that both
ends have one profile, or each ignores the other's HELLO, and that the peer accepts
messages as large as those sent, or it answers with silence; in both cases the deadline
is meant to pass. The number of messages is not bounded.

So `ConfirmationsTrue` follows from the same invariant across every wrap of the ids,
which no run reaches: `Pair` has the log of the peer beside that of the sender, equal
but for the message whose final ACK is on its way.

**KalModem.** `IInv` adds to `TypeOK` and `NoEngineLost` that at most one link is in a
call, that the slot it found is still free and the one it opened still its own. That
the probe is never one too many is a count: the links alive hold different slots, so as
many as there are slots leave none free, and fewer leave one.

**KalDelivery.** `InOrderOnce` needs that the prefix relation is kept by each of the
three logs growing, which the guards of `Deliver` and `Confirm` give. Together with
`DeliversAsPromised` it says what the promise means to an application.

**KalAudio.** `NothingLeftBehind` needs to know that the child about to be freed is the
one just reaped: `Agrees(c)` ties handle, process and position of the host together.
`ClosedEndsVanish` is the safety half of `PipeReallyCloses`: an end the host has closed is
never copied again, and only children before their exec still have it. That they get as
far as their exec is fairness, and stays with TLC.

**KalWire.** Numbers are taken apart and put together byte by byte (`SplitByte`,
`JoinByte`). `OneEncoding` needs each check of `kal_frame_decode`, the zero padding
among them; the CRC may be any function. `DecodesWhatWasEncoded` assumes of it that its
value has 32 bits.

Only model-checked: every liveness property (fairness and ENABLED are outside what
TLAPS proves), and `DeliveredOnceInTime`. It asks that a cached delivery outlives every
retransmission of its message. `RepeatDelivery` shows that false for the retry budget
of the code, and an inequality under which it is true would have to bound the time a
frame spends in a queue: two queues of 32 frames, which take turns on the air, need
more than the 64 airtimes an entry lives, so such a theorem would have a hypothesis the
constants of the code never meet. It holds of the instance of `MCTimed`, where the
queues are short. No module that carries a proof uses RECURSIVE operators, and nothing
is proved by induction over data.

## 6. Not modelled

* **Command line tool.** One thread, one command, no state across calls; its loops
  pull, push and tick as the actions of `KalTimed` do. Options, files and printing are
  left out.
* **PCM.** A frame is pulled and pushed whole: the chunk buffer of `kal_modem_rx_feed`,
  the pending samples of `kal_tx_pull_s16` and `kal_modem_rx_reset` carry no decision
  of the protocol. The test passthrough is compiled only into the tests.
* **Threads** other than at creation: one thread owns one link.
* **Crosstalk** of a speaker into the microphone beside it: the channel between two
  machines is modelled, their rooms are not.
* **CRC-32C and SHA-256** as arithmetic: both are modelled by what they decide, and the
  published vectors in the tests cover the rest.
* **Signal processing**: ggwave and the impairment model (`tools/kal_channel.c`) are
  floating-point arithmetic.
* **Scripts, packaging, the fuzz target**: no run-time state.

## 7. What could follow

A bound on the frames an end has queued at once that is tighter than the queue itself, and
with it the retry budgets for which `DeliveredOnceInTime` holds. The promises of
`KalPromiseProofs` without `FewMessages`: `Remembered` does so with one end silent, by
keys that are apart from each other where `Once` has them in order.
