--------------------------- MODULE KalPromiseProofs --------------------------
(* What the link promises the applications: messages in order and once, and *)
(* nothing confirmed that was not delivered.  Keys are followed through the *)
(* channels, the reassembly and the cache, up to the refinement of the      *)
(* mailbox (KalLinkDelivery), the absence of duplicates and what a sender   *)
(* may conclude from a partial ACK.                                         *)
EXTENDS KalSessionProofs

----------------------------------------------------------------------------
(* What a turn does to a pair of ends that agree.                          *)

\* What Sessions says of an end L with the channel c and its peer M with k.
Known(L, c, M, k, ids) ==
  /\ AckKept(L)
  /\ L.role \in {"initiator", "responder"}
  /\ L.role = "responder" => ~L.hello_pending
  /\ ~(L.session_open /\ L.hello_pending)
  /\ L.session_open \/ L.hello_pending => L.session_id \in ids
  /\ L.hello_ack_valid => /\ L.session_open /\ L.hello_ack_cached.type = "HELLO_ACK"
                          /\ L.hello_ack_cached.session_id = L.session_id
  /\ \A g : Has(c, g) /\ g.type = "HELLO" => L.role = "initiator" /\ g.session_id \in ids
  /\ \A g : Has(c, g) /\ g.type = "HELLO_ACK" => g.session_id \in ids
  /\ L.role = "initiator" /\ M.role = "responder" => Agree(L, c, M, k)
  /\ L.role = "responder" /\ M.role = "responder" => ~L.session_open

\* Sessions says of an end and its peer what Known does.
LEMMA SessionsKnown ==
  ASSUME Sessions, NEW e \in End
  PROVE  Known(link[e], Channel(e), link[Peer(e)], Channel(Peer(e)), drawn)
<1>1. Peer(e) \in End  BY PeerType
<1>2. link[e].role = Role[e] /\ link[Peer(e)].role = Role[Peer(e)]
  BY <1>1 DEF Sessions, Alone
<1>3. Role[e] \in {"initiator", "responder"}  BY WindowFacts
<1>4. Alone(link[e], Channel(e), Role[e], clamp_window(Window[e]), CommonWindow(e), drawn)
  BY DEF Sessions
<1>5. /\ Role[e] = "initiator" /\ Role[Peer(e)] = "responder" =>
           Agree(link[e], Channel(e), link[Peer(e)], Channel(Peer(e)))
      /\ Role[e] = "responder" /\ Role[Peer(e)] = "responder" => ~link[e].session_open
  BY <1>1 DEF Sessions
<1> QED  BY <1>2, <1>3, <1>4, <1>5 DEF Known, Alone

\* A turn of L, which sends by c and hears by k, to R.
Turning(L, R, M, c, c1, k, k1, heard, new, sends, ids) ==
  /\ L \in EndState(Message, Message) /\ R \in EndState(Message, Message)
  /\ M \in EndState(Message, Message)
  /\ \A g : Has(c, g) \/ Has(k, g) => g \in AnyFrame
  /\ Known(L, c, M, k, ids) /\ Known(M, k, L, c, ids)
  /\ Known(R, c1, M, k1, ids \cup new) /\ Known(M, k1, R, c1, ids \cup new)
  /\ ids \cap new = {}
  /\ \A f, g \in heard : f = g
  /\ heard # {} => new = {} /\ sends = {}
  /\ Takes(heard, k, k1) /\ Puts(L, R, heard, c, c1)
  /\ Turns(L, R, heard, new, sends)

Keyed(g) == g.type \in {"DATA", "BEACON"}

\* What can be said of a frame by its type.
LEMMA EmitsWhat ==
  ASSUME NEW L, NEW R, AckKept(L), NEW heard, NEW g, Emits(L, R, heard, g),
         NEW c, NEW M, NEW k, NEW ids, Known(R, c, M, k, ids)
  PROVE  /\ Keyed(g) => g.session_id = R.session_id
         /\ g.type = "BEACON" => g.message_id = R.next_message_id
         /\ g.type = "DATA" => /\ R.tx.active /\ Carries(R, g)
                               /\ R.session_open \/ L.tx.started \/ \E f \in heard : f.type = "ACK"
         /\ g.type = "ACK" => \/ /\ ~g.flag /\ \E f \in heard : f.type = "DATA"
                                 /\ R.rx.ack_valid /\ g = R.rx.ack_cached
                              \/ \E i \in DOMAIN R.dup_cache : g = R.dup_cache[i].ack
         /\ g.type = "HELLO_ACK" => R.session_open /\ g.session_id = R.session_id
<1>1. AckKept(R)  BY DEF Known
<1>2. R.hello_ack_valid => /\ R.session_open /\ R.hello_ack_cached.type = "HELLO_ACK"
                           /\ R.hello_ack_cached.session_id = R.session_id
  BY DEF Known
<1>3. CASE g.type = "HELLO" /\ R.hello_pending /\ g.session_id = R.session_id  BY <1>3 DEF Keyed
<1>4. CASE R.hello_ack_valid /\ g = R.hello_ack_cached  BY <1>2, <1>4 DEF Keyed
<1>5. CASE /\ R.tx.active /\ Carries(R, g)
           /\ R.session_open \/ L.tx.started \/ \E f \in heard : f.type = "ACK"
  BY <1>5 DEF Carries
<1>6. CASE g.type = "BEACON" /\ g.session_id = R.session_id /\ g.message_id = R.next_message_id
  BY <1>6
<1>7. CASE g.type = "CANCEL"  BY <1>7 DEF Keyed
<1>8. CASE R.rx.ack_valid /\ g = R.rx.ack_cached /\ \E f \in heard : f.type = "DATA"
  BY <1>1, <1>8 DEF AckKept, Keyed
<1>9. CASE \E i \in DOMAIN R.dup_cache : g = R.dup_cache[i].ack
  BY <1>1, <1>9 DEF AckKept, FinalOrNone, Keyed
<1> QED  BY <1>3, <1>4, <1>5, <1>6, <1>7, <1>8, <1>9 DEF Emits

\* What is heard is one frame, from the peer.
LEMMA HeardOne ==
  ASSUME NEW L, NEW R, NEW M, NEW c, NEW c1, NEW k, NEW k1, NEW heard, NEW new, NEW sends, NEW ids,
         Turning(L, R, M, c, c1, k, k1, heard, new, sends, ids), NEW f \in heard
  PROVE  /\ heard = {f} /\ new = {} /\ sends = {} /\ Has(k, f)
         /\ \A g : Has(k1, g) => HasBehind(k, f, g)
BY DEF Turning, Takes

\* A session that an initiator has opened, or that a responder has been called to by its
\* peer, is not left in a turn.
LEMMA SessionStays ==
  ASSUME NEW L, NEW R, NEW M, NEW c, NEW c1, NEW k, NEW k1, NEW heard, NEW new, NEW sends, NEW ids,
         Turning(L, R, M, c, c1, k, k1, heard, new, sends, ids), L.session_open
  PROVE  /\ R.session_open
         /\ \/ L.role = "initiator" \/ M.session_id = L.session_id
            => R.session_id = L.session_id /\ ~Joins(L, R, heard)
<1>1. /\ L.role \in {"initiator", "responder"} /\ M.role \in {"initiator", "responder"}
      /\ ~L.hello_pending
  BY DEF Turning, Known
<1>2. CASE Joins(L, R, heard)
  <2>1. PICK f \in heard : f.type = "HELLO" /\ f.session_id # L.session_id
                           /\ L.role # "initiator" /\ R.session_open
    BY <1>1, <1>2 DEF Joins
  <2>2. Has(k, f)  BY <2>1, HeardOne
  <2>3. M.role = "initiator"  BY <2>1, <2>2 DEF Turning, Known
  <2>4. L.role = "responder"  BY <1>1, <2>1
  <2>5. Agree(M, k, L, c)  BY <2>3, <2>4 DEF Turning, Known
  <2>6. M.session_id # L.session_id  BY <2>1, <2>2, <2>5 DEF Agree
  <2> QED  BY <2>1, <2>6
<1>3. CASE SameSession(L, R) \/ Draws(L, R, new) \/ GivesUp(L, R) \/ Opens(L, R, heard)
  <2>1. R.session_open /\ R.session_id = L.session_id
    BY <1>1, <1>3 DEF SameSession, Draws, GivesUp, Opens
  <2>2. CASE Joins(L, R, heard)
    <3>1. R.session_id # L.session_id  BY <1>2, <2>2 DEF Joins
    <3> QED  BY <2>1, <2>2, <3>1
  <2> QED  BY <2>1, <2>2
<1> QED  BY <1>2, <1>3 DEF Turning, Turns, MovesSession

\* A frame with a key leaves the session as it is.
LEMMA KeyedKeeps ==
  ASSUME NEW L, NEW R, NEW M, NEW c, NEW c1, NEW k, NEW k1, NEW heard, NEW new, NEW sends, NEW ids,
         Turning(L, R, M, c, c1, k, k1, heard, new, sends, ids), NEW f \in heard, Keyed(f)
  PROVE  R.session_id = L.session_id /\ R.session_open = L.session_open
<1>1. heard = {f} /\ new = {}  BY HeardOne
<1>2. f.type # "HELLO" /\ f.type # "HELLO_ACK"  BY DEF Keyed
<1> QED
  BY <1>1, <1>2 DEF Turning, Turns, MovesSession, SameSession, Draws, GivesUp, Joins, Opens

\* What is queued in a turn.
LEMMA EmitsInTurn ==
  ASSUME NEW L, NEW R, NEW M, NEW c, NEW c1, NEW k, NEW k1, NEW heard, NEW new, NEW sends, NEW ids,
         Turning(L, R, M, c, c1, k, k1, heard, new, sends, ids),
         NEW g, Emits(L, R, heard, g)
  PROVE  /\ Keyed(g) => g.session_id = R.session_id
         /\ g.type = "BEACON" => g.message_id = R.next_message_id
         /\ g.type = "DATA" => /\ R.tx.active /\ Carries(R, g)
                               /\ R.session_open \/ L.tx.started \/ \E f \in heard : f.type = "ACK"
         /\ g.type = "ACK" => \/ /\ ~g.flag /\ \E f \in heard : f.type = "DATA"
                                 /\ R.rx.ack_valid /\ g = R.rx.ack_cached
                              \/ \E i \in DOMAIN R.dup_cache : g = R.dup_cache[i].ack
         /\ g.type = "HELLO_ACK" => R.session_open /\ g.session_id = R.session_id
<1>1. Known(L, c, M, k, ids) /\ Known(R, c1, M, k1, ids \cup new)  BY DEF Turning
<1>2. AckKept(L)  BY <1>1 DEF Known
<1> DEFINE all == ids \cup new
<1>3. Known(R, c1, M, k1, all)  BY <1>1
<1> HIDE DEF all
<1> QED  BY <1>2, <1>3, EmitsWhat

\* An initiator i that is in session, or is about to be, finds the responder r in it;
\* what r sends behind the answer belongs to it.
Answers(i, r, k) ==
  /\ i.session_open \/ Answered(i, k) => r.session_open /\ r.session_id = i.session_id
  /\ \A g, h : HasBehind(k, g, h) /\ g.type = "HELLO_ACK" /\ g.session_id = i.session_id
               /\ Keyed(h) => h.session_id = i.session_id
  /\ i.session_open => \A g : Has(k, g) /\ Keyed(g) => g.session_id = i.session_id

\* A turn of the initiator.
LEMMA AnswersInitiator ==
  ASSUME NEW L, NEW R, NEW M, NEW c, NEW c1, NEW k, NEW k1, NEW heard, NEW new, NEW sends, NEW ids,
         Turning(L, R, M, c, c1, k, k1, heard, new, sends, ids),
         L.role = "initiator", M.role = "responder", Answers(L, M, k)
  PROVE  Answers(R, M, k1)
<1>1. /\ \A g : Has(k1, g) => Has(k, g)
      /\ \A g, h : HasBehind(k1, g, h) => HasBehind(k, g, h)
  BY DEF Turning, Takes
<1>2. CASE R.session_id = L.session_id /\ (R.session_open => L.session_open)
  BY <1>1, <1>2 DEF Answers, Answered
<1>3. CASE Draws(L, R, new)
  <2>1. \A g : Has(k, g) /\ g.type = "HELLO_ACK" => g.session_id # R.session_id
    BY <1>3 DEF Turning, Known, Draws
  <2>2. \A g, h : HasBehind(k1, g, h) => Has(k, g)  BY <1>1, BehindHas
  <2>3. ~R.session_open  BY <1>3 DEF Draws
  <2> QED  BY <1>1, <2>1, <2>2, <2>3 DEF Answers, Answered
<1>4. CASE Opens(L, R, heard)
  <2>1. PICK f \in heard : f.type = "HELLO_ACK" /\ f.session_id = L.session_id
                           /\ R.session_id = L.session_id
    BY <1>4 DEF Opens
  <2>2. Has(k, f) /\ \A g : Has(k1, g) => HasBehind(k, f, g)  BY HeardOne
  <2>3. M.session_open /\ M.session_id = R.session_id  BY <2>1, <2>2 DEF Answers, Answered
  <2>4. \A g : Has(k1, g) /\ Keyed(g) => g.session_id = R.session_id
    BY <2>1, <2>2 DEF Answers
  <2>5. \A g, h : HasBehind(k1, g, h) /\ g.type = "HELLO_ACK" /\ g.session_id = R.session_id
               /\ Keyed(h) => h.session_id = R.session_id
    BY <1>1, <2>1 DEF Answers
  <2> QED  BY <2>3, <2>4, <2>5 DEF Answers
<1>5. ~Joins(L, R, heard)
  <2>1. \A f \in heard : Has(k, f)  BY HeardOne
  <2>2. \A f \in heard : f.type # "HELLO"  BY <2>1 DEF Turning, Known
  <2> QED  BY <2>2 DEF Joins
<1> QED  BY <1>2, <1>3, <1>4, <1>5 DEF Turning, Turns, MovesSession, SameSession, GivesUp

\* A turn of the responder.
LEMMA AnswersResponder ==
  ASSUME NEW L, NEW R, NEW M, NEW c, NEW c1, NEW k, NEW k1, NEW heard, NEW new, NEW sends, NEW ids,
         Turning(L, R, M, c, c1, k, k1, heard, new, sends, ids),
         L.role = "responder", M.role = "initiator", Answers(M, L, c)
  PROVE  Answers(M, R, c1)
<1>1. \A g : Has(c1, g) => Has(c, g) \/ Emits(L, R, heard, g)  BY DEF Turning, Puts
<1>2. \A g, h : HasBehind(c1, g, h) => HasBehind(c, g, h) \/ (Emits(L, R, heard, h) /\ Has(c1, g))
  BY BehindHas DEF Turning, Puts
<1>4. M.session_open \/ Answered(M, c1) => R.session_open /\ R.session_id = M.session_id
  <2>1. CASE M.session_open \/ Answered(M, c)
    <3>1. L.session_open /\ L.session_id = M.session_id  BY <2>1 DEF Answers
    <3> QED  BY <3>1, SessionStays
  <2>2. ASSUME NEW g, Has(c1, g), g.type = "HELLO_ACK", g.session_id = M.session_id, ~Has(c, g)
        PROVE  R.session_open /\ R.session_id = M.session_id
    <3>1. Emits(L, R, heard, g)  BY <1>1, <2>2
    <3> QED  BY <2>2, <3>1, EmitsInTurn
  <2> QED  BY <2>1, <2>2 DEF Answered
<1>5. \A h : Emits(L, R, heard, h) /\ Keyed(h) => h.session_id = R.session_id
  BY EmitsInTurn
<1>6. ASSUME NEW g, NEW h, HasBehind(c1, g, h), g.type = "HELLO_ACK", g.session_id = M.session_id,
             Keyed(h)
      PROVE  h.session_id = M.session_id
  <2>1. CASE HasBehind(c, g, h)  BY <1>6, <2>1 DEF Answers
  <2>2. CASE Emits(L, R, heard, h) /\ Has(c1, g)
    BY <1>4, <1>5, <1>6, <2>2 DEF Answered
  <2> QED  BY <1>2, <1>6, <2>1, <2>2
<1>7. ASSUME M.session_open, NEW g, Has(c1, g), Keyed(g) PROVE g.session_id = M.session_id
  BY <1>1, <1>4, <1>5, <1>7 DEF Answers
<1> QED  BY <1>4, <1>6, <1>7 DEF Answers

----------------------------------------------------------------------------
(* Keys.  What follows is about the messages of one end, e, which go by the*)
(* channel c to its peer d, whose ACKs come by k.                          *)

Touched(d) == d.rx.active \/ d.stats.messages_delivered # << >>

LastKey(d) == d.dup_cache[Len(d.dup_cache)]

\* Out of session, e has said nothing that d could answer.
Silent(e, c, d, k) ==
  ~e.session_open =>
    /\ ~e.tx.started /\ ~Touched(d)
    /\ \A g : Has(c, g) => g.type # "DATA"
    /\ \A g : Has(k, g) => g.type # "ACK"
    /\ \A i \in DOMAIN d.dup_cache : d.dup_cache[i].ack.type # "ACK"

\* A segment of an initiator is of its session, and what follows it too.
Settled(e, c) ==
  e.role = "initiator" =>
    /\ \A g : Has(c, g) /\ g.type = "DATA" => g.session_id = e.session_id
    /\ \A g, h : HasBehind(c, g, h) /\ g.type = "DATA" /\ Keyed(h) => h.session_id = e.session_id

\* A turn of the sender: out of session it sends no segment.
LEMMA SilentSender ==
  ASSUME NEW L, NEW R, NEW M, NEW c, NEW c1, NEW k, NEW k1, NEW heard, NEW new, NEW sends, NEW ids,
         Turning(L, R, M, c, c1, k, k1, heard, new, sends, ids), Silent(L, c, M, k)
  PROVE  Silent(R, c1, M, k1)
<1> SUFFICES ASSUME ~R.session_open
             PROVE  /\ ~R.tx.started /\ ~Touched(M)
                    /\ \A g : Has(c1, g) => g.type # "DATA"
                    /\ \A g : Has(k1, g) => g.type # "ACK"
                    /\ \A i \in DOMAIN M.dup_cache : M.dup_cache[i].ack.type # "ACK"
  BY DEF Silent
<1>1. ~L.session_open  BY SessionStays
<1>2. \A f \in heard : f.type # "ACK"  BY <1>1, HeardOne DEF Silent
<1>3. ~R.tx.started  BY <1>1, <1>2 DEF Silent, Turning, Turns
<1>4. ASSUME NEW g, Has(c1, g) PROVE g.type # "DATA"
  <2>1. CASE Has(c, g)  BY <1>1, <2>1 DEF Silent
  <2>2. CASE Emits(L, R, heard, g)
    <3>2. g.type = "DATA" => R.session_open \/ L.tx.started \/ \E f \in heard : f.type = "ACK"
      BY <2>2, EmitsInTurn
    <3> QED  BY <1>1, <1>2, <3>2 DEF Silent
  <2> QED  BY <1>4, <2>1, <2>2 DEF Turning, Puts
<1>5. \A g : Has(k1, g) => Has(k, g)  BY DEF Turning, Takes
<1> QED  BY <1>1, <1>3, <1>4, <1>5 DEF Silent

\* The cache after a receipt that is not a delivery holds no new ACK, and nothing comes
\* to be touched without a segment.
LEMMA UntouchedStays ==
  ASSUME NEW L, NEW R, NEW M, NEW c, NEW c1, NEW k, NEW k1, NEW heard, NEW new, NEW sends, NEW ids,
         Turning(L, R, M, c, c1, k, k1, heard, new, sends, ids),
         \A f \in heard : f.type # "DATA"
  PROVE  /\ Touched(R) => Touched(L)
         /\ \A i \in DOMAIN R.dup_cache : R.dup_cache[i].ack.type = "ACK" =>
              \E j \in DOMAIN L.dup_cache : R.dup_cache[i] = L.dup_cache[j]
<1>1. ~NoRx.active /\ ZeroFrame.type # "ACK"  BY DEF NoRx, ZeroFrame
<1>2. ~Reassembles(L, R, heard) /\ ~Delivers(L, R, heard)  BY DEF Reassembles, Delivers, Fresh
<1>3. CASE Idles(L, R)  BY <1>1, <1>3 DEF Idles, Touched, SameDeliveries
<1>4. CASE Leaves(L, R, heard)  BY <1>1, <1>4 DEF Leaves, Touched, SameDeliveries
<1>5. CASE TakesBeacon(L, R, heard)
  <2>1. PICK key : /\ key.ack = ZeroFrame /\ Remembers(L, R, key) /\ R.rx = L.rx
                   /\ R.stats.messages_delivered = L.stats.messages_delivered
    BY <1>5 DEF TakesBeacon
  <2>2. L.dup_cache \in Seq(DupEntry)  BY DEF Turning, EndState
  <2>3. \A i \in DOMAIN R.dup_cache :
          R.dup_cache[i] = key \/ \E j \in DOMAIN L.dup_cache : R.dup_cache[i] = L.dup_cache[j]
    BY <2>1, <2>2, RemembersWhat
  <2> QED  BY <1>1, <2>1, <2>3 DEF Touched
<1>6. CASE Collects(L, R)  BY <1>6 DEF Collects, Touched
<1> QED  BY <1>2, <1>3, <1>4, <1>5, <1>6 DEF Turning, Turns, MovesReceipt

\* A turn of the receiver: it acknowledges nothing to a peer that is out of session.
LEMMA SilentReceiver ==
  ASSUME NEW L, NEW R, NEW M, NEW c, NEW c1, NEW k, NEW k1, NEW heard, NEW new, NEW sends, NEW ids,
         Turning(L, R, M, c, c1, k, k1, heard, new, sends, ids), Silent(M, k, L, c)
  PROVE  Silent(M, k1, R, c1)
<1> SUFFICES ASSUME ~M.session_open
             PROVE  /\ ~M.tx.started /\ ~Touched(R)
                    /\ \A g : Has(k1, g) => g.type # "DATA"
                    /\ \A g : Has(c1, g) => g.type # "ACK"
                    /\ \A i \in DOMAIN R.dup_cache : R.dup_cache[i].ack.type # "ACK"
  BY DEF Silent
<1>1. \A f \in heard : f.type # "DATA"  BY HeardOne DEF Silent
<1>2. ~Touched(R) /\ \A i \in DOMAIN R.dup_cache : R.dup_cache[i].ack.type # "ACK"
  BY <1>1, UntouchedStays DEF Silent
<1>3. ASSUME NEW g, Has(c1, g) PROVE g.type # "ACK"
  <2>1. CASE Has(c, g)  BY <2>1 DEF Silent
  <2>2. CASE Emits(L, R, heard, g)
    <3>2. g.type = "ACK" => \/ ~g.flag /\ \E f \in heard : f.type = "DATA"
                            \/ \E i \in DOMAIN R.dup_cache : g = R.dup_cache[i].ack
      BY <2>2, EmitsInTurn
    <3> QED  BY <1>1, <1>2, <3>2
  <2> QED  BY <1>3, <2>1, <2>2 DEF Turning, Puts
<1>4. \A g : Has(k1, g) => g.type # "DATA"  BY DEF Turning, Takes, Silent
<1> QED  BY <1>2, <1>3, <1>4 DEF Silent

\* A turn of the sender: what an initiator sends belongs to its session.
LEMMA SettledSender ==
  ASSUME NEW L, NEW R, NEW M, NEW c, NEW c1, NEW k, NEW k1, NEW heard, NEW new, NEW sends, NEW ids,
         Turning(L, R, M, c, c1, k, k1, heard, new, sends, ids), Silent(L, c, M, k), Settled(L, c),
         R.role = L.role
  PROVE  Settled(R, c1)
<1> SUFFICES ASSUME R.role = "initiator"
             PROVE  /\ \A g : Has(c1, g) /\ g.type = "DATA" => g.session_id = R.session_id
                    /\ \A g, h : HasBehind(c1, g, h) /\ g.type = "DATA" /\ Keyed(h) =>
                         h.session_id = R.session_id
  BY DEF Settled
<1>1. \A h : Emits(L, R, heard, h) /\ Keyed(h) => h.session_id = R.session_id
  BY EmitsInTurn
<1>2. \A g : Has(c1, g) => Has(c, g) \/ Emits(L, R, heard, g)  BY DEF Turning, Puts
<1>3. \A g, h : HasBehind(c1, g, h) => HasBehind(c, g, h) \/ Emits(L, R, heard, h)
  BY DEF Turning, Puts
<1>4. CASE L.session_open
  <2>1. R.session_id = L.session_id  BY <1>4, SessionStays
  <2> QED  BY <1>1, <1>2, <1>3, <2>1 DEF Settled, Keyed
<1>5. CASE ~L.session_open
  <2>1. \A g : Has(c, g) => g.type # "DATA"  BY <1>5 DEF Silent
  <2>2. \A g, h : HasBehind(c, g, h) => g.type # "DATA"  BY <2>1, BehindHas
  <2> QED  BY <1>1, <1>2, <1>3, <2>1, <2>2 DEF Keyed
<1> QED  BY <1>4, <1>5

\* A turn of the receiver only takes frames off the channel.
LEMMA SettledReceiver ==
  ASSUME NEW M, NEW k, NEW k1, NEW heard, Takes(heard, k, k1), Settled(M, k)
  PROVE  Settled(M, k1)
BY DEF Takes, Settled

\* Keys are sent in their order, those of the transfer last: an id is taken up again only
\* after 32768 messages.
Ordered(e, c) ==
  /\ \A g : Has(c, g) /\ Keyed(g) => g.message_id \in Nat /\ g.message_id =< e.next_message_id
  /\ \A g, h : HasBehind(c, g, h) /\ Keyed(g) /\ Keyed(h) => g.message_id =< h.message_id
  /\ e.tx.active => e.tx.message_id = e.next_message_id
  /\ e.next_message_id = FirstMessageId(e.role) + 2 * Len(e.stats.messages_sent)

\* The fields of the sender that its books are about.
LEMMA SenderFields ==
  ASSUME NEW L, NEW R, NEW M, NEW c, NEW c1, NEW k, NEW k1, NEW heard, NEW new, NEW sends, NEW ids,
         Turning(L, R, M, c, c1, k, k1, heard, new, sends, ids)
  PROVE  /\ R.role = L.role
         /\ L.stats.messages_sent \in Seq(Message \cup {NoBody})
         /\ L.next_message_id \in Nat /\ FirstMessageId(L.role) \in 0 .. 1
         /\ L.submitted \in Nat /\ L.tx.message_id \in Nat
<1>1. R.role = L.role
  BY DEF Turning, Turns, MovesSession, SameSession, SameWindow, Draws, GivesUp, Joins, Opens
<1>2. L \in EndState(Message, Message)  BY DEF Turning
<1>3. L.tx \in TxState(Message) /\ L.stats \in Stats(Message, Message)  BY <1>2 DEF EndState
<1> QED  BY <1>1, <1>2, <1>3 DEF EndState, TxState, Stats, FirstMessageId

\* A turn of the sender keeps the keys in their order, and moves on to greater ones only.
LEMMA OrderedSender ==
  ASSUME NEW L, NEW R, NEW M, NEW c, NEW c1, NEW k, NEW k1, NEW heard, NEW new, NEW sends, NEW ids,
         Turning(L, R, M, c, c1, k, k1, heard, new, sends, ids),
         Ordered(L, c), L.tx.active => Len(L.stats.messages_sent) < 32767
  PROVE  Ordered(R, c1) /\ R.next_message_id >= L.next_message_id
<1> DEFINE sent == L.stats.messages_sent
           first == FirstMessageId(L.role)
<1>1. /\ R.role = L.role /\ sent \in Seq(Message \cup {NoBody})
      /\ L.next_message_id \in Nat /\ R.next_message_id \in Nat /\ first \in 0 .. 1
  <2>1. R.next_message_id \in Nat  BY DEF Turning, EndState
  <2> QED  BY <2>1, SenderFields
<1>2. L.next_message_id = first + 2 * Len(sent)  BY DEF Ordered
<1>3. /\ R.next_message_id >= L.next_message_id
      /\ R.next_message_id = first + 2 * Len(R.stats.messages_sent)
      /\ R.tx.active => R.tx.message_id = R.next_message_id
  <2>1. CASE SameTransfer(L, R)
    BY <1>1, <1>2, <2>1 DEF SameTransfer, Ordered
  <2>2. CASE Starts(L, R, sends) \/ DropsNew(L, R, sends) \/ Drops(L, R)
    <3>1. /\ R.next_message_id = L.next_message_id
          /\ R.stats.messages_sent = L.stats.messages_sent
          /\ R.tx.active => R.tx.message_id = L.next_message_id
      BY <2>2 DEF Starts, DropsNew, Drops, SameBooks
    <3> QED  BY <1>1, <1>2, <3>1
  <2>3. CASE Confirms(L, R, heard)
    <3>1. /\ L.tx.active /\ ~R.tx.active
          /\ R.next_message_id = (L.next_message_id + 2) % 65536
          /\ R.stats.messages_sent = Append(sent, L.tx.payload)
      BY <2>3 DEF Confirms
    <3>2. Len(R.stats.messages_sent) = Len(sent) + 1  BY <1>1, <3>1
    <3>3. Len(sent) \in Nat /\ Len(sent) < 32767  BY <1>1, <3>1
    <3>4. L.next_message_id + 2 < 65536  BY <1>1, <1>2, <3>3
    <3>5. R.next_message_id = L.next_message_id + 2  BY <1>1, <3>1, <3>4
    <3> QED  BY <1>1, <1>2, <3>1, <3>2, <3>3, <3>5
  <2> QED  BY <2>1, <2>2, <2>3 DEF Turning, Turns, MovesTransfer
<1>4. \A g : Emits(L, R, heard, g) /\ Keyed(g) => g.message_id = R.next_message_id
  BY <1>3, EmitsInTurn DEF Keyed, Carries
<1>5. \A g : Has(c1, g) => Has(c, g) \/ Emits(L, R, heard, g)  BY DEF Turning, Puts
<1>6. \A g, h : HasBehind(c1, g, h) =>
        HasBehind(c, g, h) \/ (Emits(L, R, heard, h) /\ Has(c1, g))
  BY BehindHas DEF Turning, Puts
<1>7. \A g : Has(c1, g) /\ Keyed(g) => g.message_id \in Nat /\ g.message_id =< R.next_message_id
  BY <1>1, <1>3, <1>4, <1>5 DEF Ordered
<1>8. \A g, h : HasBehind(c1, g, h) /\ Keyed(g) /\ Keyed(h) => g.message_id =< h.message_id
  BY <1>4, <1>6, <1>7 DEF Ordered
<1> QED  BY <1>1, <1>3, <1>7, <1>8 DEF Ordered

\* A turn of the receiver only takes frames off the channel.
LEMMA OrderedReceiver ==
  ASSUME NEW M, NEW k, NEW k1, NEW heard, Takes(heard, k, k1), Ordered(M, k)
  PROVE  Ordered(M, k1)
BY DEF Takes, Ordered

\* An end that has reassembled or delivered anything is in the session of its peer, and so
\* is all it is yet to hear.
Bound(e, c, d) ==
  Touched(d) =>
    /\ d.session_open /\ d.session_id = e.session_id
    /\ \A g : Has(c, g) /\ Keyed(g) => g.session_id = d.session_id
    /\ d.rx.active => d.rx.session_id = d.session_id

\* A turn of the sender: it does not leave a session in which the peer has heard a segment.
LEMMA BoundSender ==
  ASSUME NEW L, NEW R, NEW M, NEW c, NEW c1, NEW k, NEW k1, NEW heard, NEW new, NEW sends, NEW ids,
         Turning(L, R, M, c, c1, k, k1, heard, new, sends, ids),
         Silent(L, c, M, k), Bound(L, c, M)
  PROVE  Bound(R, c1, M) /\ (Touched(M) => R.session_id = L.session_id)
<1> SUFFICES ASSUME Touched(M) PROVE Bound(R, c1, M) /\ R.session_id = L.session_id
  BY DEF Bound
<1>1. L.session_open  BY DEF Silent
<1>2. M.session_id = L.session_id  BY DEF Bound
<1>3. R.session_id = L.session_id  BY <1>1, <1>2, SessionStays
<1>4. \A g : Has(c1, g) => Has(c, g) \/ Emits(L, R, heard, g)  BY DEF Turning, Puts
<1>5. \A g : Emits(L, R, heard, g) /\ Keyed(g) => g.session_id = R.session_id  BY EmitsInTurn
<1> QED  BY <1>3, <1>4, <1>5 DEF Bound

\* A fresh segment is of the session that the two ends are in.
LEMMA FreshBinds ==
  ASSUME NEW L, NEW R, NEW M, NEW c, NEW c1, NEW k, NEW k1, NEW heard, NEW new, NEW sends, NEW ids,
         Turning(L, R, M, c, c1, k, k1, heard, new, sends, ids),
         Settled(M, k), L.role = "initiator" /\ M.role = "responder" => Answers(L, M, k),
         NEW f \in heard, Fresh(L, f)
  PROVE  /\ L.session_open /\ R.session_open /\ R.session_id = L.session_id
         /\ f.session_id = L.session_id /\ M.session_id = L.session_id
         /\ \A g : Has(k1, g) /\ Keyed(g) => g.session_id = L.session_id
<1>1. f.type = "DATA" /\ L.session_open /\ f.session_id = L.session_id  BY DEF Fresh, InSession
<1>2. Keyed(f)  BY <1>1 DEF Keyed
<1>3. R.session_open /\ R.session_id = L.session_id
  <2>1. R.session_id = L.session_id /\ R.session_open = L.session_open  BY <1>2, KeyedKeeps
  <2> QED  BY <1>1, <2>1
<1>4. Has(k, f) /\ \A g : Has(k1, g) => HasBehind(k, f, g)  BY HeardOne
<1>5. L.role \in {"initiator", "responder"} /\ M.role \in {"initiator", "responder"}
      /\ (L.role = "responder" /\ M.role = "responder" => ~L.session_open)
  BY DEF Turning, Known
<1>6. CASE M.role = "initiator"  BY <1>1, <1>3, <1>4, <1>6 DEF Settled
<1>7. CASE L.role = "initiator" /\ M.role = "responder"
  <2>1. \A g : Has(k1, g) => Has(k, g)  BY <1>4, BehindHas
  <2>2. Answers(L, M, k)  BY <1>7
  <2> QED  BY <1>1, <1>3, <2>1, <2>2 DEF Answers
<1> QED  BY <1>1, <1>5, <1>6, <1>7

\* A turn of the receiver: what it hears first binds it to the session of its peer.
LEMMA BoundReceiver ==
  ASSUME NEW L, NEW R, NEW M, NEW c, NEW c1, NEW k, NEW k1, NEW heard, NEW new, NEW sends, NEW ids,
         Turning(L, R, M, c, c1, k, k1, heard, new, sends, ids),
         Silent(M, k, L, c), Bound(M, k, L), Settled(M, k),
         L.role = "initiator" /\ M.role = "responder" => Answers(L, M, k)
  PROVE  /\ Bound(M, k1, R)
         /\ Touched(L) => R.session_id = L.session_id /\ ~Joins(L, R, heard)
<1> SUFFICES ASSUME Touched(R) \/ Touched(L)
             PROVE  /\ Bound(M, k1, R)
                    /\ Touched(L) => R.session_id = L.session_id /\ ~Joins(L, R, heard)
  BY DEF Bound
<1>1. ~NoRx.active  BY DEF NoRx
<1>2. CASE Touched(L)
  <2>1. L.session_open /\ M.session_id = L.session_id  BY <1>2 DEF Bound
  <2>2. R.session_open /\ R.session_id = L.session_id /\ ~Joins(L, R, heard)
    BY <2>1, SessionStays
  <2>3. \A g : Has(k1, g) => Has(k, g)  BY DEF Turning, Takes
  <2>4. R.rx.active => R.rx.session_id = L.session_id
    <3>1. L.rx.active => L.rx.session_id = L.session_id  BY <1>2 DEF Bound
    <3> QED
      BY <1>1, <2>2, <3>1
      DEF Turning, Turns, MovesReceipt, Idles, Leaves, Reassembles, Delivers, TakesBeacon, Collects,
          Fresh, InSession
  <2> QED  BY <1>2, <2>1, <2>2, <2>3, <2>4 DEF Bound
<1>3. CASE ~Touched(L)
  <2>1. PICK f \in heard : Fresh(L, f) /\ (R.rx.active => R.rx.session_id = f.session_id)
    <3>1. ~L.rx.active /\ L.stats.messages_delivered = << >>  BY <1>3 DEF Touched
    <3>2. R.rx.active \/ R.stats.messages_delivered # << >>  BY <1>3 DEF Touched
    <3> QED
      BY <1>1, <3>1, <3>2
      DEF Turning, Turns, MovesReceipt, Idles, Leaves, Reassembles, Delivers, TakesBeacon, Collects,
          SameDeliveries
  <2>2. /\ L.session_open /\ R.session_open /\ R.session_id = L.session_id
        /\ f.session_id = L.session_id /\ M.session_id = L.session_id
        /\ \A g : Has(k1, g) /\ Keyed(g) => g.session_id = L.session_id
    BY <2>1, FreshBinds
  <2> QED  BY <1>3, <2>1, <2>2 DEF Bound
<1> QED  BY <1>2, <1>3

\* What an end is yet to hear comes after what it is reassembling.
Above(e, c, d) ==
  d.rx.active =>
    /\ \A g : Has(c, g) /\ Keyed(g) => g.message_id >= d.rx.message_id
    /\ e.next_message_id >= d.rx.message_id

\* A turn of the sender: what it adds comes after what the peer is reassembling.
LEMMA AboveSender ==
  ASSUME NEW L, NEW R, NEW M, NEW c, NEW c1, NEW k, NEW k1, NEW heard, NEW new, NEW sends, NEW ids,
         Turning(L, R, M, c, c1, k, k1, heard, new, sends, ids),
         Ordered(R, c1), R.next_message_id >= L.next_message_id, Above(L, c, M)
  PROVE  Above(R, c1, M)
<1>1. \A g : Emits(L, R, heard, g) /\ Keyed(g) => g.message_id = R.next_message_id
  BY EmitsInTurn DEF Ordered, Keyed, Carries
<1>2. \A g : Has(c1, g) => Has(c, g) \/ Emits(L, R, heard, g)  BY DEF Turning, Puts
<1>3. /\ L.next_message_id \in Nat /\ R.next_message_id \in Nat
      /\ M.rx.message_id \in Nat
  BY DEF Turning, EndState, RxState
<1>4. M.rx.active => R.next_message_id >= M.rx.message_id  BY <1>3 DEF Above
<1> QED  BY <1>1, <1>2, <1>4 DEF Above

\* What is behind a fresh segment comes after it.
LEMMA FreshOrdered ==
  ASSUME NEW L, NEW R, NEW M, NEW c, NEW c1, NEW k, NEW k1, NEW heard, NEW new, NEW sends, NEW ids,
         Turning(L, R, M, c, c1, k, k1, heard, new, sends, ids),
         Ordered(M, k), NEW f \in heard, Keyed(f)
  PROVE  /\ f.message_id \in Nat /\ M.next_message_id >= f.message_id
         /\ \A g : Has(k1, g) /\ Keyed(g) => g.message_id \in Nat /\ g.message_id >= f.message_id
<1>1. Has(k, f) /\ \A g : Has(k1, g) => HasBehind(k, f, g)  BY HeardOne
<1>2. f.message_id \in Nat /\ f.message_id =< M.next_message_id  BY <1>1 DEF Ordered
<1>3. M.next_message_id \in Nat  BY DEF Turning, EndState
<1>4. ASSUME NEW g, Has(k1, g), Keyed(g) PROVE g.message_id \in Nat /\ g.message_id >= f.message_id
  <2>1. HasBehind(k, f, g)  BY <1>1, <1>4
  <2>2. Has(k, g)  BY <2>1, BehindHas
  <2>3. g.message_id \in Nat /\ f.message_id =< g.message_id  BY <1>4, <2>1, <2>2 DEF Ordered
  <2> QED  BY <1>2, <2>3
<1> QED  BY <1>2, <1>3, <1>4

\* A turn of the receiver: it reassembles the message of the frame it has just heard.
LEMMA AboveReceiver ==
  ASSUME NEW L, NEW R, NEW M, NEW c, NEW c1, NEW k, NEW k1, NEW heard, NEW new, NEW sends, NEW ids,
         Turning(L, R, M, c, c1, k, k1, heard, new, sends, ids),
         Ordered(M, k), Above(M, k, L)
  PROVE  Above(M, k1, R)
<1>1. ~NoRx.active  BY DEF NoRx
<1>2. CASE Reassembles(L, R, heard)
  <2>1. PICK f \in heard : f.type = "DATA" /\ R.rx.message_id = f.message_id
    BY <1>2 DEF Reassembles, Fresh
  <2> QED  BY <2>1, FreshOrdered DEF Above, Keyed
<1>3. CASE R.rx = L.rx \/ R.rx = NoRx
  BY <1>1, <1>3 DEF Turning, Takes, Above
<1> QED
  BY <1>2, <1>3
  DEF Turning, Turns, MovesReceipt, Idles, Leaves, Delivers, TakesBeacon, Collects

\* The last entry of the cache of an end that has delivered, or that reassembles while
\* something waits to be collected, is of the session: what the end is yet to hear does not
\* come before it, and of what waits it was the last.
Marked(d) == \/ d.stats.messages_delivered # << >>
             \/ d.rx.active /\ d.delivered # NoBody

Marks(e, c, d) ==
  /\ Marked(d) =>
       /\ d.dup_cache # << >> /\ LastKey(d).session_id = d.session_id
       /\ \A g : Has(c, g) /\ Keyed(g) => g.message_id >= LastKey(d).message_id
       /\ e.next_message_id >= LastKey(d).message_id
  /\ d.rx.active /\ d.delivered # NoBody => LastKey(d).message_id >= d.rx.message_id

\* The entries of a cache have numbers.
LEMMA LastKeyType ==
  ASSUME NEW M \in EndState(Message, Message), M.dup_cache # << >>
  PROVE  LastKey(M) \in DupEntry /\ LastKey(M).message_id \in Nat
         /\ Len(M.dup_cache) \in DOMAIN M.dup_cache
<1>1. M.dup_cache \in Seq(DupEntry)  BY DEF EndState
<1>2. Len(M.dup_cache) \in DOMAIN M.dup_cache  BY <1>1
<1>3. LastKey(M) \in DupEntry  BY <1>1, <1>2 DEF LastKey
<1> QED  BY <1>2, <1>3 DEF DupEntry

\* A turn of the sender: what it adds comes after the last entry of the cache.
LEMMA MarksSender ==
  ASSUME NEW L, NEW R, NEW M, NEW c, NEW c1, NEW k, NEW k1, NEW heard, NEW new, NEW sends, NEW ids,
         Turning(L, R, M, c, c1, k, k1, heard, new, sends, ids),
         Ordered(R, c1), R.next_message_id >= L.next_message_id, Marks(L, c, M)
  PROVE  Marks(R, c1, M)
<1> SUFFICES ASSUME Marked(M)
             PROVE  /\ \A g : Has(c1, g) /\ Keyed(g) => g.message_id >= LastKey(M).message_id
                    /\ R.next_message_id >= LastKey(M).message_id
  BY DEF Marks
<1>1. \A g : Emits(L, R, heard, g) /\ Keyed(g) => g.message_id = R.next_message_id
  BY EmitsInTurn DEF Ordered, Keyed, Carries
<1>2. \A g : Has(c1, g) => Has(c, g) \/ Emits(L, R, heard, g)  BY DEF Turning, Puts
<1>3. L.next_message_id \in Nat /\ R.next_message_id \in Nat /\ M \in EndState(Message, Message)
  BY DEF Turning, EndState
<1>4. M.dup_cache # << >> /\ L.next_message_id >= LastKey(M).message_id  BY DEF Marks
<1>5. LastKey(M).message_id \in Nat  BY <1>3, <1>4, LastKeyType
<1>6. R.next_message_id >= LastKey(M).message_id  BY <1>3, <1>4, <1>5
<1> QED  BY <1>1, <1>2, <1>6 DEF Marks

\* A delivery: its key is of the session and comes after the others.
LEMMA MarksDelivers ==
  ASSUME NEW L, NEW R, NEW M, NEW c, NEW c1, NEW k, NEW k1, NEW heard, NEW new, NEW sends, NEW ids,
         Turning(L, R, M, c, c1, k, k1, heard, new, sends, ids),
         Ordered(M, k), Bound(M, k, L), Settled(M, k),
         L.role = "initiator" /\ M.role = "responder" => Answers(L, M, k),
         Delivers(L, R, heard)
  PROVE  Marks(M, k1, R)
<1>1. PICK f \in heard : \E key :
        /\ Fresh(L, f)
        /\ \/ key.session_id = f.session_id
           \/ L.rx.active /\ key.session_id = L.rx.session_id
        /\ key.message_id = f.message_id /\ R.rx = NoRx /\ Remembers(L, R, key)
  BY DEF Delivers
<1>2. PICK key :
        /\ \/ key.session_id = f.session_id
           \/ L.rx.active /\ key.session_id = L.rx.session_id
        /\ key.message_id = f.message_id /\ R.rx = NoRx /\ Remembers(L, R, key)
  BY <1>1
<1>3. R.session_id = L.session_id /\ f.session_id = L.session_id  BY <1>1, FreshBinds
<1>4. L.rx.active => L.rx.session_id = L.session_id  BY DEF Bound, Touched
<1>5. key.session_id = R.session_id  BY <1>2, <1>3, <1>4
<1>6. L.dup_cache \in Seq(DupEntry)  BY DEF Turning, EndState
<1>7. R.dup_cache # << >> /\ LastKey(R) = key  BY <1>2, <1>6, RemembersWhat DEF LastKey
<1>8. Keyed(f)  BY <1>1 DEF Fresh, Keyed
<1>9. /\ M.next_message_id >= f.message_id
      /\ \A g : Has(k1, g) /\ Keyed(g) => g.message_id >= f.message_id
  BY <1>8, FreshOrdered
<1>10. ~NoRx.active  BY DEF NoRx
<1> QED  BY <1>2, <1>5, <1>7, <1>9, <1>10 DEF Marks

\* A beacon.
LEMMA MarksBeacon ==
  ASSUME NEW L, NEW R, NEW M, NEW c, NEW c1, NEW k, NEW k1, NEW heard, NEW new, NEW sends, NEW ids,
         Turning(L, R, M, c, c1, k, k1, heard, new, sends, ids),
         Ordered(M, k), Bound(M, k, L), Above(M, k, L), Marks(M, k, L), Settled(M, k),
         L.role = "initiator" /\ M.role = "responder" => Answers(L, M, k),
         TakesBeacon(L, R, heard)
  PROVE  Marks(M, k1, R)
<1>1. PICK f \in heard : \E key :
        /\ f.type = "BEACON" /\ key.session_id = f.session_id /\ key.message_id = f.message_id
        /\ R.rx = L.rx /\ Remembers(L, R, key)
        /\ R.stats.messages_delivered = L.stats.messages_delivered
  BY DEF TakesBeacon
<1>2. PICK key :
        /\ key.session_id = f.session_id /\ key.message_id = f.message_id
        /\ R.rx = L.rx /\ Remembers(L, R, key)
        /\ R.stats.messages_delivered = L.stats.messages_delivered
  BY <1>1
<1>3. Keyed(f)  BY <1>1 DEF Keyed
<1>4. Has(k, f) /\ R.session_id = L.session_id  BY <1>3, HeardOne, KeyedKeeps
<1>5. L.dup_cache \in Seq(DupEntry)  BY DEF Turning, EndState
<1>6. R.dup_cache # << >> /\ LastKey(R) = key  BY <1>2, <1>5, RemembersWhat DEF LastKey
<1>7. /\ M.next_message_id >= f.message_id
      /\ \A g : Has(k1, g) /\ Keyed(g) => g.message_id >= f.message_id
  BY <1>3, FreshOrdered
<1>8. Marked(R) => Touched(L)  BY <1>2 DEF Marked, Touched
<1>9. Touched(L) => f.session_id = L.session_id  BY <1>3, <1>4 DEF Bound
<1>10. R.rx.active => f.message_id >= R.rx.message_id  BY <1>2, <1>3, <1>4 DEF Above
<1> QED  BY <1>2, <1>4, <1>6, <1>7, <1>8, <1>9, <1>10 DEF Marks

\* A turn of the receiver, whatever it does with the frame it hears.
LEMMA MarksReceiver ==
  ASSUME NEW L, NEW R, NEW M, NEW c, NEW c1, NEW k, NEW k1, NEW heard, NEW new, NEW sends, NEW ids,
         Turning(L, R, M, c, c1, k, k1, heard, new, sends, ids),
         Silent(M, k, L, c), Ordered(M, k), Bound(M, k, L), Above(M, k, L), Marks(M, k, L),
         Settled(M, k), L.role = "initiator" /\ M.role = "responder" => Answers(L, M, k)
  PROVE  Marks(M, k1, R)
<1>1. ~NoRx.active  BY DEF NoRx
<1>2. Touched(L) => R.session_id = L.session_id /\ ~Joins(L, R, heard)  BY BoundReceiver
<1>3. \A g : Has(k1, g) => Has(k, g)  BY DEF Turning, Takes
<1>4. Marked(R) => Touched(R)  BY DEF Marked, Touched
<1>5. CASE Idles(L, R)
  <2>1. /\ Marked(R) => Marked(L)
        /\ R.dup_cache = L.dup_cache /\ R.delivered = L.delivered
        /\ R.rx.active => R.rx = L.rx
    BY <1>1, <1>5 DEF Idles, Marked, SameDeliveries
  <2>2. Marked(R) => R.session_id = L.session_id  BY <1>2, <2>1 DEF Marked, Touched
  <2> QED  BY <1>3, <2>1, <2>2 DEF Marks, LastKey
<1>6. CASE Leaves(L, R, heard)
  <2>1. ~Touched(L)  BY <1>2, <1>6 DEF Leaves
  <2>2. ~Touched(R)  BY <1>1, <1>6, <2>1 DEF Leaves, Touched, SameDeliveries
  <2> QED  BY <1>4, <2>2 DEF Marks, Touched
<1>7. CASE Reassembles(L, R, heard)
  <2>1. PICK f \in heard : /\ Fresh(L, f) /\ R.rx.message_id = f.message_id
                           /\ R.dup_cache = L.dup_cache /\ SameDeliveries(L, R)
    BY <1>7 DEF Reassembles
  <2>2. L.delivered # NoBody => L.rx.active /\ L.rx.message_id = R.rx.message_id
    BY <2>1 DEF Fresh
  <2>3. Marked(R) => Marked(L)  BY <2>1, <2>2 DEF Marked, SameDeliveries
  <2>4. Marked(R) => R.session_id = L.session_id  BY <1>2, <2>3 DEF Marked, Touched
  <2> QED  BY <1>3, <2>1, <2>2, <2>3, <2>4 DEF Marks, LastKey, SameDeliveries
<1>8. CASE Delivers(L, R, heard)  BY <1>8, MarksDelivers
<1>9. CASE TakesBeacon(L, R, heard)  BY <1>9, MarksBeacon
<1>10. CASE Collects(L, R)
  <2>1. Marked(R) => Marked(L) /\ L.stats.messages_delivered # << >>
    BY <1>10 DEF Collects, Marked
  <2>2. Marked(R) => R.session_id = L.session_id  BY <1>2, <2>1 DEF Marked, Touched
  <2> QED  BY <1>3, <1>10, <2>1, <2>2 DEF Marks, LastKey, Collects
<1> QED  BY <1>5, <1>6, <1>7, <1>8, <1>9, <1>10 DEF Turning, Turns, MovesReceipt

----------------------------------------------------------------------------
(* Messages.  box is what the application of e submits.                    *)

Sent(e) == e.stats.messages_sent
Log(d) == d.stats.messages_delivered
Busy(e) == IF e.tx.active THEN 1 ELSE 0

\* A transfer is of the message last submitted, and each message is confirmed at most once.
Books(e, box) ==
  /\ Len(Sent(e)) + Busy(e) =< e.submitted
  /\ e.tx.active => e.tx.payload = box[e.submitted]

\* No transfer of e was abandoned.
Whole(e) == e.submitted = Len(Sent(e)) + Busy(e)

\* The types of the logs and of the books.
LEMMA LogTypes ==
  ASSUME NEW L \in EndState(Message, Message)
  PROVE  /\ Sent(L) \in Seq(Message \cup {NoBody}) /\ Len(Sent(L)) \in Nat
         /\ Log(L) \in Seq(Message) /\ Len(Log(L)) \in Nat
         /\ L.submitted \in Nat /\ L.tx.active \in BOOLEAN /\ Busy(L) \in 0 .. 1
         /\ L.next_message_id \in Nat /\ L.dup_cache \in Seq(DupEntry)
<1>1. L.tx \in TxState(Message) /\ L.stats \in Stats(Message, Message)  BY DEF EndState
<1>2. Sent(L) \in Seq(Message \cup {NoBody}) /\ Log(L) \in Seq(Message) /\ L.tx.active \in BOOLEAN
  BY <1>1 DEF TxState, Stats, Sent, Log
<1> QED  BY <1>2 DEF EndState, Busy

\* What a turn does to the books.
LEMMA BooksTurn ==
  ASSUME NEW L \in EndState(Message, Message), NEW R \in EndState(Message, Message),
         NEW heard, NEW sends, MovesTransfer(L, R, heard, sends), NEW box,
         sends = {} \/ sends = {box[L.submitted + 1]}, Books(L, box)
  PROVE  /\ Books(R, box)
         /\ R.submitted >= L.submitted
         /\ Whole(R) => Whole(L) /\ (SameTransfer(L, R) \/ Starts(L, R, sends) \/ Confirms(L, R, heard))
<1>1. /\ Len(Sent(L)) \in Nat /\ Len(Sent(R)) \in Nat /\ L.submitted \in Nat /\ R.submitted \in Nat
      /\ L.tx.active \in BOOLEAN /\ R.tx.active \in BOOLEAN
      /\ Sent(L) \in Seq(Message \cup {NoBody})
  BY LogTypes
<1>2. CASE SameTransfer(L, R)
  <2>1. Sent(R) = Sent(L) /\ R.tx.active = L.tx.active /\ R.submitted = L.submitted
        /\ (R.tx.active => R.tx.payload = L.tx.payload)
    BY <1>2 DEF SameTransfer, Sent
  <2> QED  BY <1>1, <1>2, <2>1 DEF Books, Whole, Busy
<1>3. CASE Starts(L, R, sends)
  <2>1. /\ Sent(R) = Sent(L) /\ ~L.tx.active /\ R.tx.active /\ R.submitted = L.submitted + 1
        /\ R.tx.payload = box[R.submitted]
    BY <1>3 DEF Starts, SameBooks, Sent
  <2> QED  BY <1>1, <1>3, <2>1 DEF Books, Whole, Busy
<1>4. CASE DropsNew(L, R, sends)
  <2>1. Sent(R) = Sent(L) /\ ~L.tx.active /\ ~R.tx.active /\ R.submitted = L.submitted + 1
    BY <1>4 DEF DropsNew, SameBooks, Sent
  <2> QED  BY <1>1, <2>1 DEF Books, Whole, Busy
<1>5. CASE Drops(L, R)
  <2>1. Sent(R) = Sent(L) /\ L.tx.active /\ ~R.tx.active /\ R.submitted = L.submitted
    BY <1>5 DEF Drops, SameBooks, Sent
  <2> QED  BY <1>1, <2>1 DEF Books, Whole, Busy
<1>6. CASE Confirms(L, R, heard)
  <2>1. /\ Sent(R) = Append(Sent(L), L.tx.payload) /\ L.tx.active /\ ~R.tx.active
        /\ R.submitted = L.submitted
    BY <1>6 DEF Confirms, Sent
  <2>2. Len(Sent(R)) = Len(Sent(L)) + 1  BY <1>1, <2>1
  <2> QED  BY <1>1, <1>6, <2>1, <2>2 DEF Books, Whole, Busy
<1> QED  BY <1>2, <1>3, <1>4, <1>5, <1>6 DEF MovesTransfer

MessageId(e, n) == FirstMessageId(e.role) + 2 * n

Final(g) == g.type = "ACK" /\ g.flag

\* As long as no transfer was abandoned: what is confirmed was delivered, what was
\* delivered was submitted, one by one; and the ids of segments, final ACKs and the cache
\* say which of them they are about.
Promised(e, c, d, k, box) ==
  Whole(e) =>
    /\ Len(Sent(e)) =< Len(Log(d)) /\ Len(Log(d)) =< e.submitted
    /\ \A n \in 1 .. Len(Sent(e)) : Sent(e)[n] = box[n]
    /\ \A n \in 1 .. Len(Log(d)) : Log(d)[n] = box[n]
    /\ \A g : Has(c, g) /\ g.type = "DATA" =>
         \E n \in 1 .. e.submitted : g.message_id = MessageId(e, n - 1) /\ g.payload = box[n]
    /\ \A g : Has(k, g) /\ Final(g) => g.message_id < MessageId(e, Len(Log(d)))
    /\ \A i \in DOMAIN d.dup_cache : Final(d.dup_cache[i].ack) =>
         d.dup_cache[i].ack.message_id < MessageId(e, Len(Log(d)))
    /\ Log(d) # << >> => LastKey(d).message_id >= MessageId(e, Len(Log(d)) - 1)

\* A final ACK confirms the next of what was delivered.
LEMMA ConfirmsNext ==
  ASSUME NEW L, NEW R, NEW M, NEW c, NEW c1, NEW k, NEW k1, NEW heard, NEW new, NEW sends, NEW ids,
         Turning(L, R, M, c, c1, k, k1, heard, new, sends, ids),
         NEW box, Ordered(L, c), Books(L, box), Promised(L, c, M, k, box), Whole(L),
         Confirms(L, R, heard)
  PROVE  /\ Len(Sent(L)) < Len(Log(M)) /\ Len(Sent(L)) < L.submitted
         /\ L.tx.payload = box[Len(Sent(L)) + 1]
<1>1. L \in EndState(Message, Message) /\ M \in EndState(Message, Message)  BY DEF Turning
<1>2. /\ Len(Sent(L)) \in Nat /\ Len(Log(M)) \in Nat /\ L.submitted \in Nat
      /\ L.tx.active \in BOOLEAN /\ L.next_message_id \in Nat
  BY <1>1, LogTypes
<1>3. PICK f \in heard : /\ f.type = "ACK" /\ f.flag /\ L.tx.active
                         /\ f.message_id = L.tx.message_id
  BY DEF Confirms
<1>4. Has(k, f) /\ Final(f)  BY <1>3, HeardOne DEF Final
<1>5. L.tx.message_id < MessageId(L, Len(Log(M)))  BY <1>3, <1>4 DEF Promised
<1>6. L.tx.message_id = MessageId(L, Len(Sent(L)))  BY <1>3 DEF Ordered, MessageId, Sent
<1>7. FirstMessageId(L.role) \in Nat  BY DEF FirstMessageId
<1>8. Len(Sent(L)) < Len(Log(M))  BY <1>2, <1>5, <1>6, <1>7 DEF MessageId
<1>9. L.submitted = Len(Sent(L)) + 1 /\ L.tx.payload = box[L.submitted]
  BY <1>3 DEF Books, Whole, Busy
<1> QED  BY <1>2, <1>8, <1>9

\* A turn of the sender: what it adds is of the next message.
LEMMA PromisedSender ==
  ASSUME NEW L, NEW R, NEW M, NEW c, NEW c1, NEW k, NEW k1, NEW heard, NEW new, NEW sends, NEW ids,
         Turning(L, R, M, c, c1, k, k1, heard, new, sends, ids),
         NEW box, sends = {} \/ sends = {box[L.submitted + 1]},
         Ordered(L, c), Ordered(R, c1), Books(L, box), Promised(L, c, M, k, box)
  PROVE  Promised(R, c1, M, k1, box)
<1> SUFFICES ASSUME Whole(R)
             PROVE  /\ Len(Sent(R)) =< Len(Log(M)) /\ Len(Log(M)) =< R.submitted
                    /\ \A n \in 1 .. Len(Sent(R)) : Sent(R)[n] = box[n]
                    /\ \A n \in 1 .. Len(Log(M)) : Log(M)[n] = box[n]
                    /\ \A g : Has(c1, g) /\ g.type = "DATA" =>
                         \E n \in 1 .. R.submitted :
                           g.message_id = MessageId(R, n - 1) /\ g.payload = box[n]
                    /\ \A g : Has(k1, g) /\ Final(g) => g.message_id < MessageId(R, Len(Log(M)))
                    /\ \A i \in DOMAIN M.dup_cache : Final(M.dup_cache[i].ack) =>
                         M.dup_cache[i].ack.message_id < MessageId(R, Len(Log(M)))
                    /\ Log(M) # << >> => LastKey(M).message_id >= MessageId(R, Len(Log(M)) - 1)
  BY DEF Promised
<1>1. /\ L \in EndState(Message, Message) /\ R \in EndState(Message, Message)
      /\ M \in EndState(Message, Message) /\ R.role = L.role
  BY SenderFields DEF Turning
<1>2. MovesTransfer(L, R, heard, sends)  BY DEF Turning, Turns
<1>3. /\ Books(R, box) /\ R.submitted >= L.submitted /\ Whole(L)
      /\ SameTransfer(L, R) \/ Starts(L, R, sends) \/ Confirms(L, R, heard)
  BY <1>1, <1>2, BooksTurn
<1>4. /\ Len(Sent(L)) \in Nat /\ Len(Log(M)) \in Nat /\ L.submitted \in Nat
      /\ Len(Sent(R)) \in Nat /\ R.submitted \in Nat /\ R.tx.active \in BOOLEAN
      /\ Sent(L) \in Seq(Message \cup {NoBody})
  BY <1>1, LogTypes
<1>5. \A n : MessageId(R, n) = MessageId(L, n)  BY <1>1 DEF MessageId
<1>6. /\ Len(Sent(R)) =< Len(Log(M))
      /\ \A n \in 1 .. Len(Sent(R)) : Sent(R)[n] = box[n]
  <2>1. CASE Sent(R) = Sent(L)  BY <1>3, <2>1 DEF Promised
  <2>2. CASE Confirms(L, R, heard)
    <3>1. Len(Sent(L)) < Len(Log(M)) /\ L.tx.payload = box[Len(Sent(L)) + 1]
      BY <1>3, <2>2, ConfirmsNext
    <3>2. Sent(R) = Append(Sent(L), L.tx.payload)  BY <2>2 DEF Confirms, Sent
    <3>3. /\ Len(Sent(R)) = Len(Sent(L)) + 1 /\ Sent(R)[Len(Sent(L)) + 1] = L.tx.payload
          /\ \A n \in 1 .. Len(Sent(L)) : Sent(R)[n] = Sent(L)[n]
      BY <1>4, <3>2
    <3>4. \A n \in 1 .. Len(Sent(L)) + 1 : n = Len(Sent(L)) + 1 \/ n \in 1 .. Len(Sent(L))
      BY <1>4
    <3>5. \A n \in 1 .. Len(Sent(L)) : Sent(L)[n] = box[n]  BY <1>3 DEF Promised
    <3>6. Len(Sent(R)) =< Len(Log(M))  BY <1>4, <3>1, <3>3
    <3> QED  BY <3>1, <3>3, <3>4, <3>5, <3>6
  <2> QED  BY <1>3, <2>1, <2>2 DEF SameTransfer, Starts, SameBooks, Sent
<1>7. Len(Log(M)) =< R.submitted /\ \A n \in 1 .. Len(Log(M)) : Log(M)[n] = box[n]
  BY <1>3, <1>4 DEF Promised
<1>8. ASSUME NEW g, Has(c1, g), g.type = "DATA"
      PROVE  \E n \in 1 .. R.submitted : g.message_id = MessageId(R, n - 1) /\ g.payload = box[n]
  <2>1. CASE Has(c, g)
    <3>1. PICK n \in 1 .. L.submitted : g.message_id = MessageId(L, n - 1) /\ g.payload = box[n]
      BY <1>3, <1>8, <2>1 DEF Promised
    <3>2. n \in 1 .. R.submitted  BY <1>3, <1>4
    <3> QED  BY <1>5, <3>1, <3>2
  <2>2. CASE Emits(L, R, heard, g)
    <3>1. R.tx.active /\ g.message_id = R.tx.message_id /\ g.payload = R.tx.payload
      BY <1>8, <2>2, EmitsInTurn DEF Carries
    <3>2. R.submitted = Len(Sent(R)) + 1  BY <1>4, <3>1 DEF Whole, Busy
    <3>3. R.submitted \in 1 .. R.submitted /\ R.submitted - 1 = Len(Sent(R))  BY <1>4, <3>2
    <3>4. g.payload = box[R.submitted]  BY <1>3, <3>1 DEF Books
    <3>5. g.message_id = MessageId(R, R.submitted - 1)  BY <3>1, <3>3 DEF Ordered, MessageId, Sent
    <3> QED  BY <3>3, <3>4, <3>5
  <2> QED  BY <1>8, <2>1, <2>2 DEF Turning, Puts
<1>9. \A g : Has(k1, g) => Has(k, g)  BY DEF Turning, Takes
<1>10. /\ \A g : Has(k1, g) /\ Final(g) => g.message_id < MessageId(R, Len(Log(M)))
       /\ \A i \in DOMAIN M.dup_cache : Final(M.dup_cache[i].ack) =>
            M.dup_cache[i].ack.message_id < MessageId(R, Len(Log(M)))
       /\ Log(M) # << >> => LastKey(M).message_id >= MessageId(R, Len(Log(M)) - 1)
  BY <1>3, <1>5, <1>9 DEF Promised
<1> QED  BY <1>6, <1>7, <1>8, <1>10

\* A fresh segment comes after everything in the cache, and only when nothing waits to be
\* collected: a beacon that waits has taken the key of the message being reassembled.
LEMMA FreshNew ==
  ASSUME NEW L, NEW R, NEW M, NEW c, NEW c1, NEW k, NEW k1, NEW heard, NEW new, NEW sends, NEW ids,
         Turning(L, R, M, c, c1, k, k1, heard, new, sends, ids),
         Ordered(M, k), Bound(M, k, L), Above(M, k, L), Marks(M, k, L), Settled(M, k),
         L.role = "initiator" /\ M.role = "responder" => Answers(L, M, k),
         NEW f \in heard, Fresh(L, f)
  PROVE  /\ L.delivered = NoBody
         /\ Marked(L) => f.message_id > LastKey(L).message_id
         /\ f.message_id \in Nat /\ (L.dup_cache # << >> => LastKey(L).message_id \in Nat)
<1>1. f.type = "DATA" /\ Keyed(f) /\ dup_lookup(L, f.session_id, f.message_id) = {}
  BY DEF Fresh, Keyed
<1>2. Has(k, f) /\ f.message_id \in Nat  BY <1>1, HeardOne, FreshOrdered
<1>3. L \in EndState(Message, Message)  BY DEF Turning
<1>4. f.session_id = L.session_id  BY FreshBinds
<1>5. L.dup_cache # << >> => LastKey(L).message_id \in Nat /\ Len(L.dup_cache) \in DOMAIN L.dup_cache
  BY <1>3, LastKeyType
<1>6. ASSUME Marked(L) PROVE f.message_id > LastKey(L).message_id
  <2>1. /\ L.dup_cache # << >> /\ LastKey(L).session_id = L.session_id
        /\ f.message_id >= LastKey(L).message_id
    BY <1>1, <1>2, <1>6 DEF Marks
  <2>2. f.message_id # LastKey(L).message_id
    <3> SUFFICES ASSUME f.message_id = LastKey(L).message_id PROVE FALSE
      OBVIOUS
    <3>1. Len(L.dup_cache) \in dup_lookup(L, f.session_id, f.message_id)
      BY <1>4, <1>5, <2>1 DEF dup_lookup, LastKey
    <3> QED  BY <1>1, <3>1
  <2> QED  BY <1>2, <1>5, <2>1, <2>2
<1>7. L.delivered = NoBody
  <2> SUFFICES ASSUME L.delivered # NoBody PROVE FALSE
    OBVIOUS
  <2>1. L.rx.active /\ L.rx.message_id = f.message_id  BY DEF Fresh
  <2>2. Marked(L)  BY <2>1 DEF Marked
  <2>3. L.dup_cache # << >> /\ LastKey(L).message_id >= f.message_id  BY <2>1, <2>2 DEF Marks
  <2> QED  BY <1>2, <1>5, <1>6, <2>2, <2>3
<1> QED  BY <1>2, <1>5, <1>6, <1>7

\* And it is of the next message.
LEMMA FreshNext ==
  ASSUME NEW L, NEW R, NEW M, NEW c, NEW c1, NEW k, NEW k1, NEW heard, NEW new, NEW sends, NEW ids,
         Turning(L, R, M, c, c1, k, k1, heard, new, sends, ids),
         Ordered(M, k), Bound(M, k, L), Above(M, k, L), Marks(M, k, L), Settled(M, k),
         L.role = "initiator" /\ M.role = "responder" => Answers(L, M, k),
         NEW box, Promised(M, k, L, c, box), Whole(M),
         NEW f \in heard, Fresh(L, f)
  PROVE  /\ f.message_id = MessageId(M, Len(Log(L))) /\ f.payload = box[Len(Log(L)) + 1]
         /\ Len(Log(L)) < M.submitted
<1>1. /\ Marked(L) => f.message_id > LastKey(L).message_id
      /\ f.message_id \in Nat /\ (L.dup_cache # << >> => LastKey(L).message_id \in Nat)
  BY FreshNew
<1>2. L \in EndState(Message, Message) /\ M \in EndState(Message, Message)  BY DEF Turning
<1>3. /\ Len(Log(L)) \in Nat /\ Len(Sent(M)) \in Nat /\ M.submitted \in Nat /\ Busy(M) \in 0 .. 1
      /\ Log(L) \in Seq(Message)
  BY <1>2, LogTypes
<1>4. FirstMessageId(M.role) \in Nat  BY DEF FirstMessageId
<1>5. PICK n \in 1 .. M.submitted : f.message_id = MessageId(M, n - 1) /\ f.payload = box[n]
  <2>1. Has(k, f) /\ f.type = "DATA"  BY HeardOne DEF Fresh
  <2> QED  BY <2>1 DEF Promised
<1>6. n > Len(Log(L))
  <2>1. CASE Log(L) = << >>
    <3>1. Len(Log(L)) = 0  BY <2>1
    <3> QED  BY <1>3, <3>1
  <2>2. CASE Log(L) # << >>
    <3>1. Marked(L)  BY <2>2 DEF Marked, Log
    <3>2. L.dup_cache # << >> /\ LastKey(L).message_id >= MessageId(M, Len(Log(L)) - 1)
      BY <2>2, <3>1 DEF Marks, Promised
    <3> QED  BY <1>1, <1>3, <1>4, <1>5, <3>1, <3>2 DEF MessageId
  <2> QED  BY <2>1, <2>2
<1>7. n =< Len(Log(L)) + 1
  <2>1. M.submitted =< Len(Sent(M)) + 1  BY <1>3 DEF Whole
  <2>2. Len(Sent(M)) =< Len(Log(L))  BY DEF Promised
  <2> QED  BY <1>3, <2>1, <2>2
<1>8. n = Len(Log(L)) + 1  BY <1>3, <1>6, <1>7
<1>9. n - 1 = Len(Log(L)) /\ Len(Log(L)) < M.submitted  BY <1>3, <1>8
<1> QED  BY <1>5, <1>8, <1>9

\* The final ACKs that come to be in the cache or queued.
LEMMA FinalsEmitted ==
  ASSUME NEW L, NEW R, NEW M, NEW c, NEW c1, NEW k, NEW k1, NEW heard, NEW new, NEW sends, NEW ids,
         Turning(L, R, M, c, c1, k, k1, heard, new, sends, ids), NEW g, Emits(L, R, heard, g), Final(g)
  PROVE  \E i \in DOMAIN R.dup_cache : g = R.dup_cache[i].ack
BY EmitsInTurn DEF Final

\* A receipt that is not a delivery adds no final ACK to the cache.
LEMMA FinalsKept ==
  ASSUME NEW L, NEW R, NEW M, NEW c, NEW c1, NEW k, NEW k1, NEW heard, NEW new, NEW sends, NEW ids,
         Turning(L, R, M, c, c1, k, k1, heard, new, sends, ids), ~Delivers(L, R, heard)
  PROVE  /\ Log(R) = Log(L)
         /\ \A i \in DOMAIN R.dup_cache : Final(R.dup_cache[i].ack) =>
              \E j \in DOMAIN L.dup_cache : R.dup_cache[i] = L.dup_cache[j]
<1>1. CASE TakesBeacon(L, R, heard)
  <2>1. PICK key : /\ key.ack = ZeroFrame /\ Remembers(L, R, key)
                   /\ R.stats.messages_delivered = L.stats.messages_delivered
    BY <1>1 DEF TakesBeacon
  <2>2. L.dup_cache \in Seq(DupEntry)  BY DEF Turning, EndState
  <2>3. \A i \in DOMAIN R.dup_cache :
          R.dup_cache[i] = key \/ \E j \in DOMAIN L.dup_cache : R.dup_cache[i] = L.dup_cache[j]
    BY <2>1, <2>2, RemembersWhat
  <2>4. ~Final(ZeroFrame)  BY DEF Final, ZeroFrame
  <2> QED  BY <2>1, <2>3, <2>4 DEF Log
<1>2. CASE \/ R.dup_cache = << >> /\ SameDeliveries(L, R)
           \/ /\ R.dup_cache = L.dup_cache
              /\ R.stats.messages_delivered = L.stats.messages_delivered
  BY <1>2 DEF SameDeliveries, Log
<1> QED
  BY <1>1, <1>2
  DEF Turning, Turns, MovesReceipt, Idles, Leaves, Reassembles, Collects, SameDeliveries

\* A delivery is of the next message, and its final ACK confirms no more than that.
LEMMA PromisedDelivers ==
  ASSUME NEW L, NEW R, NEW M, NEW c, NEW c1, NEW k, NEW k1, NEW heard, NEW new, NEW sends, NEW ids,
         Turning(L, R, M, c, c1, k, k1, heard, new, sends, ids),
         Ordered(M, k), Bound(M, k, L), Above(M, k, L), Marks(M, k, L), Settled(M, k),
         L.role = "initiator" /\ M.role = "responder" => Answers(L, M, k),
         NEW box, Promised(M, k, L, c, box), Whole(M), Delivers(L, R, heard)
  PROVE  /\ Len(Log(R)) = Len(Log(L)) + 1 /\ Len(Log(R)) =< M.submitted
         /\ \A n \in 1 .. Len(Log(R)) : Log(R)[n] = box[n]
         /\ \A i \in DOMAIN R.dup_cache : Final(R.dup_cache[i].ack) =>
              R.dup_cache[i].ack.message_id < MessageId(M, Len(Log(R)))
         /\ Log(R) # << >> => LastKey(R).message_id >= MessageId(M, Len(Log(R)) - 1)
<1>1. PICK f \in heard : \E key :
        /\ Fresh(L, f) /\ key.message_id = f.message_id
        /\ key.ack.message_id = f.message_id /\ Remembers(L, R, key)
        /\ R.stats.messages_delivered = Append(L.stats.messages_delivered, f.payload)
  BY DEF Delivers
<1>2. PICK key :
        /\ key.message_id = f.message_id
        /\ key.ack.message_id = f.message_id /\ Remembers(L, R, key)
  BY <1>1
<1>3. L \in EndState(Message, Message) /\ M \in EndState(Message, Message)  BY DEF Turning
<1>4. /\ Len(Log(L)) \in Nat /\ M.submitted \in Nat /\ Log(L) \in Seq(Message)
      /\ L.dup_cache \in Seq(DupEntry) /\ FirstMessageId(M.role) \in Nat
  BY <1>3, LogTypes DEF FirstMessageId
<1>5. /\ f.message_id = MessageId(M, Len(Log(L))) /\ f.payload = box[Len(Log(L)) + 1]
      /\ Len(Log(L)) < M.submitted
  BY <1>1, FreshNext
<1>6. Log(R) = Append(Log(L), f.payload)  BY <1>1 DEF Log
<1>7. /\ Len(Log(R)) = Len(Log(L)) + 1 /\ Log(R)[Len(Log(L)) + 1] = f.payload
      /\ \A n \in 1 .. Len(Log(L)) : Log(R)[n] = Log(L)[n]
  BY <1>4, <1>6
<1>8. \A n \in 1 .. Len(Log(L)) + 1 : n = Len(Log(L)) + 1 \/ n \in 1 .. Len(Log(L))  BY <1>4
<1>9. \A n \in 1 .. Len(Log(L)) : Log(L)[n] = box[n]  BY DEF Promised
<1>10. \A n \in 1 .. Len(Log(R)) : Log(R)[n] = box[n]  BY <1>5, <1>7, <1>8, <1>9
<1>11. /\ MessageId(M, Len(Log(L))) < MessageId(M, Len(Log(R)))
       /\ \A n \in Nat : n < MessageId(M, Len(Log(L))) => n < MessageId(M, Len(Log(R)))
       /\ Len(Log(R)) - 1 = Len(Log(L))
  BY <1>4, <1>7 DEF MessageId
<1>12. /\ R.dup_cache # << >> /\ LastKey(R) = key
       /\ \A i \in DOMAIN R.dup_cache :
            R.dup_cache[i] = key \/ \E j \in DOMAIN L.dup_cache : R.dup_cache[i] = L.dup_cache[j]
  BY <1>2, <1>4, RemembersWhat DEF LastKey
<1>13. ASSUME NEW i \in DOMAIN R.dup_cache, Final(R.dup_cache[i].ack)
       PROVE  R.dup_cache[i].ack.message_id < MessageId(M, Len(Log(R)))
  <2>1. CASE R.dup_cache[i] = key  BY <1>2, <1>5, <1>11, <2>1
  <2>2. ASSUME NEW j \in DOMAIN L.dup_cache, R.dup_cache[i] = L.dup_cache[j]
        PROVE  R.dup_cache[i].ack.message_id < MessageId(M, Len(Log(R)))
    <3>1. L.dup_cache[j] \in DupEntry  BY <1>4, <2>2
    <3>2. L.dup_cache[j].ack.message_id \in Nat  BY <3>1 DEF DupEntry, Frame, AnyFrame
    <3>3. L.dup_cache[j].ack.message_id < MessageId(M, Len(Log(L)))
      BY <1>13, <2>2 DEF Promised
    <3> QED  BY <1>11, <2>2, <3>2, <3>3
  <2> QED  BY <1>12, <2>1, <2>2
<1>14. LastKey(R).message_id >= MessageId(M, Len(Log(R)) - 1)
  BY <1>2, <1>4, <1>5, <1>11, <1>12 DEF MessageId
<1> QED  BY <1>4, <1>5, <1>7, <1>10, <1>13, <1>14

\* A turn of the receiver: what it hears is of the next message, or of one it has delivered.
LEMMA PromisedReceiver ==
  ASSUME NEW L, NEW R, NEW M, NEW c, NEW c1, NEW k, NEW k1, NEW heard, NEW new, NEW sends, NEW ids,
         Turning(L, R, M, c, c1, k, k1, heard, new, sends, ids),
         Ordered(M, k), Bound(M, k, L), Above(M, k, L), Marks(M, k, L), Settled(M, k),
         L.role = "initiator" /\ M.role = "responder" => Answers(L, M, k),
         NEW box, Promised(M, k, L, c, box)
  PROVE  Promised(M, k1, R, c1, box)
<1> SUFFICES ASSUME Whole(M) PROVE Promised(M, k1, R, c1, box)
  BY DEF Promised
<1>1. /\ L \in EndState(Message, Message) /\ R \in EndState(Message, Message)
      /\ M \in EndState(Message, Message)
  BY DEF Turning
<1>2. /\ Len(Log(L)) \in Nat /\ Len(Log(R)) \in Nat /\ M.submitted \in Nat /\ Len(Sent(M)) \in Nat
      /\ FirstMessageId(M.role) \in Nat /\ L.dup_cache \in Seq(DupEntry)
  BY <1>1, LogTypes DEF FirstMessageId
<1>3. /\ Len(Sent(M)) =< Len(Log(L)) /\ Len(Log(L)) =< M.submitted
      /\ \A n \in 1 .. Len(Sent(M)) : Sent(M)[n] = box[n]
      /\ \A n \in 1 .. Len(Log(L)) : Log(L)[n] = box[n]
      /\ \A g : Has(k, g) /\ g.type = "DATA" =>
           \E n \in 1 .. M.submitted : g.message_id = MessageId(M, n - 1) /\ g.payload = box[n]
      /\ \A g : Has(c, g) /\ Final(g) => g.message_id < MessageId(M, Len(Log(L)))
      /\ \A i \in DOMAIN L.dup_cache : Final(L.dup_cache[i].ack) =>
           L.dup_cache[i].ack.message_id < MessageId(M, Len(Log(L)))
      /\ Log(L) # << >> => LastKey(L).message_id >= MessageId(M, Len(Log(L)) - 1)
  BY DEF Promised
<1>4. /\ Len(Log(R)) >= Len(Log(L)) /\ Len(Log(R)) =< M.submitted
      /\ \A n \in 1 .. Len(Log(R)) : Log(R)[n] = box[n]
      /\ \A i \in DOMAIN R.dup_cache : Final(R.dup_cache[i].ack) =>
           R.dup_cache[i].ack.message_id < MessageId(M, Len(Log(R)))
      /\ Log(R) # << >> => LastKey(R).message_id >= MessageId(M, Len(Log(R)) - 1)
  <2>1. CASE Delivers(L, R, heard)
    <3>1. /\ Len(Log(R)) = Len(Log(L)) + 1 /\ Len(Log(R)) =< M.submitted
          /\ \A n \in 1 .. Len(Log(R)) : Log(R)[n] = box[n]
          /\ \A i \in DOMAIN R.dup_cache : Final(R.dup_cache[i].ack) =>
               R.dup_cache[i].ack.message_id < MessageId(M, Len(Log(R)))
          /\ Log(R) # << >> => LastKey(R).message_id >= MessageId(M, Len(Log(R)) - 1)
      BY <2>1, PromisedDelivers
    <3> QED  BY <1>2, <3>1
  <2>2. CASE ~Delivers(L, R, heard)
    <3>1. Log(R) = Log(L)  BY <2>2, FinalsKept
    <3>2. \A i \in DOMAIN R.dup_cache : Final(R.dup_cache[i].ack) =>
            \E j \in DOMAIN L.dup_cache : R.dup_cache[i] = L.dup_cache[j]
      BY <2>2, FinalsKept
    <3>3. \A i \in DOMAIN R.dup_cache : Final(R.dup_cache[i].ack) =>
            R.dup_cache[i].ack.message_id < MessageId(M, Len(Log(R)))
      BY <1>3, <3>1, <3>2
    <3>4. Log(R) # << >> => LastKey(R).message_id >= MessageId(M, Len(Log(R)) - 1)
      <4> SUFFICES ASSUME Log(R) # << >>
                   PROVE  LastKey(R).message_id >= MessageId(M, Len(Log(R)) - 1)
        OBVIOUS
      <4>1. LastKey(L).message_id >= MessageId(M, Len(Log(L)) - 1)  BY <1>3, <3>1
      <4>2. Marked(L) /\ Touched(L)  BY <3>1 DEF Marked, Touched, Log
      <4>3. L.dup_cache # << >>  BY <4>2 DEF Marks
      <4>4. LastKey(L).message_id \in Nat  BY <1>1, <4>3, LastKeyType
      <4>5. CASE TakesBeacon(L, R, heard)
        <5>1. PICK f \in heard : \E key : /\ f.type = "BEACON" /\ key.message_id = f.message_id
                                          /\ Remembers(L, R, key)
          BY <4>5 DEF TakesBeacon
        <5>2. PICK key : key.message_id = f.message_id /\ Remembers(L, R, key)  BY <5>1
        <5>3. LastKey(R) = key  BY <1>2, <5>2, RemembersWhat DEF LastKey
        <5>4. Keyed(f)  BY <5>1 DEF Keyed
        <5>5. Has(k, f) /\ f.message_id \in Nat  BY <5>4, HeardOne, FreshOrdered
        <5>6. f.message_id >= LastKey(L).message_id  BY <4>2, <5>4, <5>5 DEF Marks
        <5> QED  BY <1>2, <3>1, <4>1, <4>4, <5>2, <5>3, <5>5, <5>6 DEF MessageId
      <4>6. CASE Leaves(L, R, heard)
        <5>1. ~Joins(L, R, heard)
          <6>1. L.session_open /\ M.session_id = L.session_id  BY <4>2 DEF Bound
          <6> QED  BY <6>1, SessionStays
        <5> QED  BY <4>6, <5>1 DEF Leaves
      <4>7. CASE R.dup_cache = L.dup_cache  BY <3>1, <4>1, <4>7 DEF LastKey
      <4> QED
        BY <2>2, <4>5, <4>6, <4>7
        DEF Turning, Turns, MovesReceipt, Idles, Reassembles, Collects
    <3>5. Len(Log(R)) >= Len(Log(L)) /\ Len(Log(R)) =< M.submitted
          /\ \A n \in 1 .. Len(Log(R)) : Log(R)[n] = box[n]
      BY <1>2, <1>3, <3>1
    <3> QED  BY <3>3, <3>4, <3>5
  <2> QED  BY <2>1, <2>2
<1>5. \A g : Has(k1, g) => Has(k, g)  BY DEF Turning, Takes
<1>6. Len(Sent(M)) =< Len(Log(R))  BY <1>2, <1>3, <1>4
<1>7. ASSUME NEW g, Has(c1, g), Final(g) PROVE g.message_id < MessageId(M, Len(Log(R)))
  <2>1. CASE Has(c, g)
    <3>1. g.message_id < MessageId(M, Len(Log(L)))  BY <1>3, <1>7, <2>1
    <3>2. g.message_id \in Nat  BY <2>1 DEF Turning, AnyFrame, Frame
    <3> QED  BY <1>2, <1>4, <3>1, <3>2 DEF MessageId
  <2>2. CASE Emits(L, R, heard, g)
    <3>1. \E i \in DOMAIN R.dup_cache : g = R.dup_cache[i].ack  BY <1>7, <2>2, FinalsEmitted
    <3> QED  BY <1>4, <1>7, <3>1
  <2> QED  BY <1>7, <2>1, <2>2 DEF Turning, Puts
<1> QED  BY <1>3, <1>4, <1>5, <1>6, <1>7 DEF Promised

----------------------------------------------------------------------------
(* The promise, in every reachable state.                                  *)

\* All of it that is about the messages of e, which go by c to d, whose ACKs come by k.
Promise(e, c, d, k, box) ==
  /\ Silent(e, c, d, k) /\ Settled(e, c) /\ Ordered(e, c)
  /\ Bound(e, c, d) /\ Above(e, c, d) /\ Marks(e, c, d)
  /\ e.role = "initiator" /\ d.role = "responder" => Answers(e, d, k)
  /\ Promised(e, c, d, k, box)

\* A turn of the sender keeps the promise about its messages.
LEMMA PromiseSender ==
  ASSUME NEW L, NEW R, NEW M, NEW c, NEW c1, NEW k, NEW k1, NEW heard, NEW new, NEW sends, NEW ids,
         Turning(L, R, M, c, c1, k, k1, heard, new, sends, ids),
         NEW box, sends = {} \/ sends = {box[L.submitted + 1]}, Books(L, box),
         L.tx.active => Len(L.stats.messages_sent) < 32767, Promise(L, c, M, k, box)
  PROVE  Promise(R, c1, M, k1, box)
<1>1. /\ Silent(L, c, M, k) /\ Settled(L, c) /\ Ordered(L, c)
      /\ Bound(L, c, M) /\ Above(L, c, M) /\ Marks(L, c, M)
      /\ L.role = "initiator" /\ M.role = "responder" => Answers(L, M, k)
      /\ Promised(L, c, M, k, box)
  BY DEF Promise
<1>2. R.role = L.role  BY SenderFields
<1>3. Silent(R, c1, M, k1)  BY <1>1, SilentSender
<1>4. Settled(R, c1)  BY <1>1, <1>2, SettledSender
<1>5. Ordered(R, c1) /\ R.next_message_id >= L.next_message_id  BY <1>1, OrderedSender
<1>6. Bound(R, c1, M)  BY <1>1, BoundSender
<1>7. Above(R, c1, M)  BY <1>1, <1>5, AboveSender
<1>8. Marks(R, c1, M)  BY <1>1, <1>5, MarksSender
<1>9. ASSUME R.role = "initiator", M.role = "responder" PROVE Answers(R, M, k1)
  <2>1. L.role = "initiator" /\ Answers(L, M, k)  BY <1>1, <1>2, <1>9
  <2> QED  BY <1>9, <2>1, AnswersInitiator
<1>10. Promised(R, c1, M, k1, box)  BY <1>1, <1>5, PromisedSender
<1> QED  BY <1>3, <1>4, <1>5, <1>6, <1>7, <1>8, <1>9, <1>10 DEF Promise

\* And a turn of the receiver, about the messages of its peer.
LEMMA PromiseReceiver ==
  ASSUME NEW L, NEW R, NEW M, NEW c, NEW c1, NEW k, NEW k1, NEW heard, NEW new, NEW sends, NEW ids,
         Turning(L, R, M, c, c1, k, k1, heard, new, sends, ids),
         NEW box, Promise(M, k, L, c, box), NEW own, Promise(L, c, M, k, own)
  PROVE  Promise(M, k1, R, c1, box)
<1>1. /\ Silent(M, k, L, c) /\ Settled(M, k) /\ Ordered(M, k)
      /\ Bound(M, k, L) /\ Above(M, k, L) /\ Marks(M, k, L)
      /\ M.role = "initiator" /\ L.role = "responder" => Answers(M, L, c)
      /\ Promised(M, k, L, c, box)
      /\ L.role = "initiator" /\ M.role = "responder" => Answers(L, M, k)
  BY DEF Promise
<1>2. R.role = L.role /\ Takes(heard, k, k1)  BY SenderFields DEF Turning
<1>3. Silent(M, k1, R, c1)  BY <1>1, SilentReceiver
<1>4. Settled(M, k1)  BY <1>1, <1>2, SettledReceiver
<1>5. Ordered(M, k1)  BY <1>1, <1>2, OrderedReceiver
<1>6. Bound(M, k1, R)  BY <1>1, BoundReceiver
<1>7. Above(M, k1, R)  BY <1>1, AboveReceiver
<1>8. Marks(M, k1, R)  BY <1>1, MarksReceiver
<1>9. M.role = "initiator" /\ R.role = "responder" => Answers(M, R, c1)
  BY <1>1, <1>2, AnswersResponder
<1>10. Promised(M, k1, R, c1, box)  BY <1>1, PromisedReceiver
<1> QED  BY <1>3, <1>4, <1>5, <1>6, <1>7, <1>8, <1>9, <1>10 DEF Promise

\* The books of an end that forgets.
LEMMA BooksForgets ==
  ASSUME NEW L \in EndState(Message, Message), NEW R, NEW box, Forgets(L, R), Books(L, box)
  PROVE  Books(R, box)
<1>1. ~NoTx.active  BY DEF NoTx
<1>2. R.tx = L.tx \/ ~R.tx.active  BY <1>1 DEF Forgets
<1>3. /\ Len(Sent(L)) \in Nat /\ L.submitted \in Nat /\ Busy(L) \in 0 .. 1
      /\ R.submitted = L.submitted /\ Sent(R) = Sent(L)
  BY LogTypes DEF Forgets, Sent
<1> QED  BY <1>2, <1>3 DEF Books, Busy

Promises ==
  /\ \A e \in End : Books(link[e], Outbox[e])
  /\ NothingForgotten =>
       \A e \in End :
         Promise(link[e], Channel(e), link[Peer(e)], Channel(Peer(e)), Outbox[e])

\* Nothing is promised at first that is not kept.
LEMMA InitPromises == Init => Promises
<1> SUFFICES ASSUME Init, NEW e \in End
             PROVE  /\ Books(link[e], Outbox[e])
                    /\ Promise(link[e], Channel(e), link[Peer(e)], Channel(Peer(e)), Outbox[e])
  BY DEF Promises
<1>1. \A x \in End : link[x] = kal_link_create(x) /\ air[x] = << >>  BY DEF Init
<1>2. \A x \in End :
        /\ ~link[x].session_open /\ ~link[x].tx.active /\ ~link[x].tx.started
        /\ ~link[x].rx.active /\ link[x].dup_cache = << >> /\ link[x].out_frames = << >>
        /\ link[x].next_message_id = FirstMessageId(link[x].role)
        /\ link[x].submitted = 0 /\ Sent(link[x]) = << >> /\ Log(link[x]) = << >>
  <2>1. \A x \in End : LET L == kal_link_create(x) IN
          /\ L.session_open = FALSE /\ L.tx = NoTx /\ L.rx = NoRx
          /\ L.dup_cache = << >> /\ L.out_frames = << >>
          /\ L.next_message_id = FirstMessageId(L.role) /\ L.submitted = 0
          /\ L.stats.messages_sent = << >> /\ L.stats.messages_delivered = << >>
    BY DEF kal_link_create
  <2>2. ~NoTx.active /\ ~NoTx.started /\ ~NoRx.active  BY DEF NoTx, NoRx
  <2> QED  BY <1>1, <2>1, <2>2 DEF Sent, Log
<1>3. \A x \in End : Channel(x) = << >>  BY <1>1, <1>2 DEF Channel
<1>4. \A g, h : ~Has(<< >>, g) /\ ~HasBehind(<< >>, g, h)  BY DEF Has, HasBehind
<1> DEFINE d == Peer(e)
           L == link[e]
           M == link[d]
<1>5. d \in End  BY PeerType
<1>6. Len(<< >>) = 0 /\ DOMAIN << >> = {}  OBVIOUS
<1>7. /\ ~L.session_open /\ ~L.tx.active /\ ~L.tx.started
      /\ L.next_message_id = FirstMessageId(L.role)
      /\ L.submitted = 0 /\ Sent(L) = << >>
      /\ ~M.session_open /\ ~M.rx.active /\ M.dup_cache = << >> /\ Log(M) = << >>
      /\ Channel(e) = << >> /\ Channel(d) = << >>
  BY <1>2, <1>3, <1>5
<1> HIDE DEF d, L, M
<1>8. Books(L, Outbox[e])  BY <1>6, <1>7 DEF Books, Busy
<1>9. ~Touched(M) /\ ~Marked(M)  BY <1>7 DEF Touched, Marked, Log
<1>10. FirstMessageId(L.role) \in Nat  BY DEF FirstMessageId
<1>11. Silent(L, << >>, M, << >>) /\ Settled(L, << >>)
  BY <1>4, <1>6, <1>7, <1>9 DEF Silent, Settled
<1>12. Ordered(L, << >>)  BY <1>4, <1>6, <1>7, <1>10 DEF Ordered, Sent
<1>13. Bound(L, << >>, M) /\ Above(L, << >>, M) /\ Marks(L, << >>, M)
  BY <1>7, <1>9 DEF Bound, Above, Marks
<1>14. Answers(L, M, << >>)  BY <1>4, <1>7 DEF Answers, Answered
<1>15. Promised(L, << >>, M, << >>, Outbox[e])
  BY <1>4, <1>6, <1>7 DEF Promised
<1>16. Promise(L, << >>, M, << >>, Outbox[e])
  BY <1>11, <1>12, <1>13, <1>14, <1>15 DEF Promise
<1> QED  BY <1>7, <1>8, <1>16 DEF L, M, d

\* Both ends know their peers.
LEMMA SessionsKnownBoth ==
  Sessions => \A e \in End : Known(link[e], Channel(e), link[Peer(e)], Channel(Peer(e)), drawn)
BY SessionsKnown

\* And after a step they still do.
LEMMA SessionsKnownNext ==
  Sessions' =>
    \A e \in End : Known(link'[e], Channel(e)', link'[Peer(e)], Channel(Peer(e))', drawn')
<1>1. (Sessions => \A e \in End :
         Known(link[e], Channel(e), link[Peer(e)], Channel(Peer(e)), drawn))'
  BY SessionsKnownBoth, PTL
<1> QED  BY <1>1

\* A step that forgets nothing is a turn of its end.
LEMMA StepTurning ==
  ASSUME IInv, IInv', Sessions, Sessions', NEW e \in End, NEW heard, NEW new, NEW sends,
         Step(e, heard, new, sends), Turns(link[e], link'[e], heard, new, sends)
  PROVE  Turning(link[e], link'[e], link[Peer(e)], Channel(e), Channel(e)', Channel(Peer(e)),
                 Channel(Peer(e))', heard, new, sends, drawn)
<1> DEFINE d == Peer(e)
<1>1. d \in End /\ Peer(d) = e  BY PeerType
<1>2. /\ link[e] \in EndState(Message, Message) /\ link'[e] \in EndState(Message, Message)
      /\ link[d] \in EndState(Message, Message)
      /\ Channel(e) \in Seq(Frame(Message)) /\ Channel(d) \in Seq(Frame(Message))
  BY <1>1, StepTypes
<1>3. \A g : Has(Channel(e), g) \/ Has(Channel(d), g) => g \in AnyFrame
  <2>1. \A s \in Seq(Frame(Message)) : \A i \in DOMAIN s : s[i] \in Frame(Message)
    OBVIOUS
  <2> QED  BY <1>2, <2>1 DEF Has, Frame
<1>4. /\ Known(link[e], Channel(e), link[d], Channel(d), drawn)
      /\ Known(link[d], Channel(d), link[e], Channel(e), drawn)
  BY <1>1, SessionsKnown
<1>5. link'[d] = link[d] /\ drawn' = drawn \cup new  BY DEF Step
<1>6. /\ Known(link'[e], Channel(e)', link[d], Channel(d)', drawn \cup new)
      /\ Known(link[d], Channel(d)', link'[e], Channel(e)', drawn \cup new)
  <2>1. /\ Known(link'[e], Channel(e)', link'[d], Channel(d)', drawn')
        /\ Known(link'[d], Channel(d)', link'[e], Channel(e)', drawn')
    BY <1>1, SessionsKnownNext
  <2> QED  BY <1>5, <2>1
<1> QED  BY <1>2, <1>3, <1>4, <1>6 DEF Step, Turning, d

\* Message ids are 16 bits, and every message takes up two.
FewMessages == \A e \in End : Len(Outbox[e]) < 32768

\* Every step of an end keeps the promise about both directions.
LEMMA StepPromises ==
  ASSUME IInv, IInv', Sessions, Sessions', Promises, FewMessages,
         NEW e \in End, NEW heard, NEW new, NEW sends, Step(e, heard, new, sends)
  PROVE  Promises'
<1> DEFINE d == Peer(e)
           L == link[e]
           R == link'[e]
           M == link[d]
           c == Channel(e)
           c1 == Channel(e)'
           k == Channel(d)
           k1 == Channel(d)'
           own == Outbox[e]
           box == Outbox[d]
<1>1. /\ d \in End /\ d # e /\ \A x \in End : x = e \/ x = d
      /\ Peer(d) = e /\ L \in EndState(Message, Message) /\ R \in EndState(Message, Message)
  BY StepTypes, PeerType
<1>2. /\ link'[d] = M /\ Books(L, own) /\ Books(M, box)
      /\ sends = {} \/ sends = {own[L.submitted + 1]}
      /\ L.submitted =< Len(own) /\ Len(own) < 32768 /\ Len(own) \in Nat
  <2>1. Outbox[e] \in Seq(Message)  BY DataAssumption
  <2> QED  BY <1>1, <2>1 DEF Step, Promises, NextMessage, IInv, FewMessages
<1>3. L.tx.active => Len(L.stats.messages_sent) < 32767
  <2>1. Len(Sent(L)) \in Nat /\ L.submitted \in Nat  BY <1>1, LogTypes
  <2> HIDE DEF L, own
  <2> QED  BY <1>2, <2>1 DEF Books, Busy, Sent
<1>4. Books(R, own)
  <2>1. CASE Turns(L, R, heard, new, sends)
    <3> HIDE DEF L, R, own
    <3> QED  BY <1>1, <1>2, <2>1, BooksTurn DEF Turns
  <2>2. CASE Forgets(L, R)
    <3> HIDE DEF L, R, own
    <3> QED  BY <1>1, <1>2, <2>2, BooksForgets
  <2> QED  BY <2>1, <2>2 DEF Step
<1>5. ASSUME NothingForgotten'
      PROVE  Promise(R, c1, M, k1, own) /\ Promise(M, k1, R, c1, box)
  <2>1. NothingForgotten /\ Turns(L, R, heard, new, sends)  BY <1>5 DEF Step
  <2>2. Turning(L, R, M, c, c1, k, k1, heard, new, sends, drawn)  BY <2>1, StepTurning
  <2>3. Promise(L, c, M, k, own) /\ Promise(M, k, L, c, box)  BY <1>1, <2>1 DEF Promises
  <2> HIDE DEF L, R, M, c, c1, k, k1, own, box
  <2>4. Promise(R, c1, M, k1, own)  BY <1>2, <1>3, <2>2, <2>3, PromiseSender
  <2>5. Promise(M, k1, R, c1, box)  BY <2>2, <2>3, PromiseReceiver
  <2> QED  BY <2>4, <2>5
<1>6. ASSUME NEW x \in End PROVE Books(link'[x], Outbox[x])
  BY <1>1, <1>2, <1>4
<1>7. ASSUME NothingForgotten', NEW x \in End
      PROVE  Promise(link'[x], Channel(x)', link'[Peer(x)], Channel(Peer(x))', Outbox[x])
  <2>1. CASE x = e  BY <1>2, <1>5, <1>7, <2>1
  <2>2. CASE x = d  BY <1>1, <1>2, <1>5, <1>7, <2>2
  <2> QED  BY <1>1, <2>1, <2>2
<1> QED  BY <1>6, <1>7 DEF Promises

\* In every reachable state, as long as no end has forgotten its state by a reset: what is
\* in flight is of the session and in the order of its ids, the cache and the reassembly are
\* behind it (handle_data), every message delivered is a prefix of those submitted unless a
\* transfer was abandoned, and only what was delivered is confirmed (handle_ack).
THEOREM PromisesHold ==
  ASSUME FewMessages
  PROVE  Spec => [](IInv /\ Sessions /\ Promises)
<1>1. Init => IInv /\ Sessions /\ Promises  BY InitInv, InitSessions, InitPromises
<1>2. IInv /\ Sessions /\ Promises /\ [Next]_vars => (IInv /\ Sessions /\ Promises)'
  <2> SUFFICES ASSUME IInv, Sessions, Promises, [Next]_vars
               PROVE  IInv' /\ Sessions' /\ Promises'
    OBVIOUS
  <2>1. IInv'  BY NextInv
  <2>2. PICK e \in End : \E heard \in SUBSET AnyFrame : \E ids, sends : Step(e, heard, ids, sends)
    BY <2>1, Steps
  <2>3. PICK heard \in SUBSET AnyFrame : \E ids, sends : Step(e, heard, ids, sends)  BY <2>2
  <2>4. PICK ids, sends : Step(e, heard, ids, sends)  BY <2>3
  <2>5. Sessions'  BY <2>1, <2>4, StepSessions
  <2>6. Promises'  BY <2>1, <2>4, <2>5, StepPromises
  <2> QED  BY <2>1, <2>5, <2>6
<1> QED  BY <1>1, <1>2, PTL DEF Spec

----------------------------------------------------------------------------
(* The link implements the mailbox.                                        *)

\* One more message is the next of the outbox.
LEMMA SubmitsNext ==
  ASSUME NEW box \in Seq(Message), NEW n \in Nat, n < Len(box)
  PROVE  SubSeq(box, 1, n + 1) = Append(SubSeq(box, 1, n), box[n + 1])
<1> DEFINE s == SubSeq(box, 1, n)
           t == SubSeq(box, 1, n + 1)
<1>1. \A i \in 1 .. n + 1 : box[i] \in Message  OBVIOUS
<1>2. s \in Seq(Message) /\ Len(s) = n /\ \A i \in 1 .. n : s[i] = box[i]
  <2>1. \A i \in 1 .. n : box[i] \in Message  BY <1>1
  <2>2. /\ s \in Seq(Message) /\ Len(s) = IF 1 =< n THEN n - 1 + 1 ELSE 0
        /\ \A i \in 1 .. n - 1 + 1 : s[i] = box[1 + i - 1]
    BY <2>1, SubSeqProperties
  <2> HIDE DEF s
  <2> QED  BY <2>2
<1>3. t \in Seq(Message) /\ Len(t) = n + 1 /\ \A i \in 1 .. n + 1 : t[i] = box[i]
  <2>2. /\ t \in Seq(Message) /\ Len(t) = IF 1 =< n + 1 THEN n + 1 - 1 + 1 ELSE 0
        /\ \A i \in 1 .. n + 1 - 1 + 1 : t[i] = box[1 + i - 1]
    BY <1>1, SubSeqProperties
  <2> HIDE DEF t
  <2> QED  BY <2>2
<1> HIDE DEF s, t
<1>4. box[n + 1] \in Message  BY <1>1
<1> DEFINE a == Append(s, box[n + 1])
<1>5. a \in Seq(Message) /\ Len(a) = n + 1 /\ \A i \in 1 .. n + 1 : a[i] = box[i]
  BY <1>2, <1>4
<1> HIDE DEF a
<1>6. t = a
  <2>1. Len(t) = Len(a) /\ \A i \in 1 .. Len(t) : t[i] = a[i]  BY <1>3, <1>5
  <2> QED  BY <1>3, <1>5, <2>1, SeqEqual
<1> QED  BY <1>6 DEF a, s, t

\* What an application has submitted.
LEMMA SubmittedLogType ==
  ASSUME IInv, NEW e \in End
  PROVE  /\ Len(SubmittedLog(e)) = link[e].submitted
         /\ DOMAIN SubmittedLog(e) = 1 .. link[e].submitted
         /\ \A n \in 1 .. link[e].submitted : SubmittedLog(e)[n] = Outbox[e][n]
         /\ link[e].submitted \in Nat
<1> DEFINE n == link[e].submitted
           s == SubSeq(Outbox[e], 1, n)
<1>1. n \in Nat /\ n =< Len(Outbox[e]) /\ Outbox[e] \in Seq(Message)
  BY DataAssumption, SubmittedType DEF IInv
<1> HIDE DEF n
<1>2. \A i \in 1 .. n : Outbox[e][i] \in Message  BY <1>1
<1>3. /\ s \in Seq(Message) /\ Len(s) = IF 1 =< n THEN n - 1 + 1 ELSE 0
      /\ \A i \in 1 .. n - 1 + 1 : s[i] = Outbox[e][1 + i - 1]
  BY <1>1, <1>2, SubSeqProperties
<1> HIDE DEF s
<1>4. /\ Len(s) = n /\ DOMAIN s = 1 .. n /\ \A i \in 1 .. n : s[i] = Outbox[e][i]
  BY <1>1, <1>3
<1> QED  BY <1>1, <1>4 DEF s, n, SubmittedLog

\* NoneAbandoned, by its part of the promise.
LEMMA WholeIsNone == \A e : NoneAbandoned(e) <=> Whole(link[e])
BY DEF NoneAbandoned, Whole, Sent, SentLog, Busy

\* Both mailboxes are empty at first.
LEMMA InitMailboxes == Init => Mailboxes!Init
<1> SUFFICES ASSUME Init PROVE Mailboxes!Init
  OBVIOUS
<1>1. \A e \in End : LET L == kal_link_create(e) IN
        /\ L.submitted = 0 /\ L.delivered = NoBody /\ L.tx = NoTx
        /\ L.stats.messages_sent = << >> /\ L.stats.messages_delivered = << >>
  BY DEF kal_link_create
<1>2. \A e \in End : link[e] = kal_link_create(e)  BY DEF Init
<1>3. \A e \in End :
        /\ link[e].submitted = 0 /\ link[e].delivered = NoBody /\ ~link[e].tx.active
        /\ link[e].stats.messages_sent = << >> /\ link[e].stats.messages_delivered = << >>
  BY <1>1, <1>2 DEF NoTx
<1>4. \A e \in End : SubmittedLog(e) = << >>
  <2> SUFFICES ASSUME NEW e \in End PROVE SubmittedLog(e) = << >>
    OBVIOUS
  <2>1. SubSeq(Outbox[e], 1, 0) = << >>  BY SubSeqEmpty
  <2> QED  BY <1>3, <2>1 DEF SubmittedLog
<1>5. \A e \in End : DeliveredFrom(e) = << >> /\ SentLog(e) = << >>
  BY <1>3, PeerType DEF DeliveredFrom, DeliveredLog, SentLog
<1>6. NothingForgotten
  BY DEF Init, NothingForgotten, Spent
<1>7. \A e \in End : Broken(e) = FALSE
  <2> SUFFICES ASSUME NEW e \in End PROVE Broken(e) = FALSE
    OBVIOUS
  <2>1. Len(<< >>) = 0  OBVIOUS
  <2>2. NoneAbandoned(e)
    <3>1. link[e].submitted = 0 /\ ~link[e].tx.active /\ Len(SentLog(e)) = 0
      BY <1>3, <2>1 DEF SentLog
    <3> QED  BY <3>1 DEF NoneAbandoned
  <2> QED  BY <1>6, <2>2 DEF Broken
<1>8. /\ [e \in End |-> SubmittedLog(e)] = [e \in End |-> << >>]
      /\ [e \in End |-> DeliveredFrom(e)] = [e \in End |-> << >>]
      /\ [e \in End |-> SentLog(e)] = [e \in End |-> << >>]
  BY <1>4, <1>5
<1>9. [e \in End |-> link[e].delivered] = [e \in End |-> NoBody]  BY <1>3
<1>10. [e \in End |-> Broken(e)] = [e \in End |-> FALSE]  BY <1>7
<1> QED  BY <1>8, <1>9, <1>10 DEF Mailboxes!Init

\* The mailbox that the link shows.
submittedBar == [e \in End |-> SubmittedLog(e)]
deliveredBar == [e \in End |-> DeliveredFrom(e)]
confirmedBar == [e \in End |-> SentLog(e)]
inboxBar     == [e \in End |-> link[e].delivered]
brokenBar    == [e \in End |-> Broken(e)]

\* A step of e changes what its application has submitted, seen confirmed and has to
\* collect, and what its peer's messages have come to.
LEMMA StepMailboxes ==
  ASSUME IInv, IInv', NEW e \in End, link'[Peer(e)] = link[Peer(e)]
  PROVE  /\ submittedBar' = [submittedBar EXCEPT ![e] = SubmittedLog(e)']
         /\ confirmedBar' = [confirmedBar EXCEPT ![e] = Sent(link'[e])]
         /\ inboxBar' = [inboxBar EXCEPT ![e] = link'[e].delivered]
         /\ deliveredBar' = [deliveredBar EXCEPT ![Peer(e)] = Log(link'[e])]
         /\ NothingForgotten' = NothingForgotten =>
              brokenBar' = [brokenBar EXCEPT ![e] = Broken(e)']
         /\ submittedBar[e] = SubmittedLog(e) /\ confirmedBar[e] = Sent(link[e])
         /\ inboxBar[e] = link[e].delivered /\ deliveredBar[Peer(e)] = Log(link[e])
         /\ brokenBar[e] = Broken(e)
         /\ submittedBar[Peer(e)] = SubmittedLog(Peer(e)) /\ brokenBar[Peer(e)] = Broken(Peer(e))
<1> DEFINE d == Peer(e)
<1>1. /\ d \in End /\ d # e /\ \A x \in End : x = e \/ x = d
      /\ Peer(d) = e
  BY PeerType
<1>2. /\ SubmittedLog(d)' = SubmittedLog(d) /\ SentLog(d)' = SentLog(d)
      /\ DeliveredFrom(e)' = DeliveredFrom(e)
      /\ NothingForgotten' = NothingForgotten => Broken(d)' = Broken(d)
  <2>1. SubmittedLog(d)' = SubmittedLog(d) /\ SentLog(d)' = SentLog(d)
    BY DEF SubmittedLog, SentLog
  <2>2. DeliveredFrom(e)' = DeliveredFrom(e)  BY DEF DeliveredFrom, DeliveredLog
  <2>3. NoneAbandoned(d)' = NoneAbandoned(d)  BY DEF NoneAbandoned, SentLog
  <2>4. NothingForgotten' = NothingForgotten => Broken(d)' = Broken(d)  BY <2>3 DEF Broken
  <2> QED  BY <2>1, <2>2, <2>4
<1>3. /\ DeliveredFrom(d)' = Log(link'[e]) /\ DeliveredFrom(d) = Log(link[e])
      /\ SentLog(e)' = Sent(link'[e]) /\ SentLog(e) = Sent(link[e])
  BY <1>1 DEF DeliveredFrom, DeliveredLog, SentLog, Log, Sent
<1>4. submittedBar' = [submittedBar EXCEPT ![e] = SubmittedLog(e)']
  <2>1. \A x \in End : x # e => SubmittedLog(x)' = SubmittedLog(x)  BY <1>1, <1>2
  <2> QED  BY <2>1 DEF submittedBar
<1>5. confirmedBar' = [confirmedBar EXCEPT ![e] = Sent(link'[e])]
  <2>1. \A x \in End : x # e => SentLog(x)' = SentLog(x)  BY <1>1, <1>2
  <2> QED  BY <1>3, <2>1 DEF confirmedBar
<1>6. inboxBar' = [inboxBar EXCEPT ![e] = link'[e].delivered]
  <2>1. \A x \in End : x # e => link'[x] = link[x]  BY <1>1
  <2> QED  BY <2>1 DEF inboxBar
<1>7. deliveredBar' = [deliveredBar EXCEPT ![d] = Log(link'[e])]
  <2>1. \A x \in End : x # d => DeliveredFrom(x)' = DeliveredFrom(x)  BY <1>1, <1>2
  <2> QED  BY <1>1, <1>3, <2>1 DEF deliveredBar
<1>8. ASSUME NothingForgotten' = NothingForgotten
      PROVE  brokenBar' = [brokenBar EXCEPT ![e] = Broken(e)']
  <2>1. \A x \in End : x # e => Broken(x)' = Broken(x)  BY <1>1, <1>2, <1>8
  <2> QED  BY <2>1 DEF brokenBar
<1>9. /\ submittedBar[e] = SubmittedLog(e) /\ confirmedBar[e] = Sent(link[e])
      /\ inboxBar[e] = link[e].delivered /\ deliveredBar[d] = Log(link[e])
      /\ brokenBar[e] = Broken(e)
      /\ submittedBar[d] = SubmittedLog(d) /\ brokenBar[d] = Broken(d)
  BY <1>1, <1>3 DEF submittedBar, confirmedBar, inboxBar, deliveredBar, brokenBar
<1> QED  BY <1>4, <1>5, <1>6, <1>7, <1>8, <1>9

\* What does not change for e does not change.
LEMMA SameMailboxes ==
  ASSUME IInv, IInv', NEW e \in End, link'[Peer(e)] = link[Peer(e)]
  PROVE  /\ link'[e].submitted = link[e].submitted => submittedBar' = submittedBar
         /\ Sent(link'[e]) = Sent(link[e]) => confirmedBar' = confirmedBar
         /\ SameDeliveries(link[e], link'[e]) =>
              inboxBar' = inboxBar /\ deliveredBar' = deliveredBar
         /\ Log(link'[e]) = Log(link[e]) => deliveredBar' = deliveredBar
         /\ (NothingForgotten' = NothingForgotten
             /\ Whole(link'[e]) = Whole(link[e])) => brokenBar' = brokenBar
<1> DEFINE d == Peer(e)
<1>1. /\ d \in End /\ d # e /\ \A x \in End : x = e \/ x = d
      /\ Peer(d) = e
  BY PeerType
<1>2. ASSUME link'[e].submitted = link[e].submitted PROVE submittedBar' = submittedBar
  <2>1. \A x \in End : SubmittedLog(x)' = SubmittedLog(x)  BY <1>1, <1>2 DEF SubmittedLog
  <2> QED  BY <2>1 DEF submittedBar
<1>3. ASSUME Sent(link'[e]) = Sent(link[e]) PROVE confirmedBar' = confirmedBar
  <2>1. \A x \in End : SentLog(x)' = SentLog(x)  BY <1>1, <1>3 DEF SentLog, Sent
  <2> QED  BY <2>1 DEF confirmedBar
<1>4. ASSUME Log(link'[e]) = Log(link[e]) PROVE deliveredBar' = deliveredBar
  <2>1. \A x \in End : link'[x].stats.messages_delivered = link[x].stats.messages_delivered
    BY <1>1, <1>4 DEF Log
  <2>2. \A x \in End : DeliveredFrom(x)' = DeliveredFrom(x)
    BY <2>1, PeerType DEF DeliveredFrom, DeliveredLog
  <2> QED  BY <2>2 DEF deliveredBar
<1>5. ASSUME link'[e].delivered = link[e].delivered PROVE inboxBar' = inboxBar
  <2>1. \A x \in End : link'[x].delivered = link[x].delivered  BY <1>1, <1>5
  <2> QED  BY <2>1 DEF inboxBar
<1>6. ASSUME NothingForgotten' = NothingForgotten, Whole(link'[e]) = Whole(link[e])
      PROVE  brokenBar' = brokenBar
  <2>1. NoneAbandoned(e)' = Whole(link'[e]) /\ NoneAbandoned(e) = Whole(link[e])
    BY DEF NoneAbandoned, SentLog, Whole, Sent, Busy
  <2>2. NoneAbandoned(d)' = NoneAbandoned(d)  BY DEF NoneAbandoned, SentLog
  <2>3. \A x \in End : NoneAbandoned(x)' = NoneAbandoned(x)  BY <1>1, <1>6, <2>1, <2>2
  <2>4. \A x \in End : Broken(x)' = Broken(x)  BY <1>6, <2>3 DEF Broken
  <2> QED  BY <2>4 DEF brokenBar
<1> QED  BY <1>2, <1>3, <1>4, <1>5, <1>6 DEF SameDeliveries, Log

\* What becomes of a transfer of e shows as one of three actions of the mailbox.
LEMMA TransferMailboxes ==
  ASSUME IInv, IInv', Sessions, Sessions', Promises,
         NEW e \in End, NEW heard, NEW new, NEW sends, Step(e, heard, new, sends),
         Turns(link[e], link'[e], heard, new, sends), NothingForgotten' = NothingForgotten,
         SameDeliveries(link[e], link'[e])
  PROVE  [Mailboxes!Next]_Mailboxes!mailboxes
<1> DEFINE d == Peer(e)
           L == link[e]
           R == link'[e]
           M == link[d]
           own == Outbox[e]
<1>1. /\ L \in EndState(Message, Message) /\ R \in EndState(Message, Message) /\ d \in End
      /\ link'[d] = link[d]
  BY StepTypes, PeerType DEF Step
<1>2. /\ L.submitted \in Nat /\ Len(Sent(L)) \in Nat /\ Busy(L) \in 0 .. 1
      /\ Sent(L) \in Seq(Message \cup {NoBody})
      /\ Books(L, own) /\ L.submitted =< Len(own) /\ own \in Seq(Message)
      /\ Sent(R) \in Seq(Message \cup {NoBody}) /\ R.submitted \in Nat
  BY <1>1, LogTypes, DataAssumption DEF Promises, IInv
<1>3. /\ inboxBar' = inboxBar /\ deliveredBar' = deliveredBar
      /\ L.submitted = R.submitted => submittedBar' = submittedBar
      /\ Sent(R) = Sent(L) => confirmedBar' = confirmedBar
      /\ Whole(R) = Whole(L) => brokenBar' = brokenBar
  BY <1>1, SameMailboxes
<1>4. /\ submittedBar' = [submittedBar EXCEPT ![e] = SubmittedLog(e)']
      /\ confirmedBar' = [confirmedBar EXCEPT ![e] = Sent(R)]
      /\ brokenBar' = [brokenBar EXCEPT ![e] = Broken(e)']
      /\ submittedBar[e] = SubmittedLog(e) /\ confirmedBar[e] = Sent(L)
      /\ brokenBar[e] = Broken(e) /\ deliveredBar[d] = Log(L)
  BY <1>1, StepMailboxes
<1>5. /\ Len(SubmittedLog(e)) = L.submitted /\ DOMAIN SubmittedLog(e) = 1 .. L.submitted
      /\ \A n \in 1 .. L.submitted : SubmittedLog(e)[n] = own[n]
  BY SubmittedLogType
<1>6. Broken(e) <=> ~Whole(L) \/ ~NothingForgotten  BY WholeIsNone DEF Broken
<1>7. Broken(e)' <=> ~Whole(R) \/ ~NothingForgotten
  <2>1. Broken(e)' <=> ~NoneAbandoned(e)' \/ ~NothingForgotten'  BY DEF Broken
  <2>2. NoneAbandoned(e)' <=> Whole(R)
    BY DEF NoneAbandoned, SentLog, Whole, Sent, Busy
  <2> QED  BY <2>1, <2>2
<1>8. deliveredBar[e] = Log(M)
  BY DEF deliveredBar, DeliveredFrom, DeliveredLog, Log
<1>9. sends = {} \/ (sends = {own[L.submitted + 1]} /\ L.submitted < Len(own))
  BY DEF Step, Sendable, NextMessage
<1>10. ASSUME R.submitted = L.submitted + 1, sends # {}
       PROVE  \E m \in Message : /\ submittedBar' = [submittedBar EXCEPT ![e] = Append(@, m)]
                                 /\ m = own[R.submitted]
  <2>1. L.submitted < Len(own) /\ sends = {own[L.submitted + 1]}  BY <1>9, <1>10
  <2>2. SubmittedLog(e)' = SubSeq(own, 1, L.submitted + 1)  BY <1>10 DEF SubmittedLog
  <2>3. SubmittedLog(e)' = Append(SubmittedLog(e), own[L.submitted + 1])
    BY <1>2, <2>1, <2>2, SubmitsNext DEF SubmittedLog
  <2>4. own[L.submitted + 1] \in Message  BY <1>2, <2>1
  <2> QED  BY <1>4, <1>10, <2>3, <2>4
<1>11. CASE SameTransfer(L, R)
  <2>1. R.submitted = L.submitted /\ Sent(R) = Sent(L) /\ Whole(R) = Whole(L)
    BY <1>11 DEF SameTransfer, Sent, Whole, Busy
  <2>2. /\ submittedBar' = submittedBar /\ confirmedBar' = confirmedBar /\ brokenBar' = brokenBar
        /\ inboxBar' = inboxBar /\ deliveredBar' = deliveredBar
    BY <1>3, <2>1
  <2> QED
    BY <2>2
    DEF Mailboxes!mailboxes, submittedBar, confirmedBar, brokenBar, inboxBar, deliveredBar
<1>12. CASE Starts(L, R, sends)
  <2>1. /\ R.submitted = L.submitted + 1 /\ sends # {} /\ Sent(R) = Sent(L)
        /\ ~L.tx.active /\ R.tx.active
    BY <1>12 DEF Starts, SameBooks, Sent
  <2>2. Whole(R) = Whole(L)  BY <1>2, <2>1 DEF Whole, Busy
  <2>3. PICK m \in Message : submittedBar' = [submittedBar EXCEPT ![e] = Append(@, m)]
    BY <1>10, <2>1
  <2>4. brokenBar[e] \/ Len(confirmedBar[e]) = Len(submittedBar[e])
    BY <1>2, <1>4, <1>5, <1>6, <2>1 DEF Whole, Busy
  <2>5. deliveredBar' = deliveredBar /\ confirmedBar' = confirmedBar /\ inboxBar' = inboxBar
        /\ brokenBar' = brokenBar
    BY <1>3, <2>1, <2>2
  <2>6. Mailboxes!Submit(e, m)
    BY <2>3, <2>4, <2>5
    DEF Mailboxes!Submit, submittedBar, confirmedBar, brokenBar, inboxBar, deliveredBar
  <2> QED  BY <2>6 DEF Mailboxes!Next
<1>13. CASE DropsNew(L, R, sends)
  <2>1. /\ R.submitted = L.submitted + 1 /\ sends # {} /\ Sent(R) = Sent(L)
        /\ ~L.tx.active /\ ~R.tx.active
    BY <1>13 DEF DropsNew, SameBooks, Sent
  <2>2. Broken(e)' = TRUE
    <3>1. ~Whole(R)  BY <1>2, <2>1 DEF Whole, Busy, Books
    <3> QED  BY <1>7, <3>1 DEF Broken
  <2>3. \E m \in Message : submittedBar' = [submittedBar EXCEPT ![e] = Append(@, m)]
    BY <1>10, <2>1
  <2>4. confirmedBar' = confirmedBar /\ brokenBar' = [brokenBar EXCEPT ![e] = TRUE]
    BY <1>3, <1>4, <2>1, <2>2
  <2>5. Mailboxes!GiveUp(e)
    BY <1>3, <2>3, <2>4
    DEF Mailboxes!GiveUp, submittedBar, confirmedBar, brokenBar, inboxBar, deliveredBar
  <2> QED  BY <2>5 DEF Mailboxes!Next
<1>14. CASE Drops(L, R)
  <2>1. R.submitted = L.submitted /\ Sent(R) = Sent(L) /\ L.tx.active /\ ~R.tx.active
    BY <1>14 DEF Drops, SameBooks, Sent
  <2>2. Broken(e)' = TRUE
    <3>1. ~Whole(R)  BY <1>2, <2>1 DEF Whole, Busy, Books
    <3> QED  BY <1>7, <3>1 DEF Broken
  <2>3. /\ submittedBar' = submittedBar /\ confirmedBar' = confirmedBar
        /\ brokenBar' = [brokenBar EXCEPT ![e] = TRUE]
    BY <1>3, <1>4, <2>1, <2>2
  <2>4. Mailboxes!GiveUp(e)
    BY <1>3, <2>3
    DEF Mailboxes!GiveUp, submittedBar, confirmedBar, brokenBar, inboxBar, deliveredBar
  <2> QED  BY <2>4 DEF Mailboxes!Next
<1>15. CASE Confirms(L, R, heard)
  <2> DEFINE m == L.tx.payload
  <2>1. /\ R.submitted = L.submitted /\ L.tx.active /\ ~R.tx.active
        /\ Sent(R) = Append(Sent(L), m)
    BY <1>15 DEF Confirms, Sent
  <2>2. Len(Sent(R)) = Len(Sent(L)) + 1  BY <1>2, <2>1
  <2>3. Whole(R) = Whole(L)
    <3> HIDE DEF L, R, m
    <3> QED  BY <1>2, <2>1, <2>2 DEF Whole, Busy
  <2>4. Len(Sent(L)) < L.submitted /\ m = own[L.submitted]
    <3> HIDE DEF L
    <3> QED  BY <1>2, <2>1 DEF Books, Busy, m
  <2>5. m \in {submittedBar[e][n] : n \in DOMAIN submittedBar[e]}
    <3>1. L.submitted \in 1 .. L.submitted  BY <1>2, <2>4
    <3>2. m = submittedBar[e][L.submitted] /\ L.submitted \in DOMAIN submittedBar[e]
      BY <1>4, <1>5, <2>4, <3>1
    <3> HIDE DEF m
    <3> QED  BY <3>2
  <2>6. ASSUME ~brokenBar[e]
        PROVE  /\ Len(confirmedBar[e]) < Len(deliveredBar[e])
               /\ m = submittedBar[e][Len(confirmedBar[e]) + 1]
    <3>1. NothingForgotten /\ Whole(L)  BY <1>4, <1>6, <2>6
    <3>2. Ordered(L, Channel(e)) /\ Promised(L, Channel(e), M, Channel(d), own)
      BY <3>1 DEF Promises, Promise
    <3>3. Turning(L, R, M, Channel(e), Channel(e)', Channel(d), Channel(d)', heard, new, sends,
                  drawn)
      BY StepTurning
    <3>4. /\ Len(Sent(L)) < Len(Log(M)) /\ Len(Sent(L)) < L.submitted
          /\ m = own[Len(Sent(L)) + 1]
      <4> HIDE DEF L, R, M, d, own
      <4> QED  BY <1>2, <1>15, <3>1, <3>2, <3>3, ConfirmsNext DEF m
    <3>5. Len(Sent(L)) + 1 \in 1 .. L.submitted  BY <1>2, <3>4
    <3> QED  BY <1>4, <1>5, <1>8, <3>4, <3>5
  <2>7. Len(confirmedBar[e]) < Len(submittedBar[e])  BY <1>4, <1>5, <2>4
  <2>8. confirmedBar' = [confirmedBar EXCEPT ![e] = Append(@, m)]  BY <1>4, <2>1
  <2>9. submittedBar' = submittedBar /\ brokenBar' = brokenBar  BY <1>3, <2>1, <2>3
  <2> HIDE DEF m
  <2>10. Mailboxes!Confirm(e, m)
    BY <1>3, <2>6, <2>7, <2>8, <2>9
    DEF Mailboxes!Confirm, submittedBar, confirmedBar, brokenBar, inboxBar, deliveredBar
  <2>11. m \in Mailboxes!SubmittedBy(e)
    BY <2>5 DEF Mailboxes!SubmittedBy, submittedBar
  <2> QED  BY <2>10, <2>11 DEF Mailboxes!Next
<1> QED  BY <1>11, <1>12, <1>13, <1>14, <1>15 DEF Turns, MovesTransfer

\* What is on its way from d was submitted there, whatever has been forgotten.
LEMMA SubmittedInFlight ==
  ASSUME IInv, NEW d \in End, NEW f, Has(Channel(d), f), f.type = "DATA"
  PROVE  f.payload \in Submitted(d)
<1>1. link[d].out_frames \in Seq(Frame(Submitted(d))) /\ air[d] \in Seq(Frame(Submitted(d)))
  BY DEF IInv, Good, EndState
<1>2. Channel(d) \in Seq(Frame(Submitted(d)))  BY <1>1 DEF Channel
<1>3. f \in Frame(Submitted(d))  BY <1>2 DEF Has
<1> QED  BY <1>3 DEF Frame

\* So what e delivers was submitted by its peer.
LEMMA DeliversSubmitted ==
  ASSUME IInv, NEW e \in End, NEW heard, NEW new, NEW sends, Step(e, heard, new, sends),
         NEW f \in heard, f.type = "DATA"
  PROVE  f.payload \in {submittedBar[Peer(e)][n] : n \in DOMAIN submittedBar[Peer(e)]}
<1> DEFINE d == Peer(e)
           n == link[d].submitted
<1>1. d \in End  BY PeerType
<1>2. f.payload \in Submitted(d)  BY <1>1, SubmittedInFlight DEF Step, Takes
<1>3. PICK i \in 1 .. n : f.payload = Outbox[d][i]  BY <1>2 DEF Submitted
<1>4. submittedBar[d] = SubmittedLog(d)  BY <1>1 DEF submittedBar
<1>5. DOMAIN SubmittedLog(d) = 1 .. n /\ SubmittedLog(d)[i] = Outbox[d][i]
  BY <1>1, SubmittedLogType
<1> QED  BY <1>3, <1>4, <1>5

\* What e receives shows as a delivery, a beacon or a collection.
LEMMA ReceiptMailboxes ==
  ASSUME IInv, IInv', Sessions, Sessions', Promises,
         NEW e \in End, NEW heard \in SUBSET AnyFrame, NEW new, NEW sends,
         Step(e, heard, new, sends),
         Turns(link[e], link'[e], heard, new, sends), NothingForgotten' = NothingForgotten,
         SameTransfer(link[e], link'[e])
  PROVE  [Mailboxes!Next]_Mailboxes!mailboxes
<1> DEFINE d == Peer(e)
           L == link[e]
           R == link'[e]
           M == link[d]
           box == Outbox[d]
<1>1. /\ L \in EndState(Message, Message) /\ R \in EndState(Message, Message) /\ d \in End
      /\ M \in EndState(Message, Message)
      /\ link'[d] = link[d] /\ Peer(d) = e /\ d # e
  BY StepTypes, PeerType DEF Step
<1>2. /\ submittedBar' = submittedBar /\ confirmedBar' = confirmedBar /\ brokenBar' = brokenBar
      /\ SameDeliveries(L, R) => inboxBar' = inboxBar /\ deliveredBar' = deliveredBar
      /\ Log(R) = Log(L) => deliveredBar' = deliveredBar
  <2>1. R.submitted = L.submitted /\ Sent(R) = Sent(L) /\ Whole(R) = Whole(L)
    BY DEF SameTransfer, Sent, Whole, Busy
  <2> QED  BY <1>1, <2>1, SameMailboxes
<1>3. /\ inboxBar' = [inboxBar EXCEPT ![e] = R.delivered] /\ inboxBar[e] = L.delivered
      /\ deliveredBar' = [deliveredBar EXCEPT ![d] = Log(R)] /\ deliveredBar[d] = Log(L)
      /\ submittedBar[d] = SubmittedLog(d) /\ brokenBar[d] = Broken(d)
  BY <1>1, StepMailboxes
<1>4. CASE SameDeliveries(L, R)
  <2>1. /\ submittedBar' = submittedBar /\ confirmedBar' = confirmedBar /\ brokenBar' = brokenBar
        /\ inboxBar' = inboxBar /\ deliveredBar' = deliveredBar
    BY <1>2, <1>4
  <2> QED
    BY <2>1
    DEF Mailboxes!mailboxes, submittedBar, confirmedBar, brokenBar, inboxBar, deliveredBar
<1>5. CASE Delivers(L, R, heard)
  <2>1. PICK f \in heard : /\ Fresh(L, f) /\ R.delivered = f.payload
                           /\ R.stats.messages_delivered = Append(L.stats.messages_delivered,
                                                                  f.payload)
    BY <1>5 DEF Delivers
  <2> DEFINE m == f.payload
  <2>2. f.type = "DATA" /\ (L.delivered # NoBody => L.rx.active)  BY <2>1 DEF Fresh
  <2>3. m \in {submittedBar[d][n] : n \in DOMAIN submittedBar[d]}
    BY <2>2, DeliversSubmitted
  <2>4. inboxBar[e] \notin Message
    <3>1. L.rx.active => L.delivered \notin Message  BY DEF IInv, Good
    <3>2. NoBody \notin Message  BY DataAssumption
    <3> QED  BY <1>3, <2>2, <3>1, <3>2
  <2>5. ASSUME ~brokenBar[d]
        PROVE  /\ inboxBar[e] = NoBody
               /\ Len(deliveredBar[d]) < Len(submittedBar[d])
               /\ m = submittedBar[d][Len(deliveredBar[d]) + 1]
    <3>1. NothingForgotten /\ Whole(M)  BY <1>3, <2>5, WholeIsNone DEF Broken
    <3>2. Turning(L, R, M, Channel(e), Channel(e)', Channel(d), Channel(d)', heard, new, sends,
                  drawn)
      BY StepTurning
    <3>3. Promise(M, Channel(d), L, Channel(e), box) /\ Promise(L, Channel(e), M, Channel(d), Outbox[e])
      BY <1>1, <3>1 DEF Promises
    <3>4. /\ Ordered(M, Channel(d)) /\ Bound(M, Channel(d), L) /\ Above(M, Channel(d), L)
          /\ Marks(M, Channel(d), L) /\ Settled(M, Channel(d))
          /\ Promised(M, Channel(d), L, Channel(e), box)
          /\ L.role = "initiator" /\ M.role = "responder" => Answers(L, M, Channel(d))
      BY <3>3 DEF Promise
    <3>5. L.delivered = NoBody
      <4> HIDE DEF L, R, M, d, box
      <4> QED  BY <2>1, <3>2, <3>4, FreshNew
    <3>6. m = box[Len(Log(L)) + 1] /\ Len(Log(L)) < M.submitted
      <4> HIDE DEF L, R, M, d, box
      <4> QED  BY <2>1, <3>1, <3>2, <3>4, FreshNext DEF m
    <3>7. /\ Len(SubmittedLog(d)) = M.submitted
          /\ \A n \in 1 .. M.submitted : SubmittedLog(d)[n] = box[n]
          /\ M.submitted \in Nat
      BY <1>1, SubmittedLogType
    <3>8. Len(Log(L)) \in Nat  BY <1>1, LogTypes
    <3>9. Len(Log(L)) + 1 \in 1 .. M.submitted  BY <3>6, <3>7, <3>8
    <3> QED  BY <1>3, <3>5, <3>6, <3>7, <3>9
  <2>6. /\ inboxBar' = [inboxBar EXCEPT ![e] = m]
        /\ deliveredBar' = [deliveredBar EXCEPT ![d] = Append(@, m)]
    BY <1>3, <2>1 DEF Log
  <2> HIDE DEF m, d
  <2>7. Mailboxes!Deliver(d, e, m)
    BY <1>2, <2>4, <2>5, <2>6
    DEF Mailboxes!Deliver, submittedBar, confirmedBar, brokenBar, inboxBar, deliveredBar
  <2>8. m \in Mailboxes!SubmittedBy(d)
    BY <2>3 DEF Mailboxes!SubmittedBy, submittedBar
  <2>9. e \in End \ {d}  BY <1>1
  <2> QED  BY <1>1, <2>7, <2>8, <2>9 DEF Mailboxes!Next
<1>6. CASE TakesBeacon(L, R, heard)
  <2>1. PICK f \in heard : /\ f.type = "BEACON" /\ L.delivered = NoBody /\ R.delivered = f.payload
                           /\ Log(R) = Log(L)
    BY <1>6 DEF TakesBeacon, Log
  <2> DEFINE p == f.payload
  <2>2. p \in Beacon
    <3>1. Has(Channel(d), f) /\ Channel(d) \in Seq(Frame(Message))
      BY <1>1, StepTypes DEF Step, Takes
    <3>2. f \in Frame(Message)  BY <3>1 DEF Has
    <3> QED  BY <2>1, <3>2 DEF Frame
  <2>3. inboxBar' = [inboxBar EXCEPT ![e] = p] /\ inboxBar[e] = NoBody /\ deliveredBar' = deliveredBar
    BY <1>2, <1>3, <2>1
  <2> HIDE DEF p
  <2>4. Mailboxes!DeliverBeacon(e, p)
    BY <1>2, <2>3
    DEF Mailboxes!DeliverBeacon, submittedBar, confirmedBar, brokenBar, inboxBar, deliveredBar
  <2> QED  BY <2>2, <2>4 DEF Mailboxes!Next
<1>7. CASE Collects(L, R)
  <2>1. R.delivered = NoBody /\ Log(R) = Log(L)  BY <1>7 DEF Collects, Log
  <2>2. inboxBar' = [inboxBar EXCEPT ![e] = NoBody] /\ deliveredBar' = deliveredBar
    BY <1>2, <1>3, <2>1
  <2>3. Mailboxes!Collect(e)
    BY <1>2, <2>2
    DEF Mailboxes!Collect, submittedBar, confirmedBar, brokenBar, inboxBar, deliveredBar
  <2> QED  BY <2>3 DEF Mailboxes!Next
<1> QED
  BY <1>4, <1>5, <1>6, <1>7 DEF Turns, MovesReceipt, Idles, Leaves, Reassembles

\* An end that forgets.
LEMMA ForgetsMailboxes ==
  ASSUME IInv, IInv', NEW e \in End, link'[Peer(e)] = link[Peer(e)],
         Forgets(link[e], link'[e]), ~NothingForgotten'
  PROVE  Mailboxes!Forget(e)
<1> DEFINE L == link[e]
           R == link'[e]
<1>1. /\ R.submitted = L.submitted /\ Sent(R) = Sent(L) /\ Log(R) = Log(L)
      /\ R.delivered \in {L.delivered, NoBody}
  BY DEF Forgets, Sent, Log
<1>2. submittedBar' = submittedBar /\ confirmedBar' = confirmedBar /\ deliveredBar' = deliveredBar
  BY <1>1, SameMailboxes
<1>3. inboxBar' = [inboxBar EXCEPT ![e] = R.delivered] /\ inboxBar[e] = L.delivered
  BY StepMailboxes
<1>4. inboxBar' \in {inboxBar, [inboxBar EXCEPT ![e] = NoBody]}
  <2>1. inboxBar = [inboxBar EXCEPT ![e] = inboxBar[e]]  BY DEF inboxBar
  <2> QED  BY <1>1, <1>3, <2>1
<1>5. brokenBar' = [x \in End |-> TRUE]
  <2>1. \A x \in End : Broken(x)' = TRUE  BY DEF Broken
  <2> QED  BY <2>1 DEF brokenBar
<1> QED
  BY <1>2, <1>4, <1>5
  DEF Mailboxes!Forget, submittedBar, confirmedBar, brokenBar, inboxBar, deliveredBar

\* Every step of the link is a step of the mailbox, or changes nothing that it shows.
LEMMA StepMailbox ==
  ASSUME IInv, IInv', Sessions, Sessions', Promises, [Next]_vars
  PROVE  [Mailboxes!Next]_Mailboxes!mailboxes
<1>1. PICK e \in End : \E heard \in SUBSET AnyFrame : \E ids, sends : Step(e, heard, ids, sends)
  BY Steps
<1>2. PICK heard \in SUBSET AnyFrame : \E ids, sends : Step(e, heard, ids, sends)  BY <1>1
<1>3. PICK ids, sends : Step(e, heard, ids, sends)  BY <1>2
<1>4. CASE Turns(link[e], link'[e], heard, ids, sends) /\ NothingForgotten' = NothingForgotten
  <2>1. SameTransfer(link[e], link'[e]) \/ SameDeliveries(link[e], link'[e])
    BY <1>4 DEF Turns
  <2> QED  BY <1>3, <1>4, <2>1, TransferMailboxes, ReceiptMailboxes
<1>5. CASE Forgets(link[e], link'[e]) /\ ~NothingForgotten'
  <2>1. link'[Peer(e)] = link[Peer(e)]  BY <1>3 DEF Step
  <2>2. Mailboxes!Forget(e)  BY <1>5, <2>1, ForgetsMailboxes
  <2> QED  BY <2>2 DEF Mailboxes!Next
<1> QED  BY <1>3, <1>4, <1>5 DEF Step

\* The link implements the mailbox KalDelivery: every step of kal_send, kal_receive,
\* kal_beacon, kal_cancel, kal_tick, kal_rx_push_s16 and kal_tx_pull_s16 submits, delivers,
\* confirms, collects or forgets there, or changes nothing that it shows.  So messages arrive
\* in order and once and a confirmed one has arrived, until a transfer is abandoned or an end
\* resets.  Ids wrap at 16 bits and each message takes two of them: FewMessages.
THEOREM PromiseKept ==
  ASSUME FewMessages
  PROVE  Spec => DeliversAsPromised
<1>1. Init => Mailboxes!Init  BY InitMailboxes
<1>2. /\ IInv /\ Sessions /\ Promises
      /\ (IInv /\ Sessions /\ Promises)'
      /\ [Next]_vars
      => [Mailboxes!Next]_Mailboxes!mailboxes
  BY StepMailbox
<1> QED  BY <1>1, <1>2, PromisesHold, PTL DEF Spec, DeliversAsPromised, Mailboxes!Spec

----------------------------------------------------------------------------
(* No message twice, abandoned transfers or not.                           *)

SegmentIn(c, g) == Has(c, g) /\ g.type = "DATA"

\* A message has one id: its segments agree on it, and once the message is delivered the
\* id is not behind the last of the cache.  So nothing is in the log twice.
Once(e, c, d) ==
  /\ \A g, h : SegmentIn(c, g) /\ SegmentIn(c, h) /\ g.payload = h.payload =>
       g.message_id = h.message_id
  /\ \A g : SegmentIn(c, g) /\ e.tx.active /\ g.payload = e.tx.payload =>
       g.message_id = e.tx.message_id
  /\ \A i \in DOMAIN Log(d) :
       /\ \A g : SegmentIn(c, g) /\ g.payload = Log(d)[i] => g.message_id =< LastKey(d).message_id
       /\ e.tx.active /\ e.tx.payload = Log(d)[i] => e.tx.message_id =< LastKey(d).message_id
  /\ \A i, j \in DOMAIN Log(d) : Log(d)[i] = Log(d)[j] => i = j

\* A turn of the sender: a new transfer is of a message that nothing in flight, and nothing
\* in the log, is of.
LEMMA OnceSender ==
  ASSUME NEW L, NEW R, NEW M, NEW c, NEW c1, NEW k, NEW k1, NEW heard, NEW new, NEW sends, NEW ids,
         Turning(L, R, M, c, c1, k, k1, heard, new, sends, ids), Once(L, c, M),
         NEW own, \A g : SegmentIn(c, g) => g.payload \in own,
         \A i \in DOMAIN Log(M) : Log(M)[i] \in own, \A m \in sends : m \notin own
  PROVE  Once(R, c1, M)
<1>1. \A g : SegmentIn(c1, g) => SegmentIn(c, g) \/ (R.tx.active /\ Carries(R, g))
  <2>1. ASSUME NEW g, SegmentIn(c1, g), ~SegmentIn(c, g)
        PROVE  R.tx.active /\ Carries(R, g)
    <3>1. Emits(L, R, heard, g)  BY <2>1 DEF SegmentIn, Turning, Puts
    <3> QED  BY <2>1, <3>1, EmitsInTurn DEF SegmentIn
  <2> QED  BY <2>1
<1>2. CASE ~R.tx.active  BY <1>1, <1>2 DEF Once
<1>3. CASE /\ R.tx.active /\ L.tx.active /\ R.tx.message_id = L.tx.message_id
           /\ R.tx.payload = L.tx.payload
  BY <1>1, <1>3 DEF Once, Carries
<1>4. CASE R.tx.active /\ R.tx.payload \notin own
  BY <1>1, <1>4 DEF Once, Carries
<1> QED
  BY <1>2, <1>3, <1>4
  DEF Turning, Turns, MovesTransfer, SameTransfer, Starts, DropsNew, Drops, Confirms

\* A turn of the receiver.
LEMMA OnceReceiver ==
  ASSUME NEW L, NEW R, NEW M, NEW c, NEW c1, NEW k, NEW k1, NEW heard, NEW new, NEW sends, NEW ids,
         Turning(L, R, M, c, c1, k, k1, heard, new, sends, ids),
         Ordered(M, k), Bound(M, k, L), Above(M, k, L), Marks(M, k, L), Settled(M, k),
         L.role = "initiator" /\ M.role = "responder" => Answers(L, M, k), Once(M, k, L)
  PROVE  Once(M, k1, R)
<1>1. /\ L \in EndState(Message, Message) /\ R \in EndState(Message, Message)
      /\ M \in EndState(Message, Message)
  BY DEF Turning
<1>2. /\ Log(L) \in Seq(Message) /\ L.dup_cache \in Seq(DupEntry)
      /\ M.tx.message_id \in Nat /\ M.next_message_id \in Nat
  BY <1>1, LogTypes DEF EndState, TxState
<1>3. /\ \A g : SegmentIn(k1, g) => SegmentIn(k, g)
      /\ \A g : SegmentIn(k, g) => g.message_id \in Nat
  BY DEF Turning, Takes, SegmentIn, AnyFrame
<1>4. \A f \in heard : f.type = "DATA" => SegmentIn(k, f)  BY HeardOne DEF SegmentIn
<1>5. Log(L) # << >> => /\ Marked(L) /\ Touched(L) /\ L.dup_cache # << >>
                        /\ LastKey(L).message_id \in Nat
  <2>1. Log(L) # << >> => Marked(L) /\ Touched(L)  BY DEF Marked, Touched, Log
  <2> QED  BY <1>1, <2>1, LastKeyType DEF Marks
<1>6. CASE Delivers(L, R, heard)
  <2>1. PICK f \in heard : \E key :
          /\ Fresh(L, f) /\ key.message_id = f.message_id /\ Remembers(L, R, key)
          /\ R.stats.messages_delivered = Append(L.stats.messages_delivered, f.payload)
          /\ f.payload \in Message
    BY <1>6 DEF Delivers
  <2>2. PICK key : key.message_id = f.message_id /\ Remembers(L, R, key)  BY <2>1
  <2>3. LastKey(R) = key  BY <1>2, <2>2, RemembersWhat DEF LastKey
  <2>4. /\ Marked(L) => f.message_id > LastKey(L).message_id
        /\ f.message_id \in Nat
    BY <2>1, FreshNew
  <2>5. SegmentIn(k, f)  BY <1>4, <2>1 DEF Fresh
  <2> DEFINE n == Len(Log(L))
  <2>6. Log(R) = Append(Log(L), f.payload)  BY <2>1 DEF Log
  <2>7. /\ DOMAIN Log(L) = 1 .. n /\ DOMAIN Log(R) = 1 .. n + 1 /\ n \in Nat
        /\ \A i \in 1 .. n : Log(R)[i] = Log(L)[i]
        /\ Log(R)[n + 1] = f.payload
    BY <1>2, <2>1, <2>6
  <2>8. DOMAIN Log(L) # {} => Log(L) # << >>  OBVIOUS
  <2>9. \A i \in DOMAIN Log(L) : Log(L)[i] # f.payload
    <3> SUFFICES ASSUME NEW i \in DOMAIN Log(L), Log(L)[i] = f.payload PROVE FALSE
      OBVIOUS
    <3>1. f.message_id =< LastKey(L).message_id  BY <2>5 DEF Once
    <3> QED  BY <1>5, <2>4, <2>8, <3>1
  <2> HIDE DEF n
  <2>10. \A i \in DOMAIN Log(R) : i \in DOMAIN Log(L) \/ i = n + 1  BY <2>7
  <2>11. \A i, j \in DOMAIN Log(R) : Log(R)[i] = Log(R)[j] => i = j
    BY <2>7, <2>9, <2>10 DEF Once
  <2>12. ASSUME NEW i \in DOMAIN Log(R), NEW g, SegmentIn(k1, g), g.payload = Log(R)[i]
         PROVE  g.message_id =< LastKey(R).message_id
    <3>1. g.message_id \in Nat /\ SegmentIn(k, g)  BY <1>3, <2>12
    <3>2. CASE i \in DOMAIN Log(L)
      <4>1. g.message_id =< LastKey(L).message_id  BY <2>7, <2>12, <3>1, <3>2 DEF Once
      <4> QED  BY <1>5, <2>2, <2>3, <2>4, <2>8, <3>1, <3>2, <4>1
    <3>3. CASE i = n + 1
      <4>1. g.payload = f.payload  BY <2>7, <2>12, <3>3
      <4>2. g.message_id = f.message_id  BY <2>5, <3>1, <4>1 DEF Once
      <4> QED  BY <2>2, <2>3, <2>4, <4>2
    <3> QED  BY <2>10, <2>12, <3>2, <3>3
  <2>13. ASSUME NEW i \in DOMAIN Log(R), M.tx.active, M.tx.payload = Log(R)[i]
         PROVE  M.tx.message_id =< LastKey(R).message_id
    <3>1. CASE i \in DOMAIN Log(L)
      <4>1. M.tx.message_id =< LastKey(L).message_id  BY <2>7, <2>13, <3>1 DEF Once
      <4> QED  BY <1>2, <1>5, <2>2, <2>3, <2>4, <2>8, <3>1, <4>1
    <3>2. CASE i = n + 1
      <4>1. f.payload = M.tx.payload  BY <2>7, <2>13, <3>2
      <4>2. f.message_id = M.tx.message_id  BY <2>5, <2>13, <4>1 DEF Once
      <4> QED  BY <2>2, <2>3, <2>4, <4>2
    <3> QED  BY <2>10, <2>13, <3>1, <3>2
  <2> QED  BY <1>3, <2>11, <2>12, <2>13 DEF Once
<1>7. CASE ~Delivers(L, R, heard)
  <2>1. Log(R) = Log(L)  BY <1>7, FinalsKept
  <2>2. Log(L) # << >> => LastKey(R).message_id \in Nat
                          /\ LastKey(R).message_id >= LastKey(L).message_id
    <3> SUFFICES ASSUME Log(L) # << >>
                 PROVE  LastKey(R).message_id \in Nat
                        /\ LastKey(R).message_id >= LastKey(L).message_id
      OBVIOUS
    <3>1. CASE TakesBeacon(L, R, heard)
      <4>1. PICK f \in heard : \E key : /\ f.type = "BEACON" /\ key.message_id = f.message_id
                                        /\ Remembers(L, R, key)
        BY <3>1 DEF TakesBeacon
      <4>2. PICK key : key.message_id = f.message_id /\ Remembers(L, R, key)  BY <4>1
      <4>3. LastKey(R) = key  BY <1>2, <4>2, RemembersWhat DEF LastKey
      <4>4. Keyed(f)  BY <4>1 DEF Keyed
      <4>5. Has(k, f) /\ f.message_id \in Nat  BY <4>4, HeardOne, FreshOrdered
      <4>6. f.message_id >= LastKey(L).message_id  BY <1>5, <4>4, <4>5 DEF Marks
      <4> QED  BY <4>2, <4>3, <4>5, <4>6
    <3>2. CASE Leaves(L, R, heard)
      <4>1. L.session_open /\ M.session_id = L.session_id  BY <1>5 DEF Bound
      <4>2. ~Joins(L, R, heard)  BY <4>1, SessionStays
      <4> QED  BY <3>2, <4>2 DEF Leaves
    <3>3. CASE R.dup_cache = L.dup_cache  BY <1>5, <3>3 DEF LastKey
    <3> QED
      BY <1>7, <3>1, <3>2, <3>3
      DEF Turning, Turns, MovesReceipt, Idles, Reassembles, Collects
  <2>3. \A i \in DOMAIN Log(L) : Log(L) # << >>  OBVIOUS
  <2>4. ASSUME NEW i \in DOMAIN Log(R)
        PROVE  /\ \A g : SegmentIn(k1, g) /\ g.payload = Log(R)[i] =>
                    g.message_id =< LastKey(R).message_id
               /\ M.tx.active /\ M.tx.payload = Log(R)[i] => M.tx.message_id =< LastKey(R).message_id
    <3>1. i \in DOMAIN Log(L) /\ Log(L) # << >>  BY <2>1, <2>3, <2>4
    <3>2. LastKey(L).message_id \in Nat /\ LastKey(R).message_id \in Nat
          /\ LastKey(R).message_id >= LastKey(L).message_id
      BY <1>5, <2>2, <3>1
    <3>3. ASSUME NEW g, SegmentIn(k1, g), g.payload = Log(R)[i]
          PROVE  g.message_id =< LastKey(R).message_id
      <4>1. g.message_id \in Nat /\ SegmentIn(k, g)  BY <1>3, <3>3
      <4>2. g.message_id =< LastKey(L).message_id  BY <2>1, <3>1, <3>3, <4>1 DEF Once
      <4> QED  BY <3>2, <4>1, <4>2
    <3>4. ASSUME M.tx.active, M.tx.payload = Log(R)[i]
          PROVE  M.tx.message_id =< LastKey(R).message_id
      <4>1. M.tx.message_id =< LastKey(L).message_id  BY <2>1, <3>1, <3>4 DEF Once
      <4> QED  BY <1>2, <3>2, <4>1
    <3> QED  BY <3>3, <3>4
  <2> QED  BY <1>3, <2>1, <2>4 DEF Once
<1> QED  BY <1>6, <1>7

\* An application that does not submit the same message twice.
Distinct ==
  \A e \in End : \A i, j \in DOMAIN Outbox[e] : Outbox[e][i] = Outbox[e][j] => i = j

OneByOne ==
  NothingForgotten =>
    \A e \in End : Once(link[e], Channel(e), link[Peer(e)])

\* Nothing is delivered at first.
LEMMA InitOnce == Init => OneByOne
<1> SUFFICES ASSUME Init, NEW e \in End
             PROVE  Once(link[e], Channel(e), link[Peer(e)])
  BY DEF OneByOne
<1>1. \A x \in End : link[x] = kal_link_create(x) /\ air[x] = << >>  BY DEF Init
<1>2. \A x \in End : link[x].out_frames = << >> /\ Log(link[x]) = << >>
  <2>1. \A x \in End : LET L == kal_link_create(x) IN
          L.out_frames = << >> /\ L.stats.messages_delivered = << >>
    BY DEF kal_link_create
  <2> QED  BY <1>1, <2>1 DEF Log
<1>3. Channel(e) = << >> /\ Log(link[Peer(e)]) = << >>  BY <1>1, <1>2, PeerType DEF Channel
<1>4. \A g : ~SegmentIn(<< >>, g)  BY DEF Has, SegmentIn
<1>5. DOMAIN << >> = {}  OBVIOUS
<1> QED  BY <1>3, <1>4, <1>5 DEF Once

\* Every step of an end keeps its own messages and those of its peer once.
LEMMA StepOnce ==
  ASSUME IInv, IInv', Sessions, Sessions', Promises, OneByOne, Distinct,
         NEW e \in End, NEW heard, NEW new, NEW sends, Step(e, heard, new, sends)
  PROVE  OneByOne'
<1> SUFFICES ASSUME NothingForgotten'
             PROVE  \A x \in End : Once(link'[x], Channel(x)', link'[Peer(x)])
  BY DEF OneByOne
<1> DEFINE d == Peer(e)
           L == link[e]
           R == link'[e]
           M == link[d]
           c == Channel(e)
           c1 == Channel(e)'
           k == Channel(d)
           k1 == Channel(d)'
           own == Submitted(e)
<1>1. d \in End /\ d # e /\ (\A x \in End : x = e \/ x = d) /\ Peer(d) = e /\ link'[d] = M
  BY PeerType DEF Step
<1>2. NothingForgotten /\ Turns(L, R, heard, new, sends)  BY DEF Step
<1>3. Turning(L, R, M, c, c1, k, k1, heard, new, sends, drawn)  BY <1>2, StepTurning
<1>4. Promise(L, c, M, k, Outbox[e])  BY <1>2 DEF Promises
<1>5. Promise(M, k, L, c, Outbox[d]) /\ Once(L, c, M) /\ Once(M, k, L)
  BY <1>1, <1>2 DEF Promises, OneByOne
<1>6. \A g : SegmentIn(c, g) => g.payload \in own
  BY SubmittedInFlight DEF SegmentIn
<1>7. \A i \in DOMAIN Log(M) : Log(M)[i] \in own
  <2>1. M \in EndState(Submitted(d), own)  BY <1>1 DEF IInv, Good
  <2>2. Log(M) \in Seq(own)  BY <2>1 DEF EndState, Stats, Log
  <2> QED  BY <2>2
<1>8. ASSUME NEW m \in sends PROVE m \notin own
  <2> DEFINE n == L.submitted
  <2>1. m = Outbox[e][n + 1] /\ n < Len(Outbox[e])
    BY <1>8 DEF Step, Sendable, NextMessage
  <2>2. n \in Nat /\ Outbox[e] \in Seq(Message)  BY SubmittedType, DataAssumption
  <2>3. own = {Outbox[e][i] : i \in 1 .. n}  BY DEF Submitted
  <2> HIDE DEF n, own
  <2>4. \A i \in 1 .. n : i \in DOMAIN Outbox[e] /\ i # n + 1  BY <2>1, <2>2
  <2>5. n + 1 \in DOMAIN Outbox[e]  BY <2>1, <2>2
  <2>6. \A i \in 1 .. n : Outbox[e][i] # Outbox[e][n + 1]  BY <2>4, <2>5 DEF Distinct
  <2> QED  BY <2>1, <2>3, <2>6
<1> HIDE DEF L, R, M, c, c1, k, k1, own
<1>9. Once(R, c1, M)  BY <1>3, <1>5, <1>6, <1>7, <1>8, OnceSender
<1>10. Once(M, k1, R)
  <2>1. /\ Ordered(M, k) /\ Bound(M, k, L) /\ Above(M, k, L) /\ Marks(M, k, L) /\ Settled(M, k)
        /\ L.role = "initiator" /\ M.role = "responder" => Answers(L, M, k)
    BY <1>4, <1>5 DEF Promise
  <2> QED  BY <1>3, <1>5, <2>1, OnceReceiver
<1>11. ASSUME NEW x \in End PROVE Once(link'[x], Channel(x)', link'[Peer(x)])
  <2>1. CASE x = e  BY <1>1, <1>9, <2>1 DEF R, c1, M
  <2>2. CASE x = d  BY <1>1, <1>10, <2>2 DEF R, k1, M
  <2> QED  BY <1>1, <2>1, <2>2
<1> QED  BY <1>11

\* No message is delivered twice (dup_lookup in handle_data), also after transfers that
\* were given up or cancelled, as long as no end resets.  Two sends of one payload cannot be
\* told apart in the log of the peer: Distinct.
THEOREM MessagesOnce ==
  ASSUME FewMessages, Distinct
  PROVE  Spec => []DeliveredOnce
<1>1. Init => OneByOne  BY InitOnce
<1>2. /\ IInv /\ Sessions /\ Promises
      /\ (IInv /\ Sessions /\ Promises)'
      /\ [Next]_vars
      /\ OneByOne
      => OneByOne'
  <2> SUFFICES ASSUME IInv, Sessions, Promises, IInv', Sessions', [Next]_vars, OneByOne
               PROVE  OneByOne'
    OBVIOUS
  <2>1. PICK e \in End : \E heard \in SUBSET AnyFrame : \E ids, sends : Step(e, heard, ids, sends)
    BY Steps
  <2>2. PICK heard \in SUBSET AnyFrame : \E ids, sends : Step(e, heard, ids, sends)  BY <2>1
  <2>3. PICK ids, sends : Step(e, heard, ids, sends)  BY <2>2
  <2> QED  BY <2>3, StepOnce
<1>3. OneByOne => DeliveredOnce
  <2> SUFFICES ASSUME OneByOne, NothingForgotten, NEW d \in End,
                      NEW i \in DOMAIN DeliveredLog(d), NEW j \in DOMAIN DeliveredLog(d),
                      DeliveredLog(d)[i] = DeliveredLog(d)[j]
               PROVE  i = j
    BY DEF DeliveredOnce
  <2>1. Peer(d) \in End /\ Peer(Peer(d)) = d  BY PeerType
  <2>2. Once(link[Peer(d)], Channel(Peer(d)), link[d])  BY <2>1 DEF OneByOne
  <2>3. DeliveredLog(d) = Log(link[d])  BY DEF DeliveredLog, Log
  <2> QED  BY <2>2, <2>3 DEF Once
<1> QED  BY <1>1, <1>2, <1>3, PromisesHold, PTL DEF Spec

----------------------------------------------------------------------------
(* What an end tells its peer it holds.                                    *)

\* Frames without a CANCEL among them.
Clean(s) == Row(s) /\ \A i \in DOMAIN s : s[i].type # "CANCEL"

\* Appended to, joined or taken from, they stay so.
LEMMA CleanMore ==
  /\ \A s, g : Clean(s) /\ g.type # "CANCEL" => Clean(Append(s, g))
  /\ \A s, t : Clean(s) /\ Clean(t) => Clean(s \o t)
  /\ \A s : Clean(s) /\ s # << >> => Clean(Tail(s))
<1>1. ASSUME NEW s, NEW t, Clean(s), Clean(t) PROVE Clean(s \o t)
  <2>1. PICK U, V : s \in Seq(U) /\ t \in Seq(V)  BY <1>1 DEF Clean, Row
  <2> DEFINE W == U \cup V
  <2>2. U \subseteq W /\ V \subseteq W  OBVIOUS
  <2> HIDE DEF W
  <2>3. s \in Seq(W) /\ t \in Seq(W)
    <3>1. s \in Seq(W)  BY <2>1, <2>2, SeqMonotonic
    <3>2. t \in Seq(W)  BY <2>1, <2>2, SeqMonotonic
    <3> QED  BY <3>1, <3>2
  <2>4. \A i \in DOMAIN (s \o t) :
          \/ i \in DOMAIN s /\ (s \o t)[i] = s[i]
          \/ i - Len(s) \in DOMAIN t /\ (s \o t)[i] = t[i - Len(s)]
    BY <2>3
  <2> DEFINE u == s \o t
  <2>5. u \in Seq(W)  BY <2>3
  <2>6. \A i \in DOMAIN u : u[i].type # "CANCEL"  BY <1>1, <2>4 DEF Clean
  <2> HIDE DEF u
  <2>7. Clean(u)  BY <2>5, <2>6 DEF Clean, Row
  <2> QED  BY <2>7 DEF u
<1>2. ASSUME NEW s, NEW g, Clean(s), g.type # "CANCEL" PROVE Clean(Append(s, g))
  <2>1. PICK U : s \in Seq(U)  BY <1>2 DEF Clean, Row
  <2> DEFINE W == U \cup {g}
  <2>2. U \subseteq W /\ g \in W  OBVIOUS
  <2> HIDE DEF W
  <2>3. s \in Seq(W)  BY <2>1, <2>2, SeqMonotonic
  <2>4. \A i \in DOMAIN Append(s, g) : \/ i \in DOMAIN s /\ Append(s, g)[i] = s[i]
                                      \/ Append(s, g)[i] = g
    BY <2>2, <2>3
  <2>5. Append(s, g) \in Seq(W)  BY <2>2, <2>3
  <2> QED  BY <1>2, <2>4, <2>5 DEF Clean, Row
<1>3. ASSUME NEW s, Clean(s), s # << >> PROVE Clean(Tail(s))
  <2>1. PICK U : s \in Seq(U)  BY <1>3 DEF Clean, Row
  <2>2. Tail(s) \in Seq(U) /\ \A i \in DOMAIN Tail(s) : i + 1 \in DOMAIN s /\ Tail(s)[i] = s[i + 1]
    BY <1>3, <2>1
  <2> QED  BY <1>3, <2>2 DEF Clean, Row
<1> QED  BY <1>1, <1>2, <1>3

\* Nothing that an end holds, or that its peer has told it, changes.
Stays(L, R) ==
  /\ Fields(R) = Fields(L)
  /\ R.accepts = L.accepts /\ R.rx = L.rx
  /\ R.tx.active = L.tx.active /\ R.tx.acked = L.tx.acked
  /\ Clean(L.out_frames) => Clean(R.out_frames)

\* Two such steps are one,
LEMMA StaysTwice == \A L, M, R : Stays(L, M) /\ Stays(M, R) => Stays(L, R)
BY DEF Stays

\* and leave the shape of the end.
LEMMA StaysFields == \A L, R : HasFields(L) /\ Stays(L, R) => HasFields(R)
BY DEF Stays, HasFields

\* The helpers that queue, and those that stage.
LEMMA HelpersStay ==
  ASSUME NEW L, HasFields(L)
  PROVE  /\ Stays(L, L)
         /\ \A f : f.type # "CANCEL" => Stays(L, queue_frame(L, f))
         /\ \A c : Stays(L, [L EXCEPT !.dup_cache = c])
         /\ \A b, s : Stays(L, [L EXCEPT !.delivered = b, !.stats = s])
         /\ \A b : Stays(L, [L EXCEPT !.delivered = b])
         /\ \A b : Stays(L, [L EXCEPT !.deadline_set = b])
<1>1. Stays(L, L)  BY DEF Stays
<1>2. ASSUME NEW f, f.type # "CANCEL" PROVE Stays(L, queue_frame(L, f))
  <2> DEFINE o == Append(L.out_frames, f)
             X == [L EXCEPT !.out_frames = o]
  <2>1. Clean(L.out_frames) => Clean(o)  BY <1>2, CleanMore
  <2>2. queue_frame(L, f) \in {L, X}  BY DEF queue_frame
  <2> HIDE DEF o
  <2>3. Stays(L, X)  BY <2>1 DEF Stays, Fields, HasFields
  <2> HIDE DEF X
  <2> QED  BY <1>1, <2>2, <2>3
<1>3. /\ \A c : Stays(L, [L EXCEPT !.dup_cache = c])
      /\ \A b, s : Stays(L, [L EXCEPT !.delivered = b, !.stats = s])
  BY DEF Stays, Fields, HasFields
<1>4. /\ \A b : Stays(L, [L EXCEPT !.delivered = b])
      /\ \A b : Stays(L, [L EXCEPT !.deadline_set = b])
  BY DEF Stays, Fields, HasFields
<1> QED  BY <1>1, <1>2, <1>3, <1>4

\* start_or_resume_tx.
LEMMA StartStays ==
  ASSUME NEW L, HasFields(L)
  PROVE  Stays(L, start_or_resume_tx(L))
<1> DEFINE n == Cardinality(Batch(L))
           queued == [i \in 1 .. n |-> DataFrame(L, Ranked(Batch(L), i - 1))]
           o == L.out_frames \o queued
           t == [L.tx EXCEPT !.inflight = @ \cup Batch(L)]
           Q == queue_window(L)
           u == [Q.tx EXCEPT !.started = TRUE]
           R == [Q EXCEPT !.tx = u, !.deadline_set = TRUE]
<1>1. Clean(queued)
  <2>1. n \in Nat
    <3>1. Batch(L) \subseteq 0 .. MaxSegments  BY DataAssumption DEF Batch, Eligible, Segment
    <3>2. MaxSegments \in Nat  BY DataAssumption
    <3> QED  BY <3>1, <3>2, BoundedFinite
  <2>2. \A s : DataFrame(L, s).type = "DATA"  BY DEF DataFrame, ZeroFrame
  <2> HIDE DEF n
  <2>3. \A i \in 1 .. n : queued[i].type # "CANCEL"  BY <2>2
  <2>4. queued \in Seq({queued[i] : i \in 1 .. n}) /\ DOMAIN queued = 1 .. n
    <3>1. DOMAIN queued = 1 .. n  OBVIOUS
    <3>2. queued = [i \in 1 .. n |-> queued[i]]  OBVIOUS
    <3> HIDE DEF queued
    <3>3. queued \in [1 .. n -> {queued[i] : i \in 1 .. n}]  BY <3>1, <3>2
    <3> QED  BY <2>1, <3>1, <3>3
  <2> HIDE DEF queued
  <2> QED  BY <2>3, <2>4 DEF Clean, Row
<1>2. Clean(L.out_frames) => Clean(o)  BY <1>1, CleanMore
<1>3. Q = [L EXCEPT !.out_frames = o, !.tx = t]  BY DEF queue_window
<1>4. DOMAIN t = DOMAIN L.tx /\ t.active = L.tx.active /\ t.acked = L.tx.acked
  BY DEF HasFields, Fields
<1>5. start_or_resume_tx(L) \in {L, R}  BY DEF start_or_resume_tx
<1> HIDE DEF o, t, Q
<1>6. HasFields(Q) /\ Q.tx = t /\ Q.accepts = L.accepts /\ Q.rx = L.rx /\ Q.out_frames = o
  BY <1>3, <1>4 DEF HasFields, Fields
<1>7. DOMAIN u = DOMAIN t /\ u.active = t.active /\ u.acked = t.acked
  BY <1>4, <1>6 DEF HasFields, Fields
<1> HIDE DEF u
<1>8. Stays(L, R)  BY <1>2, <1>4, <1>6, <1>7 DEF Stays, Fields, HasFields
<1> HIDE DEF R
<1> QED  BY <1>5, <1>8, HelpersStay

\* A partial ACK, and the segments it says are stored (handle_ack).
Partial(g) == g.type = "ACK" /\ ~g.flag
MarkedBy(g) == {s \in Segment : s < g.sequence \/ s \in g.bitmap}

\* A HELLO that takes a responder out of its session (handle_hello).
Parts(L, f) == /\ f.type = "HELLO" /\ L.session_open /\ L.role # "initiator"
               /\ f.session_id # L.session_id

\* Whatever the step from L to R is but a reset or kal_cancel, it marks no segment that
\* the partial ACK it has heard does not, and queues a CANCEL for a transfer it ends only.
Spares(L, R, heard) ==
  /\ R.accepts = L.accepts
  /\ R.tx.active => \A s \in R.tx.acked :
       /\ L.tx.active
       /\ s \in L.tx.acked \/ \E f \in heard : /\ Partial(f) /\ f.message_id = L.tx.message_id
                                             /\ s \in MarkedBy(f)
  /\ Clean(L.out_frames) => Clean(R.out_frames) \/ (heard = {} /\ L.tx.active /\ ~R.tx.active)

\* The reassembly is kept, or dropped with its session or because its sender cancels.
Keeps(L, R, heard) ==
  R.rx = L.rx \/ (R.rx = NoRx /\ \E f \in heard : f.type = "CANCEL" \/ Parts(L, f))

\* A step that changes nothing of this does both.
LEMMA StaysSpares == \A L, R, heard : Stays(L, R) => Spares(L, R, heard) /\ Keeps(L, R, heard)
BY DEF Stays, Spares, Keeps

\* An idle transfer has nothing acknowledged that counts.
LEMMA IdleSpares ==
  ASSUME NEW L, NEW R, NEW heard, R.accepts = L.accepts, R.rx = L.rx,
         R.tx.active => R.tx.acked = {},
         Clean(L.out_frames) => Clean(R.out_frames)
  PROVE  Spares(L, R, heard) /\ Keeps(L, R, heard)
BY DEF Spares, Keeps

\* kal_send.
LEMMA SendSpares ==
  ASSUME NEW L, HasFields(L), NEW m, NEW ok, NEW id
  PROVE  LET R == kal_send(L, m, [ok |-> ok, id |-> id]) IN Spares(L, R, {}) /\ Keeps(L, R, {})
<1> DEFINE draw == [ok |-> ok, id |-> id]
           tx == [NoTx EXCEPT !.active = TRUE, !.message_id = L.next_message_id,
                              !.total = Segments[m], !.payload = m]
           S == [L EXCEPT !.tx = tx, !.tx_status = "BUSY", !.submitted = @ + 1]
           H == [S EXCEPT !.session_id = draw.id, !.challenge = draw.id]
           Q == queue_frame(H, build_hello(H, "HELLO"))
           R == kal_send(L, m, draw)
<1>1. DOMAIN tx = DOMAIN NoTx /\ tx.acked = {}  BY DEF NoTx
<1>2. R = IF L.session_open THEN start_or_resume_tx(S)
          ELSE IF NeedsSession(L) THEN open_session(S, draw) ELSE S
  BY DEF kal_send
<1>3. R = start_or_resume_tx(S) \/ R = S \/ R = open_session(S, draw)  BY <1>2
<1>4. open_session(S, draw) \in
        {[[S EXCEPT !.tx = NoTx] EXCEPT !.tx_status = "MODEM"],
         [[H EXCEPT !.tx = NoTx] EXCEPT !.tx_status = "BUSY"],
         [Q EXCEPT !.hello_pending = TRUE, !.hello_retries = 0, !.deadline_set = TRUE]}
  BY DEF open_session, clear_tx_message
<1> HIDE DEF tx
<1>5. HasFields(S) /\ S.tx = tx /\ S.accepts = L.accepts /\ S.rx = L.rx
      /\ S.out_frames = L.out_frames
  BY <1>1 DEF HasFields, Fields, NoTx
<1> HIDE DEF S
<1>6. HasFields(H) /\ H.tx = tx /\ H.accepts = L.accepts /\ H.rx = L.rx
      /\ H.out_frames = L.out_frames
  BY <1>5 DEF HasFields, Fields
<1>7. build_hello(H, "HELLO").type # "CANCEL"  BY DEF build_hello, ZeroFrame
<1> HIDE DEF H
<1>8. Stays(H, Q) /\ HasFields(Q)  BY <1>6, <1>7, HelpersStay, StaysFields
<1> HIDE DEF Q, R
<1>9. R = start_or_resume_tx(S) \/ R = S
      \/ R = [[S EXCEPT !.tx = NoTx] EXCEPT !.tx_status = "MODEM"]
      \/ R = [[H EXCEPT !.tx = NoTx] EXCEPT !.tx_status = "BUSY"]
      \/ R = [Q EXCEPT !.hello_pending = TRUE, !.hello_retries = 0, !.deadline_set = TRUE]
  BY <1>3, <1>4
<1>10. CASE R = start_or_resume_tx(S) \/ R = S
  <2>1. Stays(S, R)  BY <1>5, <1>10, StartStays, HelpersStay
  <2>2. R.accepts = L.accepts /\ R.rx = L.rx /\ R.tx.acked = {}
        /\ (Clean(L.out_frames) => Clean(R.out_frames))
    BY <1>1, <1>5, <2>1 DEF Stays
  <2> QED  BY <2>2, IdleSpares DEF R
<1>11. CASE R = [[S EXCEPT !.tx = NoTx] EXCEPT !.tx_status = "MODEM"]
  <2>1. R.accepts = L.accepts /\ R.rx = L.rx /\ R.tx = NoTx /\ R.out_frames = L.out_frames
    BY <1>5, <1>11 DEF HasFields, Fields
  <2>2. R.tx.acked = {}  BY <2>1 DEF NoTx
  <2> QED  BY <2>1, <2>2, IdleSpares DEF R
<1>12. CASE R = [[H EXCEPT !.tx = NoTx] EXCEPT !.tx_status = "BUSY"]
  <2>1. R.accepts = L.accepts /\ R.rx = L.rx /\ R.tx = NoTx /\ R.out_frames = L.out_frames
    BY <1>6, <1>12 DEF HasFields, Fields
  <2>2. R.tx.acked = {}  BY <2>1 DEF NoTx
  <2> QED  BY <2>1, <2>2, IdleSpares DEF R
<1>13. CASE R = [Q EXCEPT !.hello_pending = TRUE, !.hello_retries = 0, !.deadline_set = TRUE]
  <2>1. R.accepts = Q.accepts /\ R.rx = Q.rx /\ R.tx = Q.tx /\ R.out_frames = Q.out_frames
    BY <1>8, <1>13 DEF HasFields, Fields
  <2>2. R.accepts = L.accepts /\ R.rx = L.rx /\ R.tx.acked = {}
        /\ (Clean(L.out_frames) => Clean(R.out_frames))
    BY <1>1, <1>6, <1>8, <2>1 DEF Stays
  <2> QED  BY <2>2, IdleSpares DEF R
<1> QED  BY <1>9, <1>10, <1>11, <1>12, <1>13

\* advance_time.
LEMMA AdvanceSpares ==
  ASSUME NEW L, HasFields(L)
  PROVE  LET R == advance_time(L) IN Spares(L, R, {}) /\ Keeps(L, R, {})
<1> DEFINE X == [L EXCEPT !.deadline_set = FALSE]
           Q == queue_frame(X, build_hello(X, "HELLO"))
           C == queue_frame(X, CancelFrame(X))
           tx == [X.tx EXCEPT !.retries = @ + 1, !.inflight = {}]
           Y == [X EXCEPT !.tx = tx]
           R == advance_time(L)
<1>1. \/ R = [[X EXCEPT !.tx = NoTx] EXCEPT !.hello_pending = FALSE, !.tx_status = "TIMEOUT"]
      \/ R = [Q EXCEPT !.hello_retries = @ + 1, !.deadline_set = TRUE]
      \/ L.tx.active /\ R = [[C EXCEPT !.tx = NoTx] EXCEPT !.tx_status = "TIMEOUT",
                                                          !.deadline_set = FALSE]
      \/ R = start_or_resume_tx(Y) \/ R = X
  BY DEF advance_time, GiveUpHello, clear_tx_message, Retry, fail_tx
<1>2. Stays(L, X) /\ HasFields(X)  BY HelpersStay, StaysFields
<1> HIDE DEF X
<1>3. Stays(X, Q)
  <2>1. build_hello(X, "HELLO").type # "CANCEL"  BY DEF build_hello, ZeroFrame
  <2> QED  BY <1>2, <2>1, HelpersStay
<1>4. HasFields(Q)  BY <1>2, <1>3, StaysFields
<1>5. HasFields(C) /\ C.accepts = X.accepts /\ C.rx = X.rx
  <2> DEFINE o == Append(X.out_frames, CancelFrame(X))
  <2>1. C \in {X, [X EXCEPT !.out_frames = o]}  BY DEF queue_frame
  <2> HIDE DEF C, o
  <2> QED  BY <1>2, <2>1 DEF HasFields, Fields
<1>6. DOMAIN tx = DOMAIN X.tx /\ tx.active = X.tx.active /\ tx.acked = X.tx.acked
  BY <1>2 DEF HasFields, Fields
<1> HIDE DEF C, Q, tx, R
<1>7. Stays(X, Y)  BY <1>2, <1>6 DEF Stays, HasFields, Fields
<1>8. HasFields(Y)  BY <1>2, <1>7, StaysFields
<1> HIDE DEF Y
<1>9. CASE R = [[X EXCEPT !.tx = NoTx] EXCEPT !.hello_pending = FALSE, !.tx_status = "TIMEOUT"]
  <2>1. R.accepts = X.accepts /\ R.rx = X.rx /\ R.tx = NoTx /\ R.out_frames = X.out_frames
    BY <1>2, <1>9 DEF HasFields, Fields
  <2>2. R.tx.acked = {}  BY <2>1 DEF NoTx
  <2>3. R.accepts = L.accepts /\ R.rx = L.rx /\ (Clean(L.out_frames) => Clean(R.out_frames))
    BY <1>2, <2>1 DEF Stays
  <2> QED  BY <2>2, <2>3, IdleSpares DEF R
<1>10. CASE R = [Q EXCEPT !.hello_retries = @ + 1, !.deadline_set = TRUE]
  <2>1. Stays(Q, R)  BY <1>4, <1>10 DEF Stays, HasFields, Fields
  <2>2. Stays(L, R)  BY <1>2, <1>3, <2>1, StaysTwice
  <2> QED  BY <2>2, StaysSpares DEF R
<1>11. CASE L.tx.active /\ R = [[C EXCEPT !.tx = NoTx] EXCEPT !.tx_status = "TIMEOUT",
                                                           !.deadline_set = FALSE]
  <2>1. R.accepts = C.accepts /\ R.rx = C.rx /\ R.tx = NoTx  BY <1>5, <1>11 DEF HasFields, Fields
  <2>2. ~R.tx.active  BY <2>1 DEF NoTx
  <2>3. R.accepts = L.accepts /\ R.rx = L.rx  BY <1>2, <1>5, <2>1 DEF Stays
  <2> QED  BY <1>11, <2>2, <2>3 DEF Spares, Keeps, R
<1>12. CASE R = start_or_resume_tx(Y) \/ R = X
  <2>1. Stays(Y, start_or_resume_tx(Y)) /\ Stays(X, X)  BY <1>2, <1>8, StartStays, HelpersStay
  <2>2. Stays(X, R)  BY <1>7, <1>12, <2>1, StaysTwice
  <2>3. Stays(L, R)  BY <1>2, <2>2, StaysTwice
  <2> QED  BY <2>3, StaysSpares DEF R
<1> QED  BY <1>1, <1>9, <1>10, <1>11, <1>12 DEF R

\* handle_ack marks what a partial ACK says.
LEMMA AckSpares ==
  ASSUME NEW L, HasFields(L), NEW f, f.type = "ACK"
  PROVE  LET R == handle_ack(L, f) IN Spares(L, R, {f}) /\ Keeps(L, R, {f})
<1> DEFINE marked == {s \in Segment : s < L.tx.total /\ (s < f.sequence \/ s \in f.bitmap)}
           acked == L.tx.acked \cup marked
           tx == [L.tx EXCEPT !.acked = acked, !.inflight = @ \ marked, !.retries = 0,
                              !.base = FirstOutside(acked, @, L.tx.total)]
           X == [L EXCEPT !.tx = tx]
           S == start_or_resume_tx(X)
           R == handle_ack(L, f)
<1>1. \/ R = L \/ R = TxDelivered(L)
      \/ /\ L.tx.active /\ f.message_id = L.tx.message_id /\ ~f.flag
         /\ R = [S EXCEPT !.deadline_set = TRUE]
  BY DEF handle_ack, MarkAcked
<1>2. DOMAIN tx = DOMAIN L.tx /\ tx.active = L.tx.active /\ tx.acked = acked
  BY DEF HasFields, Fields
<1>3. marked \subseteq MarkedBy(f)  BY DEF MarkedBy
<1> HIDE DEF tx, R, marked
<1>4. /\ HasFields(X) /\ X.tx = tx /\ X.accepts = L.accepts /\ X.rx = L.rx
      /\ X.out_frames = L.out_frames
  BY <1>2 DEF HasFields, Fields
<1> HIDE DEF X
<1>5. Stays(X, S) /\ HasFields(S)  BY <1>4, StartStays, StaysFields
<1> HIDE DEF S
<1>6. CASE /\ L.tx.active /\ f.message_id = L.tx.message_id /\ ~f.flag
           /\ R = [S EXCEPT !.deadline_set = TRUE]
  <2>1. Stays(S, R)  BY <1>5, <1>6, HelpersStay
  <2>2. Stays(X, R)  BY <1>5, <2>1, StaysTwice
  <2>3. /\ R.accepts = L.accepts /\ R.rx = L.rx /\ R.tx.acked = acked
        /\ Clean(L.out_frames) => Clean(R.out_frames)
    BY <1>2, <1>4, <2>2 DEF Stays
  <2> QED  BY <1>3, <1>6, <2>3 DEF Spares, Keeps, Partial, R
<1>7. CASE R = TxDelivered(L)
  <2>1. R.accepts = L.accepts /\ R.rx = L.rx /\ R.tx = NoTx /\ R.out_frames = L.out_frames
    BY <1>7 DEF TxDelivered, clear_tx_message, HasFields, Fields
  <2>2. R.tx.acked = {}  BY <2>1 DEF NoTx
  <2> QED  BY <2>1, <2>2, IdleSpares DEF R
<1>8. CASE R = L  BY <1>8, HelpersStay, StaysSpares DEF R
<1> QED  BY <1>1, <1>6, <1>7, <1>8

\* AcceptHello.
LEMMA AcceptStays ==
  ASSUME NEW L, HasFields(L), NEW f
  PROVE  Stays(L, AcceptHello(L, f))
<1> DEFINE H == [L EXCEPT !.session_id = f.session_id, !.window = Narrowed(L, f),
                          !.challenge = f.challenge]
           reply == [build_hello(H, "HELLO_ACK") EXCEPT !.message_id = f.message_id]
           P == [H EXCEPT !.hello_ack_cached = reply, !.hello_ack_valid = TRUE,
                          !.session_open = TRUE]
           O == queue_frame(P, reply)
           R == AcceptHello(L, f)
<1>1. Stays(L, H) /\ HasFields(H)  BY DEF HasFields, Fields, Stays
<1>2. reply.type # "CANCEL"  BY DEF build_hello, ZeroFrame
<1>3. R = IF O.tx.active /\ ~O.tx.started THEN start_or_resume_tx(O) ELSE O  BY DEF AcceptHello
<1> HIDE DEF H, reply
<1>4. Stays(H, P) /\ HasFields(P)  BY <1>1 DEF HasFields, Fields, Stays
<1> HIDE DEF P
<1>5. Stays(P, O)  BY <1>2, <1>4, HelpersStay
<1>6. HasFields(O)  BY <1>4, <1>5, StaysFields
<1> HIDE DEF O, R
<1>7. Stays(O, R)  BY <1>3, <1>6, StartStays, HelpersStay
<1>8. Stays(L, O)  BY <1>1, <1>4, <1>5, StaysTwice
<1>9. Stays(L, R)  BY <1>7, <1>8, StaysTwice
<1> QED  BY <1>9 DEF R

\* handle_hello.
LEMMA HelloSpares ==
  ASSUME NEW L, HasFields(L), NEW f, f.type = "HELLO",
         L.hello_ack_valid => L.hello_ack_cached.type = "HELLO_ACK"
  PROVE  LET R == handle_hello(L, f) IN Spares(L, R, {f}) /\ Keeps(L, R, {f})
<1> DEFINE Y == [[L EXCEPT !.tx = NoTx] EXCEPT !.hello_pending = FALSE]
           C == [[L EXCEPT !.rx = NoRx] EXCEPT !.dup_cache = << >>]
           R == handle_hello(L, f)
<1>1. \/ R = L \/ (L.hello_ack_valid /\ R = queue_frame(L, L.hello_ack_cached))
      \/ R = AcceptHello(Y, f) \/ R = AcceptHello(L, f)
      \/ Parts(L, f) /\ R = AcceptHello(C, f)
  BY DEF handle_hello, clear_tx_message, clear_rx_message, Parts, InSession
<1>2. /\ HasFields(Y) /\ Y.tx = NoTx /\ Y.accepts = L.accepts /\ Y.rx = L.rx
      /\ Y.out_frames = L.out_frames
  BY DEF HasFields, Fields, NoTx
<1>3. /\ HasFields(C) /\ C.tx = L.tx /\ C.accepts = L.accepts /\ C.rx = NoRx
      /\ C.out_frames = L.out_frames
  BY DEF HasFields, Fields
<1> HIDE DEF Y, C, R
<1>4. CASE \/ R = L \/ (L.hello_ack_valid /\ R = queue_frame(L, L.hello_ack_cached))
           \/ R = AcceptHello(L, f)
  <2>1. Stays(L, L) /\ Stays(L, AcceptHello(L, f))  BY HelpersStay, AcceptStays
  <2>2. L.hello_ack_valid => Stays(L, queue_frame(L, L.hello_ack_cached))  BY HelpersStay
  <2>3. Stays(L, R)  BY <1>4, <2>1, <2>2
  <2> QED  BY <2>3, StaysSpares DEF R
<1>5. CASE R = AcceptHello(Y, f)
  <2>1. Stays(Y, R)  BY <1>2, <1>5, AcceptStays
  <2>2. ~Y.tx.active  BY <1>2 DEF NoTx
  <2>3. R.accepts = L.accepts /\ R.rx = L.rx /\ ~R.tx.active
        /\ (Clean(L.out_frames) => Clean(R.out_frames))
    BY <1>2, <2>1, <2>2 DEF Stays
  <2> QED  BY <2>3, IdleSpares DEF R
<1>6. CASE Parts(L, f) /\ R = AcceptHello(C, f)
  <2>1. Stays(C, R)  BY <1>3, <1>6, AcceptStays
  <2>2. /\ R.accepts = L.accepts /\ R.rx = NoRx
        /\ R.tx.active = L.tx.active /\ R.tx.acked = L.tx.acked
        /\ (Clean(L.out_frames) => Clean(R.out_frames))
    BY <1>3, <2>1 DEF Stays
  <2> QED  BY <1>6, <2>2 DEF Spares, Keeps, R
<1> QED  BY <1>1, <1>4, <1>5, <1>6

\* The handlers but handle_data.
LEMMA HandlerSpares ==
  ASSUME NEW L, HasFields(L), NEW f, f.type # "DATA",
         L.hello_ack_valid => L.hello_ack_cached.type = "HELLO_ACK"
  PROVE  LET R == handle_frame(L, f) IN Spares(L, R, {f}) /\ Keeps(L, R, {f})
<1>1. CASE f.type = "HELLO"  BY <1>1, HelloSpares DEF handle_frame
<1>2. CASE f.type = "HELLO_ACK"
  <2> DEFINE O == [L EXCEPT !.hello_pending = FALSE, !.session_open = TRUE,
                            !.window = Narrowed(L, f), !.deadline_set = FALSE]
             R == handle_hello_ack(L, f)
  <2>1. R \in {L, O, start_or_resume_tx(O)}
    <3> HIDE DEF O
    <3> QED  BY DEF handle_hello_ack, O
  <2>2. handle_frame(L, f) = R  BY <1>2 DEF handle_frame
  <2>3. Stays(L, O) /\ HasFields(O)  BY DEF HasFields, Fields, Stays
  <2> HIDE DEF O, R
  <2>4. Stays(L, L) /\ Stays(O, start_or_resume_tx(O))  BY <2>3, HelpersStay, StartStays
  <2>5. Stays(L, R)  BY <2>1, <2>3, <2>4, StaysTwice
  <2> QED  BY <2>2, <2>5, StaysSpares
<1>3. CASE f.type = "ACK"  BY <1>3, AckSpares DEF handle_frame
<1>4. CASE f.type = "CANCEL"
  <2> DEFINE C == [L EXCEPT !.rx = NoRx, !.tx = NoTx, !.deadline_set = FALSE,
                            !.tx_status = "CANCELLED"]
             R == handle_frame(L, f)
  <2>1. R \in {L, C}  BY <1>4 DEF handle_frame, handle_cancel
  <2>2. C.accepts = L.accepts /\ C.rx = NoRx /\ C.tx = NoTx /\ C.out_frames = L.out_frames
    BY DEF HasFields, Fields
  <2>3. ~NoTx.active  BY DEF NoTx
  <2> HIDE DEF C, R
  <2>4. CASE R = C  BY <1>4, <2>2, <2>3, <2>4 DEF Spares, Keeps, R
  <2>5. CASE R = L  BY <2>5, HelpersStay, StaysSpares DEF R
  <2> QED  BY <2>1, <2>4, <2>5
<1>5. CASE f.type = "BEACON"
  <2> DEFINE B == [L EXCEPT !.delivered = f.payload]
             c == Append(IF Len(B.dup_cache) >= DupCacheEntries THEN Tail(B.dup_cache)
                           ELSE B.dup_cache,
                         [session_id |-> f.session_id, message_id |-> f.message_id,
                          ack |-> ZeroFrame])
             C == [B EXCEPT !.dup_cache = c]
             R == handle_frame(L, f)
  <2>1. R \in {L, C}  BY <1>5 DEF handle_frame, handle_beacon, dup_store
  <2>2. HasFields(B) /\ Stays(L, B)  BY HelpersStay, StaysFields
  <2> HIDE DEF B, c
  <2>3. Stays(B, C)  BY <2>2, HelpersStay
  <2>4. Stays(L, C)  BY <2>2, <2>3, StaysTwice
  <2> HIDE DEF C, R
  <2>5. Stays(L, R)  BY <2>1, <2>4, HelpersStay
  <2> QED  BY <2>5, StaysSpares DEF R
<1>6. CASE f.type \notin FrameTypes
  <2>1. handle_frame(L, f) = L  BY <1>6 DEF handle_frame, FrameTypes
  <2> QED  BY <2>1, HelpersStay, StaysSpares
<1> QED  BY <1>1, <1>2, <1>3, <1>4, <1>5, <1>6 DEF FrameTypes

----------------------------------------------------------------------------
(* The reassembly of one message.                                          *)

\* What an end d holds of the message b: segment s, unless b is too large for it.
Kept(d, s, b) == b \in d.accepts => d.rx.active /\ d.rx.payload[s] # NoBody

\* d holds what the partial ACK g says.
Tells(d, g) ==
  /\ d.rx.active /\ g.message_id = d.rx.message_id
  /\ \A s \in MarkedBy(g) : d.rx.payload[s] # NoBody

\* What d reassembles are the segments of the message b, under the key id.
Reassembly(d, id, b) ==
  /\ d.rx.active =>
       /\ d.rx.message_id = id /\ d.rx.total = Segments[b]
       /\ \A s \in Segment : \/ d.rx.payload[s] = NoBody
                             \/ d.rx.payload[s] = b /\ s < Segments[b]
  /\ d.rx.ack_valid => Tells(d, d.rx.ack_cached)

\* The shape of an end and of its reassembly.
HasRx(X) ==
  /\ HasFields(X)
  /\ DOMAIN X.rx = {"active", "session_id", "message_id", "total", "payload", "ack_valid",
                    "ack_cached"}
  /\ DOMAIN X.rx.payload = Segment
  /\ DOMAIN X.stats = {"messages_delivered", "messages_sent"}

\* R holds what X does, and has delivered the same.
SameHeld(X, R) == R.rx = X.rx /\ R.accepts = X.accepts /\ Log(R) = Log(X)

\* It holds the same of any message then.
LEMMA SameHeldKeeps ==
  \A X, R, id, b : SameHeld(X, R) =>
    /\ Reassembly(X, id, b) => Reassembly(R, id, b)
    /\ \A s : Kept(X, s, b) => Kept(R, s, b)
BY DEF SameHeld, Reassembly, Tells, Kept

\* queue_frame is one of those.
LEMMA QueueHolds ==
  ASSUME NEW X, HasRx(X), NEW g
  PROVE  LET R == queue_frame(X, g) IN HasRx(R) /\ SameHeld(X, R)
<1> DEFINE o == Append(X.out_frames, g)
           R == queue_frame(X, g)
<1>1. R \in {X, [X EXCEPT !.out_frames = o]}  BY DEF queue_frame
<1> HIDE DEF o, R
<1>2. HasRx(R) /\ SameHeld(X, R)  BY <1>1 DEF HasRx, HasFields, Fields, SameHeld, Log
<1> QED  BY <1>2 DEF R

\* queue_partial_ack says what is stored.
LEMMA PartialHolds ==
  ASSUME NEW X, HasRx(X), X.rx.active, X.rx.total \in Nat, NEW id, NEW b, Reassembly(X, id, b)
  PROVE  LET R == queue_partial_ack(X) IN
         /\ Reassembly(R, id, b) /\ Log(R) = Log(X)
         /\ \A s : Kept(X, s, b) => Kept(R, s, b)
<1> DEFINE base == first_missing(X)
           ack == [ZeroFrame EXCEPT !.type = "ACK", !.session_id = X.rx.session_id,
                !.message_id = X.rx.message_id, !.sequence = base,
                !.bitmap = {s \in Received(X) : /\ base < s
                                                /\ s =< base + KAL_ACK_BITS
                                                /\ s < X.rx.total}]
           rx == [X.rx EXCEPT !.ack_cached = ack, !.ack_valid = TRUE]
           Y == [X EXCEPT !.rx = rx]
           R == queue_partial_ack(X)
<1>1. R = queue_frame(Y, ack)  BY DEF queue_partial_ack
<1>2. /\ ack.message_id = X.rx.message_id /\ ack.sequence = base
      /\ ack.bitmap \subseteq Received(X)
  BY DEF ZeroFrame
<1>3. base \in Nat /\ \A s \in 0 .. base - 1 : s \in Received(X)
  BY FirstOutsideFound DEF first_missing
<1>4. \A s \in MarkedBy(ack) : X.rx.payload[s] # NoBody
  <2>1. ASSUME NEW s \in MarkedBy(ack) PROVE s \in Received(X)
    <3> HIDE DEF ack, base
    <3>1. s \in Nat  BY SegmentNat DEF MarkedBy
    <3>2. s < base => s \in 0 .. base - 1  BY <1>3, <3>1
    <3> QED  BY <1>2, <1>3, <3>2 DEF MarkedBy
  <2> HIDE DEF ack
  <2> QED  BY <2>1 DEF Received
<1> HIDE DEF ack, base, R
<1>5. /\ DOMAIN rx = DOMAIN X.rx /\ rx.active = X.rx.active /\ rx.message_id = X.rx.message_id
      /\ rx.total = X.rx.total /\ rx.payload = X.rx.payload /\ rx.ack_cached = ack
  BY DEF HasRx
<1> HIDE DEF rx
<1>6. HasRx(Y) /\ Y.rx = rx /\ Y.accepts = X.accepts /\ Log(Y) = Log(X)
  BY <1>5 DEF HasRx, HasFields, Fields, Log
<1> HIDE DEF Y
<1>7. SameHeld(Y, R)  BY <1>1, <1>6, QueueHolds
<1>8. Reassembly(Y, id, b)  BY <1>2, <1>4, <1>5, <1>6 DEF Reassembly, Tells
<1>9. \A s : Kept(X, s, b) => Kept(Y, s, b)  BY <1>5, <1>6 DEF Kept
<1>10. Log(R) = Log(X)  BY <1>6, <1>7 DEF SameHeld
<1>11. Reassembly(R, id, b) /\ \A s : Kept(X, s, b) => Kept(R, s, b)
  BY <1>7, <1>8, <1>9, SameHeldKeeps
<1> QED  BY <1>10, <1>11 DEF R

\* A full reassembly spells its message.
LEMMA AssembledWhole ==
  ASSUME NEW Y, Y.rx.active, NEW id, NEW b \in Message, Reassembly(Y, id, b),
         Cardinality(Received(Y)) = Y.rx.total
  PROVE  Assembled(Y) = b
<1> DEFINE n == Segments[b]
           whole == {m \in Message : /\ Segments[m] = Y.rx.total
                                     /\ \A s \in 0 .. Y.rx.total - 1 : Y.rx.payload[s] = m}
<1>1. n \in Nat /\ n >= 1 /\ n =< MaxSegments /\ MaxSegments \in Nat
  BY DataAssumption, SegmentNat
<1>2. Y.rx.total = n  BY DEF Reassembly
<1> HIDE DEF n
<1>3. \A s \in Segment : Y.rx.payload[s] # NoBody => Y.rx.payload[s] = b /\ s < n
  BY DEF Reassembly, n
<1>4. Received(Y) \subseteq 0 .. n - 1  BY <1>1, <1>3, SegmentNat DEF Received
<1>5. IsFiniteSet(0 .. n - 1) /\ Cardinality(0 .. n - 1) = n
  <2>1. 0 \in Int /\ n - 1 \in Int /\ ~(0 > n - 1) /\ (n - 1) - 0 + 1 = n  BY <1>1
  <2> QED  BY <2>1, FS_Interval
<1>6. Received(Y) = 0 .. n - 1
  <2>1. Received(Y) \in SUBSET (0 .. n - 1)  BY <1>4
  <2> QED  BY <1>2, <1>5, <2>1, FS_Subset
<1>7. \A s \in 0 .. n - 1 : Y.rx.payload[s] = b  BY <1>3, <1>6 DEF Received
<1>8. 0 \in 0 .. n - 1  BY <1>1
<1>9. Segments[b] = n  BY DEF n
<1>10. whole = {b}  BY <1>2, <1>7, <1>8, <1>9
<1>11. Assembled(Y) = IF whole = {} THEN Garbled ELSE CHOOSE m \in whole : TRUE  BY DEF Assembled
<1> HIDE DEF whole
<1> QED  BY <1>10, <1>11

\* Nothing is dropped of what was stored of b but by its delivery.
StoresOn(L, R, id, b) ==
  /\ Reassembly(R, id, b)
  /\ Log(R) = Log(L) => \A s \in Segment : Kept(L, s, b) => Kept(R, s, b)

\* StoreSegment, of a segment of b.
LEMMA StoreHolds ==
  ASSUME NEW X, HasRx(X), X.rx.active, NEW id, NEW b \in Message, Reassembly(X, id, b),
         Log(X) \in Seq(Message),
         NEW f, f.payload = b, f.sequence \in Nat, f.sequence < X.rx.total,
         f.sequence \notin Received(X)
  PROVE  StoresOn(X, StoreSegment(X, f), id, b)
<1> DEFINE stored == [X.rx.payload EXCEPT ![f.sequence] = f.payload]
           rx == [X.rx EXCEPT !.payload = stored]
           Y == [X EXCEPT !.rx = rx]
           R == StoreSegment(X, f)
<1>1. X.rx.total = Segments[b] /\ Segments[b] \in Nat /\ Segments[b] =< MaxSegments
      /\ MaxSegments \in Nat /\ b # NoBody
  BY DataAssumption, SegmentNat DEF Reassembly
<1>2. f.sequence \in Segment /\ f.sequence < Segments[b]  BY <1>1 DEF Segment
<1>3. X.rx.payload[f.sequence] = NoBody  BY <1>2 DEF Received
<1>4. /\ DOMAIN stored = Segment /\ stored[f.sequence] = b
      /\ \A s \in Segment : s # f.sequence => stored[s] = X.rx.payload[s]
  BY <1>2 DEF HasRx
<1>5. \/ R = finish_rx_message(Y) /\ Cardinality(Received(Y)) = Y.rx.total
      \/ R = queue_partial_ack(Y) \/ R = Y
  BY DEF StoreSegment
<1> HIDE DEF stored, R
<1>6. /\ DOMAIN rx = DOMAIN X.rx /\ rx.active = X.rx.active /\ rx.message_id = X.rx.message_id
      /\ rx.total = X.rx.total /\ rx.payload = stored
      /\ rx.ack_valid = X.rx.ack_valid /\ rx.ack_cached = X.rx.ack_cached
  BY DEF HasRx
<1> HIDE DEF rx
<1>7. HasRx(Y) /\ Y.rx = rx /\ Y.accepts = X.accepts /\ Log(Y) = Log(X)
      /\ Y.stats = X.stats
  BY <1>4, <1>6 DEF HasRx, HasFields, Fields, Log
<1> HIDE DEF Y
<1>8. Reassembly(Y, id, b)
  <2>1. \A s \in Segment : stored[s] = NoBody \/ (stored[s] = b /\ s < Segments[b])
    BY <1>2, <1>4 DEF Reassembly
  <2>2. \A s \in Segment : X.rx.payload[s] # NoBody => stored[s] # NoBody
    BY <1>1, <1>4
  <2>3. X.rx.ack_valid => Tells(Y, X.rx.ack_cached)
    BY <1>6, <1>7, <2>2 DEF Reassembly, Tells, MarkedBy
  <2> QED  BY <1>6, <1>7, <2>1, <2>3 DEF Reassembly
<1>9. \A s \in Segment : Kept(X, s, b) => Kept(Y, s, b)
  BY <1>1, <1>3, <1>4, <1>6, <1>7 DEF Kept
<1>10. CASE R = queue_partial_ack(Y)
  <2>1. Y.rx.active /\ Y.rx.total \in Nat  BY <1>1, <1>6, <1>7
  <2>2. Reassembly(R, id, b) /\ \A s : Kept(Y, s, b) => Kept(R, s, b)
    BY <1>7, <1>8, <1>10, <2>1, PartialHolds
  <2> QED  BY <1>9, <2>2 DEF StoresOn, R
<1>11. CASE R = Y  BY <1>8, <1>9, <1>11 DEF StoresOn, R
<1>12. CASE R = finish_rx_message(Y) /\ Cardinality(Received(Y)) = Y.rx.total
  <2> DEFINE ack == DeliveredAck(Y)
             stats == [Y.stats EXCEPT !.messages_delivered = Append(@, b)]
             D == [Y EXCEPT !.delivered = b, !.stats = stats]
             Q == queue_frame(D, ack)
             kept == IF Len(Q.dup_cache) >= DupCacheEntries THEN Tail(Q.dup_cache)
                     ELSE Q.dup_cache
             cache == Append(kept, [session_id |-> Y.rx.session_id,
                                    message_id |-> Y.rx.message_id, ack |-> ack])
             P == [Q EXCEPT !.dup_cache = cache]
  <2>1. Assembled(Y) = b  BY <1>6, <1>7, <1>8, <1>12, AssembledWhole
  <2>2. R = IF b \notin Y.accepts THEN [Y EXCEPT !.rx = NoRx] ELSE [P EXCEPT !.rx = NoRx]
    BY <1>12, <2>1 DEF finish_rx_message, Intact, clear_rx_message, dup_store, Deliver
  <2>3. CASE b \notin Y.accepts
    <3>1. R.rx = NoRx /\ R.accepts = X.accepts  BY <1>7, <2>2, <2>3 DEF HasRx, HasFields, Fields
    <3>2. ~NoRx.active /\ ~NoRx.ack_valid  BY DEF NoRx
    <3> QED  BY <1>7, <2>3, <3>1, <3>2 DEF StoresOn, Reassembly, Kept, R
  <2>4. CASE b \in Y.accepts
    <3> HIDE DEF stats, ack
    <3>1. HasFields(D) /\ D.stats = stats  BY <1>7 DEF HasRx, HasFields, Fields
    <3>2. HasFields(Q) /\ Q.stats = stats
      <4> DEFINE o == Append(D.out_frames, ack)
      <4>1. Q \in {D, [D EXCEPT !.out_frames = o]}  BY DEF queue_frame
      <4> HIDE DEF o, D, Q
      <4> QED  BY <3>1, <4>1 DEF HasFields, Fields
    <3> HIDE DEF Q, cache
    <3>3. R.rx = NoRx /\ R.stats = stats  BY <2>2, <2>4, <3>2 DEF HasFields, Fields
    <3>4. Log(R) # Log(X)
      <4>1. stats.messages_delivered = Append(Log(X), b)
        BY <1>7 DEF stats, Log, HasRx
      <4>2. Len(Append(Log(X), b)) = Len(Log(X)) + 1 /\ Len(Log(X)) \in Nat  OBVIOUS
      <4> QED  BY <3>3, <4>1, <4>2 DEF Log
    <3>6. ~NoRx.active /\ ~NoRx.ack_valid  BY DEF NoRx
    <3> QED  BY <3>3, <3>4, <3>6 DEF StoresOn, Reassembly, R
  <2> QED  BY <2>3, <2>4
<1> QED  BY <1>5, <1>10, <1>11, <1>12

\* handle_data, of a segment of b if it is to be stored at all.
LEMMA DataStores ==
  ASSUME NEW L, HasRx(L), Log(L) \in Seq(Message), NEW f, f.type = "DATA", f.sequence \in Nat,
         NEW id, NEW b \in Message, Reassembly(L, id, b),
         Fresh(L, f) => f.message_id = id /\ f.payload = b /\ f.value = Segments[b],
         L.rx.active => f.message_id = L.rx.message_id
  PROVE  StoresOn(L, handle_data(L, f), id, b)
<1> DEFINE hits == dup_lookup(L, f.session_id, f.message_id)
           X == Reassembling(L, f)
           new == [NoRx EXCEPT !.active = TRUE, !.session_id = f.session_id,
                               !.message_id = f.message_id, !.total = f.value]
           C == clear_rx_message(L)
           Q == queue_frame(L, L.dup_cache[CHOOSE i \in hits : TRUE].ack)
           R == handle_data(L, f)
<1>1. \/ R = L \/ R = Q \/ (~L.rx.active /\ R = C)
      \/ /\ Fresh(L, f)
         /\ \/ R = X
            \/ f.sequence \in Received(X) /\ R = RepeatSegment(X, f)
            \/ f.sequence < X.rx.total /\ f.sequence \notin Received(X) /\ R = StoreSegment(X, f)
  <2> DEFINE continued == L.rx.active /\ f.message_id = L.rx.message_id
  <2>1. R = IF ~InSession(L, f) THEN L ELSE IF hits # {} THEN Q
            ELSE IF ~continued /\ L.delivered # NoBody THEN C
            ELSE IF X.rx.total # f.value \/ f.sequence >= X.rx.total THEN X
            ELSE IF f.sequence \in Received(X) THEN RepeatSegment(X, f)
            ELSE StoreSegment(X, f)
    BY DEF handle_data
  <2>2. InSession(L, f) /\ hits = {} /\ (continued \/ L.delivered = NoBody) => Fresh(L, f)
    BY DEF Fresh
  <2>3. X.rx.total = f.value /\ f.value = Segments[b] => X.rx.total \in Nat
    BY DataAssumption, SegmentNat
  <2> HIDE DEF hits, X, C, Q, R
  <2>4. ASSUME InSession(L, f), hits = {}, ~(~continued /\ L.delivered # NoBody)
        PROVE  /\ Fresh(L, f)
               /\ \/ R = X
                  \/ f.sequence \in Received(X) /\ R = RepeatSegment(X, f)
                  \/ f.sequence < X.rx.total /\ f.sequence \notin Received(X) /\ R = StoreSegment(X, f)
    <3>1. Fresh(L, f) /\ f.value = Segments[b]  BY <2>2, <2>4
    <3>2. ~(X.rx.total # f.value \/ f.sequence >= X.rx.total) => f.sequence < X.rx.total
      BY <2>3, <3>1
    <3> QED  BY <2>1, <2>4, <3>1, <3>2
  <2> QED  BY <2>1, <2>4
<1>2. HasRx(X) /\ X.accepts = L.accepts /\ Log(X) = Log(L) /\ X.rx.active
  <2>1. CASE L.rx.active /\ f.message_id = L.rx.message_id
    BY <2>1 DEF Reassembling
  <2>2. CASE ~(L.rx.active /\ f.message_id = L.rx.message_id)
    <3>1. X = [L EXCEPT !.rx = new]  BY <2>2 DEF Reassembling
    <3>2. DOMAIN new = DOMAIN NoRx /\ new.payload = NoRx.payload /\ new.active  BY DEF NoRx
    <3> HIDE DEF X, new
    <3> QED  BY <3>1, <3>2 DEF HasRx, HasFields, Fields, Log, NoRx
  <2> QED  BY <2>1, <2>2
<1>3. Fresh(L, f) => Reassembly(X, id, b)
  <2>1. CASE L.rx.active /\ f.message_id = L.rx.message_id
    BY <2>1 DEF Reassembling
  <2>2. CASE ~(L.rx.active /\ f.message_id = L.rx.message_id)
    <3>1. X = [L EXCEPT !.rx = new]  BY <2>2 DEF Reassembling
    <3>2. /\ new.message_id = f.message_id /\ new.total = f.value /\ ~new.ack_valid
          /\ \A s \in Segment : new.payload[s] = NoBody
      BY DEF NoRx
    <3> HIDE DEF X, new
    <3>3. X.rx = new  BY <3>1 DEF HasRx, HasFields, Fields
    <3> QED  BY <3>2, <3>3 DEF Reassembly
  <2> QED  BY <2>1, <2>2
<1>4. \A s : Kept(L, s, b) => Kept(X, s, b)
  <2>1. CASE L.rx.active
    <3>1. X = L  BY <2>1 DEF Reassembling
    <3> QED  BY <3>1
  <2>2. CASE ~L.rx.active
    <3> HIDE DEF X
    <3> QED  BY <1>2, <2>2 DEF Kept
  <2> QED  BY <2>1, <2>2
<1>5. ASSUME NEW S, Fresh(L, f), StoresOn(X, S, id, b) PROVE StoresOn(L, S, id, b)
  <2> HIDE DEF X
  <2> QED  BY <1>2, <1>4, <1>5 DEF StoresOn
<1>6. ASSUME NEW S, SameHeld(L, S) PROVE StoresOn(L, S, id, b)
  BY <1>6, SameHeldKeeps DEF StoresOn
<1>7. ASSUME NEW S, Fresh(L, f), SameHeld(X, S) PROVE StoresOn(L, S, id, b)
  <2>1. StoresOn(X, S, id, b)  BY <1>3, <1>7, SameHeldKeeps DEF StoresOn
  <2> QED  BY <1>5, <1>7, <2>1
<1>8. SameHeld(L, L) /\ SameHeld(X, X)  BY DEF SameHeld
<1>9. SameHeld(L, Q)  BY QueueHolds
<1>10. CASE ~L.rx.active /\ R = C
  <2>1. C.rx = NoRx /\ C.accepts = L.accepts  BY DEF clear_rx_message, HasRx, HasFields, Fields
  <2>2. ~NoRx.active /\ ~NoRx.ack_valid  BY DEF NoRx
  <2>3. StoresOn(L, C, id, b)  BY <1>10, <2>1, <2>2 DEF StoresOn, Reassembly, Kept
  <2> QED  BY <1>10, <2>3
<1> HIDE DEF X, Q, C, R
<1>11. CASE R = L \/ R = Q  BY <1>6, <1>8, <1>9, <1>11 DEF R
<1>12. CASE Fresh(L, f) /\ R = X  BY <1>7, <1>8, <1>12 DEF R
<1>13. CASE Fresh(L, f) /\ R = RepeatSegment(X, f)
  <2>1. \/ R = X \/ R = queue_frame(X, X.rx.ack_cached) \/ R = queue_partial_ack(X)
    BY <1>13 DEF RepeatSegment
  <2>2. CASE R = X  BY <1>12, <1>13, <2>2
  <2>3. CASE R = queue_frame(X, X.rx.ack_cached)
    <3>1. SameHeld(X, R)  BY <1>2, <2>3, QueueHolds
    <3> QED  BY <1>7, <1>13, <3>1 DEF R
  <2>4. CASE R = queue_partial_ack(X)
    <3>1. X.rx.total \in Nat
      <4>1. Segments[b] \in Nat  BY DataAssumption, SegmentNat
      <4> QED  BY <1>2, <1>3, <1>13, <4>1 DEF Reassembly
    <3>2. Reassembly(R, id, b) /\ \A s : Kept(X, s, b) => Kept(R, s, b)
      BY <1>2, <1>3, <1>13, <2>4, <3>1, PartialHolds
    <3>3. StoresOn(X, R, id, b)  BY <3>2 DEF StoresOn
    <3> QED  BY <1>5, <1>13, <3>3 DEF R
  <2> QED  BY <2>1, <2>2, <2>3, <2>4
<1>14. CASE /\ Fresh(L, f) /\ f.sequence < X.rx.total /\ f.sequence \notin Received(X)
            /\ R = StoreSegment(X, f)
  <2>1. StoresOn(X, R, id, b)  BY <1>2, <1>3, <1>14, StoreHolds
  <2> QED  BY <1>5, <1>14, <2>1 DEF R
<1> QED  BY <1>1, <1>10, <1>11, <1>12, <1>13, <1>14

\* The transfer and what an end accepts are none of handle_data's business.
LEMMA DataSpares ==
  ASSUME NEW L, HasFields(L), AckKept(L), NEW f
  PROVE  Spares(L, handle_data(L, f), {f})
<1> DEFINE Kin(X) == /\ HasFields(X) /\ X.accepts = L.accepts /\ X.tx = L.tx
                     /\ Clean(L.out_frames) => Clean(X.out_frames)
<1>1. Kin(L)  OBVIOUS
<1>2. ASSUME NEW X, Kin(X), NEW g, g.type # "CANCEL" PROVE Kin(queue_frame(X, g))
  <2> DEFINE o == Append(X.out_frames, g)
             R == queue_frame(X, g)
  <2>1. R \in {X, [X EXCEPT !.out_frames = o]}  BY DEF queue_frame
  <2>2. Clean(X.out_frames) => Clean(o)  BY <1>2, CleanMore
  <2> HIDE DEF o, R
  <2>3. Kin(R)  BY <1>2, <2>1, <2>2 DEF HasFields, Fields
  <2> QED  BY <2>3 DEF R
<1>3. ASSUME NEW X, Kin(X)
      PROVE  /\ \A rx : Kin([X EXCEPT !.rx = rx])
             /\ \A c : Kin([X EXCEPT !.dup_cache = c])
             /\ \A b, s : Kin([X EXCEPT !.delivered = b, !.stats = s])
  BY <1>3 DEF HasFields, Fields
<1>4. /\ \A X : DeliveredAck(X).type # "CANCEL"
      /\ \A i \in DOMAIN L.dup_cache : L.dup_cache[i].ack.type # "CANCEL"
      /\ L.rx.ack_valid => L.rx.ack_cached.type # "CANCEL"
  BY DEF DeliveredAck, ZeroFrame, AckKept, FinalOrNone
<1> HIDE DEF Kin
<1>5. ASSUME NEW X, Kin(X) PROVE Kin(queue_partial_ack(X))
  <2> DEFINE base == first_missing(X)
             ack == [ZeroFrame EXCEPT !.type = "ACK", !.session_id = X.rx.session_id,
                !.message_id = X.rx.message_id, !.sequence = base,
                !.bitmap = {s \in Received(X) : /\ base < s
                                                /\ s =< base + KAL_ACK_BITS
                                                /\ s < X.rx.total}]
             rx == [X.rx EXCEPT !.ack_cached = ack, !.ack_valid = TRUE]
  <2>1. queue_partial_ack(X) = queue_frame([X EXCEPT !.rx = rx], ack)  BY DEF queue_partial_ack
  <2>2. ack.type # "CANCEL"  BY DEF ZeroFrame
  <2> HIDE DEF ack, rx
  <2>3. Kin([X EXCEPT !.rx = rx])  BY <1>3, <1>5
  <2> QED  BY <1>2, <2>1, <2>2, <2>3
<1>6. ASSUME NEW X, Kin(X) PROVE Kin(finish_rx_message(X))
  BY <1>2, <1>3, <1>4, <1>6 DEF finish_rx_message, clear_rx_message, dup_store, Deliver
<1>7. ASSUME NEW X, Kin(X) PROVE Kin(StoreSegment(X, f))
  BY <1>3, <1>5, <1>6, <1>7 DEF StoreSegment
<1> DEFINE X == Reassembling(L, f)
<1>8. Kin(X) /\ (X.rx.ack_valid => X.rx.ack_cached.type # "CANCEL")
  <2> DEFINE new == [NoRx EXCEPT !.active = TRUE, !.session_id = f.session_id,
                                 !.message_id = f.message_id, !.total = f.value]
  <2>1. X \in {L, [L EXCEPT !.rx = new]}  BY DEF Reassembling
  <2>2. ~new.ack_valid  BY DEF NoRx
  <2>3. Kin([L EXCEPT !.rx = new])  BY <1>1, <1>3
  <2> HIDE DEF X, new
  <2>4. CASE X = [L EXCEPT !.rx = new]
    <3>1. X.rx = new  BY <2>4 DEF HasFields, Fields
    <3> QED  BY <2>2, <2>3, <2>4, <3>1
  <2>5. CASE X = L  BY <1>1, <1>4, <2>5
  <2> QED  BY <2>1, <2>4, <2>5
<1> HIDE DEF X
<1>9. Kin(RepeatSegment(X, f))  BY <1>2, <1>5, <1>8 DEF RepeatSegment
<1>10. Kin(StoreSegment(X, f))  BY <1>7, <1>8
<1>11. \A i \in DOMAIN L.dup_cache : Kin(queue_frame(L, L.dup_cache[i].ack))  BY <1>1, <1>2, <1>4
<1>12. Kin(clear_rx_message(L))  BY <1>1, <1>3 DEF clear_rx_message
<1> DEFINE hits == dup_lookup(L, f.session_id, f.message_id)
           i == CHOOSE n \in hits : TRUE
           R == handle_data(L, f)
<1>13. R \in {L, clear_rx_message(L), X, RepeatSegment(X, f), StoreSegment(X, f)}
       \/ (hits # {} /\ R = queue_frame(L, L.dup_cache[i].ack))
  BY DEF handle_data, X
<1>14. hits # {} => i \in DOMAIN L.dup_cache  BY DEF dup_lookup
<1> HIDE DEF R, hits, i
<1>15. Kin(R)  BY <1>1, <1>8, <1>9, <1>10, <1>11, <1>12, <1>13, <1>14
<1> QED  BY <1>15 DEF Kin, Spares, R

----------------------------------------------------------------------------
(* What an end marks and tells, turn by turn.                              *)

\* No CANCEL is on its way: it would drop a reassembly, whatever message it names.
Hushed(c) == \A g : Has(c, g) => g.type # "CANCEL"

\* What a step of L does to what is stored, whichever end it is of: R keeps its reassembly
\* or adds a segment to it (handle_data), and cancels only a transfer it gives up.
Storing(L, R, c, c1, heard) ==
  /\ Spares(L, R, heard)
  /\ Keeps(L, R, heard) \/ \E f \in heard : f.type = "DATA" /\ R = handle_data(L, f)
  /\ Hushed(c) => Hushed(c1) \/ (heard = {} /\ L.tx.active /\ ~R.tx.active)

\* As long as no transfer of e was abandoned, n messages are delivered: d reassembles the
\* next one of e, if e has submitted it, and holds what its partial ACKs on k say and what
\* e has marked.
Stored(e, c, d, k, box) ==
  Whole(e) =>
    LET n == Len(Log(d)) IN
    /\ Hushed(c)
    /\ d.rx.active \/ d.rx.ack_valid => n < e.submitted
    /\ n < e.submitted => Reassembly(d, MessageId(e, n), box[n + 1])
    /\ \A g : Has(k, g) /\ Partial(g) =>
         \/ g.message_id < MessageId(e, n)
         \/ /\ n < e.submitted /\ g.message_id = MessageId(e, n)
            /\ \A s \in MarkedBy(g) : Kept(d, s, box[n + 1])
    /\ e.tx.active /\ n < e.submitted => \A s \in e.tx.acked : Kept(d, s, box[n + 1])

\* A turn of the sender marks what is stored.
LEMMA StoredSender ==
  ASSUME NEW L, NEW R, NEW M, NEW c, NEW c1, NEW k, NEW k1, NEW heard, NEW new, NEW sends, NEW ids,
         Turning(L, R, M, c, c1, k, k1, heard, new, sends, ids), Storing(L, R, c, c1, heard),
         NEW box, sends = {} \/ sends = {box[L.submitted + 1]},
         Ordered(L, c), Books(L, box), Promised(L, c, M, k, box),
         Stored(L, c, M, k, box)
  PROVE  Stored(R, c1, M, k1, box)
<1> DEFINE n == Len(Log(M))
           b == box[n + 1]
<1> SUFFICES ASSUME Whole(R)
             PROVE  /\ Hushed(c1)
                    /\ M.rx.active \/ M.rx.ack_valid => n < R.submitted
                    /\ n < R.submitted => Reassembly(M, MessageId(R, n), b)
                    /\ \A g : Has(k1, g) /\ Partial(g) =>
                         \/ g.message_id < MessageId(R, n)
                         \/ /\ n < R.submitted /\ g.message_id = MessageId(R, n)
                            /\ \A s \in MarkedBy(g) : Kept(M, s, b)
                    /\ R.tx.active /\ n < R.submitted => \A s \in R.tx.acked : Kept(M, s, b)
  BY DEF Stored
<1>1. /\ L \in EndState(Message, Message) /\ R \in EndState(Message, Message)
      /\ M \in EndState(Message, Message) /\ R.role = L.role
  BY SenderFields DEF Turning
<1>2. MovesTransfer(L, R, heard, sends)  BY DEF Turning, Turns
<1>3. /\ R.submitted >= L.submitted /\ Whole(L)
      /\ SameTransfer(L, R) \/ Starts(L, R, sends) \/ Confirms(L, R, heard)
  BY <1>1, <1>2, BooksTurn
<1>4. /\ Len(Sent(L)) \in Nat /\ n \in Nat /\ L.submitted \in Nat /\ R.submitted \in Nat
      /\ FirstMessageId(L.role) \in Nat /\ L.tx.active \in BOOLEAN /\ R.tx.active \in BOOLEAN
  BY <1>1, LogTypes DEF FirstMessageId
<1>5. MessageId(R, n) = MessageId(L, n)  BY <1>1 DEF MessageId
<1>6. /\ Hushed(c)
      /\ M.rx.active \/ M.rx.ack_valid => n < L.submitted
      /\ n < L.submitted => Reassembly(M, MessageId(L, n), b)
      /\ \A g : Has(k, g) /\ Partial(g) =>
           \/ g.message_id < MessageId(L, n)
           \/ /\ n < L.submitted /\ g.message_id = MessageId(L, n)
              /\ \A s \in MarkedBy(g) : Kept(M, s, b)
      /\ L.tx.active /\ n < L.submitted => \A s \in L.tx.acked : Kept(M, s, b)
  BY <1>3 DEF Stored
<1>7. Len(Sent(L)) =< n  BY <1>3 DEF Promised
<1> HIDE DEF n, b
<1>8. Hushed(c1)
  <2>1. L.tx.active /\ ~R.tx.active => heard # {}
    <3>1. Confirms(L, R, heard) => heard # {}  BY DEF Confirms
    <3>2. SameTransfer(L, R) \/ Starts(L, R, sends) => L.tx.active = R.tx.active \/ R.tx.active
      BY DEF SameTransfer, Starts
    <3> QED  BY <1>3, <1>4, <3>1, <3>2
  <2> QED  BY <1>6, <2>1 DEF Storing
<1>9. n < L.submitted => n < R.submitted  BY <1>3, <1>4
<1>10. n < R.submitted => Reassembly(M, MessageId(R, n), b)
  BY <1>5, <1>6 DEF Reassembly
<1>11. \A g : Has(k1, g) => Has(k, g)  BY DEF Turning, Takes
<1>12. ASSUME R.tx.active, n < R.submitted, NEW s \in R.tx.acked PROVE Kept(M, s, b)
  <2>1. L.tx.active  BY <1>12 DEF Storing, Spares
  <2>2. R.submitted = L.submitted
    BY <1>3, <1>12, <2>1 DEF SameTransfer, Starts, Confirms
  <2>3. n = Len(Sent(L))
    <3>1. L.submitted = Len(Sent(L)) + 1  BY <1>3, <2>1 DEF Whole, Busy
    <3> QED  BY <1>4, <1>7, <1>12, <2>2, <3>1
  <2>4. L.tx.message_id = MessageId(L, n) /\ MessageId(L, n) \in Nat
    BY <1>4, <2>1, <2>3 DEF Ordered, MessageId, Sent
  <2>5. CASE s \in L.tx.acked  BY <1>6, <1>12, <2>1, <2>2, <2>5
  <2>6. ASSUME NEW f \in heard, Partial(f), f.message_id = L.tx.message_id, s \in MarkedBy(f)
        PROVE  Kept(M, s, b)
    <3>1. Has(k, f)  BY HeardOne
    <3>2. ~(f.message_id < MessageId(L, n))  BY <2>4, <2>6
    <3> QED  BY <1>6, <2>6, <3>1, <3>2
  <2> QED  BY <1>12, <2>5, <2>6 DEF Storing, Spares
<1>13. \A g : Has(k1, g) /\ Partial(g) =>
         \/ g.message_id < MessageId(R, n)
         \/ /\ n < R.submitted /\ g.message_id = MessageId(R, n)
            /\ \A s \in MarkedBy(g) : Kept(M, s, b)
  BY <1>5, <1>6, <1>9, <1>11
<1>14. M.rx.active \/ M.rx.ack_valid => n < R.submitted  BY <1>6, <1>9
<1> QED  BY <1>8, <1>10, <1>12, <1>13, <1>14

\* An end that holds anything does not leave the session of its peer for a HELLO.
LEMMA NotParted ==
  ASSUME NEW L, NEW R, NEW M, NEW c, NEW c1, NEW k, NEW k1, NEW heard, NEW new, NEW sends, NEW ids,
         Turning(L, R, M, c, c1, k, k1, heard, new, sends, ids),
         Bound(M, k, L), Touched(L), NEW f \in heard
  PROVE  ~Parts(L, f)
<1> SUFFICES ASSUME Parts(L, f) PROVE FALSE
  OBVIOUS
<1>1. L.session_open /\ L.session_id = M.session_id  BY DEF Bound
<1>2. f.type = "HELLO" /\ L.role # "initiator" /\ f.session_id # L.session_id  BY DEF Parts
<1>3. Has(k, f)  BY HeardOne
<1>4. M.role = "initiator" /\ L.role = "responder"  BY <1>2, <1>3 DEF Turning, Known
<1>5. Agree(M, k, L, c)  BY <1>4 DEF Turning, Known
<1>6. M.session_id # L.session_id  BY <1>1, <1>2, <1>3, <1>5 DEF Agree
<1> QED  BY <1>1, <1>6

\* A partial ACK that is queued is the one of the reassembly.
LEMMA PartialEmitted ==
  ASSUME NEW L, NEW R, NEW M, NEW c, NEW c1, NEW k, NEW k1, NEW heard, NEW new, NEW sends, NEW ids,
         Turning(L, R, M, c, c1, k, k1, heard, new, sends, ids),
         NEW g, Emits(L, R, heard, g), Partial(g)
  PROVE  R.rx.ack_valid /\ g = R.rx.ack_cached
<1>1. AckKept(R)  BY DEF Turning, Known
<1>2. \/ R.rx.ack_valid /\ g = R.rx.ack_cached
      \/ \E i \in DOMAIN R.dup_cache : g = R.dup_cache[i].ack
  BY EmitsInTurn DEF Partial
<1> QED  BY <1>1, <1>2 DEF AckKept, FinalOrNone, Partial

\* An end has the shape of one.
LEMMA EndHasRx ==
  ASSUME NEW L \in EndState(Message, Message)
  PROVE  HasRx(L)
<1>1. L.tx \in TxState(Message) /\ L.rx \in RxState(Message) /\ L.stats \in Stats(Message, Message)
  BY DEF EndState
<1>2. DOMAIN L.rx = {"active", "session_id", "message_id", "total", "payload", "ack_valid",
                     "ack_cached"} /\ DOMAIN L.rx.payload = Segment
  BY <1>1 DEF RxState
<1>3. DOMAIN L.stats = {"messages_delivered", "messages_sent"}  BY <1>1 DEF Stats
<1>4. HasFields(L)
  <2>1. DOMAIN L.tx = {"active", "started", "message_id", "total", "base", "retries", "payload",
                       "acked", "inflight"}
    BY <1>1 DEF TxState
  <2>2. DOMAIN L = {"role", "profile", "window", "accepts", "session_open", "hello_pending",
                    "session_id", "challenge", "next_message_id", "hello_ack_valid",
                    "hello_ack_cached", "hello_retries", "tx", "tx_status", "deadline_set", "rx",
                    "dup_cache", "delivered", "out_frames", "submitted", "stats"}
    BY DEF EndState
  <2> QED  BY <2>1, <2>2 DEF HasFields, Fields
<1> QED  BY <1>2, <1>3, <1>4 DEF HasRx

\* A turn of the receiver that does not deliver: what it holds of the next message of its
\* peer it goes on to hold.
LEMMA ReceiptStores ==
  ASSUME NEW L, NEW R, NEW M, NEW c, NEW c1, NEW k, NEW k1, NEW heard, NEW new, NEW sends, NEW ids,
         Turning(L, R, M, c, c1, k, k1, heard, new, sends, ids), Storing(L, R, c, c1, heard),
         Ordered(M, k), Bound(M, k, L), Above(M, k, L), Marks(M, k, L), Settled(M, k),
         L.role = "initiator" /\ M.role = "responder" => Answers(L, M, k),
         NEW box, Promised(M, k, L, c, box), Whole(M),
         \A f \in heard : f \in Frame(Message),
         Hushed(k), Len(Log(L)) < M.submitted,
         NEW id, id = MessageId(M, Len(Log(L))), NEW b \in Message, b = box[Len(Log(L)) + 1],
         Reassembly(L, id, b)
  PROVE  StoresOn(L, R, id, b)
<1>1. /\ L \in EndState(Message, Message) /\ M \in EndState(Message, Message)
      /\ HasRx(L) /\ Log(L) \in Seq(Message)
  BY LogTypes, EndHasRx DEF Turning
<1>2. R.accepts = L.accepts  BY DEF Storing, Spares
<1>3. CASE R.rx = L.rx
  BY <1>2, <1>3 DEF StoresOn, Reassembly, Tells, Kept
<1>4. ASSUME R.rx = NoRx, NEW f \in heard, f.type = "CANCEL" \/ Parts(L, f)
      PROVE  StoresOn(L, R, id, b)
  <2>1. f.type # "CANCEL"
    <3>1. Has(k, f)  BY HeardOne
    <3> QED  BY <3>1 DEF Hushed
  <2>2. ~L.rx.active
    <3>1. ~Touched(L)  BY <1>4, <2>1, NotParted
    <3> QED  BY <3>1 DEF Touched
  <2>3. ~NoRx.active /\ ~NoRx.ack_valid  BY DEF NoRx
  <2> QED  BY <1>2, <1>4, <2>2, <2>3 DEF StoresOn, Reassembly, Kept
<1>5. ASSUME NEW f \in heard, f.type = "DATA", R = handle_data(L, f)
      PROVE  StoresOn(L, R, id, b)
  <2>1. f \in Frame(Message) /\ Has(k, f)  BY HeardOne
  <2>2. f.sequence \in Nat /\ f.payload \in Message /\ f.value = Segments[f.payload]
    BY <1>5, <2>1 DEF Frame, AnyFrame
  <2>3. Fresh(L, f) => f.message_id = id /\ f.payload = b /\ f.value = Segments[b]
    <3> SUFFICES ASSUME Fresh(L, f) PROVE f.message_id = id /\ f.payload = b
      BY <2>2
    <3> QED  BY FreshNext
  <2>4. L.rx.active => f.message_id = L.rx.message_id
    <3> SUFFICES ASSUME L.rx.active PROVE f.message_id = L.rx.message_id
      OBVIOUS
    <3>1. Keyed(f)  BY <1>5 DEF Keyed
    <3>2. f.message_id >= L.rx.message_id /\ L.rx.message_id = id
      BY <2>1, <3>1 DEF Above, Reassembly
    <3>3. PICK n \in 1 .. M.submitted : f.message_id = MessageId(M, n - 1)
      BY <1>5, <2>1 DEF Promised
    <3>4. /\ Len(Log(L)) \in Nat /\ Len(Sent(M)) \in Nat /\ M.submitted \in Nat /\ Busy(M) \in 0 .. 1
          /\ FirstMessageId(M.role) \in Nat
      BY <1>1, LogTypes DEF FirstMessageId
    <3>5. M.submitted =< Len(Sent(M)) + 1 /\ Len(Sent(M)) =< Len(Log(L))
      BY <3>4 DEF Whole, Promised
    <3>6. n - 1 =< Len(Log(L)) /\ n - 1 \in Nat  BY <3>4, <3>5
    <3> QED  BY <3>2, <3>3, <3>4, <3>6 DEF MessageId
  <2>5. StoresOn(L, handle_data(L, f), id, b)  BY <1>1, <1>5, <2>2, <2>3, <2>4, DataStores
  <2> QED  BY <1>5, <2>5
<1> QED  BY <1>3, <1>4, <1>5 DEF Storing, Keeps

\* A turn of the receiver, about the messages of its peer.
LEMMA StoredReceiver ==
  ASSUME NEW L, NEW R, NEW M, NEW c, NEW c1, NEW k, NEW k1, NEW heard, NEW new, NEW sends, NEW ids,
         Turning(L, R, M, c, c1, k, k1, heard, new, sends, ids), Storing(L, R, c, c1, heard),
         Ordered(M, k), Bound(M, k, L), Above(M, k, L), Marks(M, k, L), Settled(M, k),
         L.role = "initiator" /\ M.role = "responder" => Answers(L, M, k),
         NEW box, Promised(M, k, L, c, box), \A i \in 1 .. M.submitted : box[i] \in Message,
         \A f \in heard : f \in Frame(Message),
         Stored(M, k, L, c, box)
  PROVE  Stored(M, k1, R, c1, box)
<1> DEFINE n == Len(Log(L))
           m == Len(Log(R))
           b == box[n + 1]
           id == MessageId(M, n)
<1> SUFFICES ASSUME Whole(M)
             PROVE  /\ Hushed(k1)
                    /\ R.rx.active \/ R.rx.ack_valid => m < M.submitted
                    /\ m < M.submitted => Reassembly(R, MessageId(M, m), box[m + 1])
                    /\ \A g : Has(c1, g) /\ Partial(g) =>
                         \/ g.message_id < MessageId(M, m)
                         \/ /\ m < M.submitted /\ g.message_id = MessageId(M, m)
                            /\ \A s \in MarkedBy(g) : Kept(R, s, box[m + 1])
                    /\ M.tx.active /\ m < M.submitted =>
                         \A s \in M.tx.acked : Kept(R, s, box[m + 1])
  BY DEF Stored
<1>1. /\ L \in EndState(Message, Message) /\ R \in EndState(Message, Message)
      /\ M \in EndState(Message, Message)
  BY DEF Turning
<1>2. /\ n \in Nat /\ m \in Nat /\ M.submitted \in Nat /\ Len(Sent(M)) \in Nat /\ Busy(M) \in 0 .. 1
      /\ FirstMessageId(M.role) \in Nat
  BY <1>1, LogTypes DEF FirstMessageId
<1>3. M.submitted =< Len(Sent(M)) + 1 /\ Len(Sent(M)) =< n /\ n =< M.submitted
  BY <1>2 DEF Whole, Promised
<1>4. /\ Hushed(k)
      /\ L.rx.active \/ L.rx.ack_valid => n < M.submitted
      /\ n < M.submitted => Reassembly(L, id, b)
      /\ \A g : Has(c, g) /\ Partial(g) =>
           \/ g.message_id < id
           \/ /\ n < M.submitted /\ g.message_id = id
              /\ \A s \in MarkedBy(g) : Kept(L, s, b)
      /\ M.tx.active /\ n < M.submitted => \A s \in M.tx.acked : Kept(L, s, b)
  BY DEF Stored
<1>5. Hushed(k1)  BY <1>4 DEF Turning, Takes, Hushed
<1>6. \A g : Has(c1, g) => Has(c, g) \/ Emits(L, R, heard, g)  BY DEF Turning, Puts
<1>7. \A g : Emits(L, R, heard, g) /\ Partial(g) => R.rx.ack_valid /\ g = R.rx.ack_cached
  BY PartialEmitted
<1>8. ~NoRx.active /\ ~NoRx.ack_valid  BY DEF NoRx
<1>9. CASE Delivers(L, R, heard)
  <2>1. m = n + 1 /\ m =< M.submitted
    BY <1>9, PromisedDelivers
  <2>2. R.rx = NoRx  BY <1>9 DEF Delivers
  <2>3. ~(m < M.submitted)  BY <1>2, <1>3, <2>1
  <2>4. ASSUME NEW g, Has(c1, g), Partial(g) PROVE g.message_id < MessageId(M, m)
    <3>1. Has(c, g)  BY <1>6, <1>7, <1>8, <2>2, <2>4
    <3>2. g.message_id \in Nat  BY <3>1 DEF Turning, AnyFrame, Frame
    <3>3. g.message_id < id \/ g.message_id = id  BY <1>4, <2>4, <3>1
    <3> HIDE DEF n, m
    <3> QED  BY <1>2, <2>1, <3>2, <3>3 DEF MessageId
  <2> HIDE DEF n, m, id, b
  <2> QED  BY <1>5, <1>8, <2>2, <2>3, <2>4
<1>10. CASE ~Delivers(L, R, heard)
  <2>1. m = n /\ Log(R) = Log(L)  BY <1>10, FinalsKept
  <2>2. CASE n < M.submitted
    <3>1. b \in Message
      <4>1. n + 1 \in 1 .. M.submitted  BY <1>2, <2>2
      <4> QED  BY <4>1
    <3>2. Reassembly(L, id, b)  BY <1>4, <2>2
    <3>3. StoresOn(L, R, id, b)  BY <1>4, <2>2, <3>1, <3>2, ReceiptStores
    <3>4. Reassembly(R, id, b) /\ \A s \in Segment : Kept(L, s, b) => Kept(R, s, b)
      BY <2>1, <3>3 DEF StoresOn
    <3>5. M.tx.acked \subseteq Segment
      <4>1. M.tx \in TxState(Message)  BY <1>1 DEF EndState
      <4> QED  BY <4>1 DEF TxState
    <3> HIDE DEF n, m, id, b
    <3>6. ASSUME NEW g, Has(c1, g), Partial(g)
          PROVE  g.message_id < id \/ (g.message_id = id /\ \A s \in MarkedBy(g) : Kept(R, s, b))
      <4>1. CASE Has(c, g)
        BY <1>4, <3>4, <3>6, <4>1 DEF MarkedBy
      <4>2. CASE R.rx.ack_valid /\ g = R.rx.ack_cached
        <5>1. Tells(R, g) /\ R.rx.active /\ R.rx.message_id = id
          BY <3>4, <4>2 DEF Reassembly, Tells
        <5> QED  BY <5>1 DEF Tells, Kept
      <4> QED  BY <1>6, <1>7, <3>6, <4>1, <4>2
    <3>7. M.tx.active => \A s \in M.tx.acked : Kept(R, s, b)
      BY <1>4, <2>2, <3>4, <3>5
    <3>8. MessageId(M, m) = id /\ box[m + 1] = b  BY <2>1 DEF id, b
    <3> QED  BY <1>5, <2>1, <2>2, <3>4, <3>6, <3>7, <3>8
  <2>3. CASE ~(n < M.submitted)
    <3>1. ~L.rx.active /\ ~L.rx.ack_valid  BY <1>4, <2>3
    <3>2. \A f \in heard : ~Fresh(L, f)
      <4> SUFFICES ASSUME NEW f \in heard, Fresh(L, f) PROVE FALSE
        OBVIOUS
      <4> QED  BY <2>3, FreshNext
    <3>3. R.rx = L.rx \/ R.rx = NoRx
      BY <1>10, <3>2
      DEF Turning, Turns, MovesReceipt, Idles, Leaves, Reassembles, TakesBeacon, Collects
    <3>4. ~R.rx.active /\ ~R.rx.ack_valid  BY <1>8, <3>1, <3>3
    <3>5. \A g : Has(c1, g) /\ Partial(g) => g.message_id < id
      BY <1>4, <1>6, <1>7, <2>3, <3>4
    <3>6. MessageId(M, m) = id  BY <2>1
    <3> HIDE DEF n, m, id, b
    <3> QED  BY <1>5, <2>1, <2>3, <3>4, <3>5, <3>6
  <2> QED  BY <2>2, <2>3
<1> QED  BY <1>9, <1>10

----------------------------------------------------------------------------
(* And in every reachable state.                                           *)

\* A channel is hushed if both its parts are.
LEMMA HushedJoin ==
  ASSUME NEW U, NEW a \in Seq(U), NEW o \in Seq(U)
  PROVE  Hushed(a \o o) <=> Hushed(a) /\ Clean(o)
<1> DEFINE u == a \o o
<1>1. \A i \in DOMAIN u : \/ i \in DOMAIN a /\ u[i] = a[i]
                          \/ i - Len(a) \in DOMAIN o /\ u[i] = o[i - Len(a)]
  OBVIOUS
<1>2. \A i \in DOMAIN a : i \in DOMAIN u /\ u[i] = a[i]  OBVIOUS
<1>3. \A i \in DOMAIN o : Len(a) + i \in DOMAIN u /\ u[Len(a) + i] = o[i]  OBVIOUS
<1>4. Row(o)  BY DEF Row
<1> HIDE DEF u
<1>5. Hushed(u) => Hushed(a) /\ Clean(o)  BY <1>2, <1>3, <1>4 DEF Hushed, Has, Clean
<1>6. Hushed(a) /\ Clean(o) => Hushed(u)
  <2> SUFFICES ASSUME Hushed(a), Clean(o), NEW i \in DOMAIN u PROVE u[i].type # "CANCEL"
    BY DEF Hushed, Has
  <2> QED  BY <1>1 DEF Hushed, Has, Clean
<1> QED  BY <1>5, <1>6 DEF u

\* The first frame leaves it so.
LEMMA HushedTail ==
  ASSUME NEW U, NEW c \in Seq(U), c # << >>, Hushed(c)
  PROVE  Hushed(Tail(c))
<1>1. \A i \in DOMAIN Tail(c) : i + 1 \in DOMAIN c /\ Tail(c)[i] = c[i + 1]  OBVIOUS
<1> QED  BY <1>1 DEF Hushed, Has

\* A step that leaves the air of its end.
LEMMA StoringChannel ==
  ASSUME NEW L, NEW R, NEW heard, NEW a \in Seq(Frame(Message)),
         L.out_frames \in Seq(Frame(Message)), R.out_frames \in Seq(Frame(Message)),
         Spares(L, R, heard),
         Keeps(L, R, heard) \/ \E f \in heard : f.type = "DATA" /\ R = handle_data(L, f)
  PROVE  Storing(L, R, a \o L.out_frames, a \o R.out_frames, heard)
<1>1. Hushed(a \o L.out_frames) => Hushed(a) /\ Clean(L.out_frames)  BY HushedJoin
<1>2. Hushed(a) /\ Clean(R.out_frames) => Hushed(a \o R.out_frames)  BY HushedJoin
<1> QED  BY <1>1, <1>2 DEF Storing, Spares

\* What Spend leaves of the cancellations.
LEMMA SpendCancels ==
  ASSUME IInv, NEW j \in Spent, Spend(j)
  PROVE  /\ spent'["cancel"] = 0 => spent["cancel"] = 0
         /\ j = "cancel" => spent'["cancel"] # 0
<1>1. /\ spent \in [Spent -> Nat]
      /\ spent' = [i \in Spent |-> spent[i] + (IF i \in {j, "any"} THEN 1 ELSE 0)]
  BY DEF IInv, Spend
<1>2. "cancel" \in Spent  BY DEF Spent
<1>3. /\ spent["cancel"] \in Nat
      /\ spent'["cancel"] = spent["cancel"] + (IF j = "cancel" THEN 1 ELSE 0)
  BY <1>1, <1>2
<1> QED  BY <1>3

\* No end has reset, cancelled, or lost a key of its cache.
Undisturbed == NothingForgotten /\ spent["cancel"] = 0

\* What a step of e does to the channels and to what is stored.
Stores(e, heard) ==
  /\ spent'["cancel"] = 0 => spent["cancel"] = 0
  /\ Undisturbed' => Storing(link[e], link'[e], Channel(e), Channel(e)', heard)

\* An operation or a timer.
LEMMA OperationStores ==
  ASSUME IInv, IInv', NEW e \in End, NEW R, Becomes(e, R), air' = air,
         Spares(link[e], R, {}), Keeps(link[e], R, {}),
         spent' = spent \/ \E j \in Spent : Spend(j)
  PROVE  Stores(e, {})
<1>1. /\ air[e] \in Seq(Frame(Message)) /\ link[e].out_frames \in Seq(Frame(Message))
      /\ link'[e] \in EndState(Message, Message) /\ DOMAIN link = End
  BY StepTypes
<1>2. link'[e] = R  BY <1>1 DEF Becomes
<1>3. R.out_frames \in Seq(Frame(Message))  BY <1>1, <1>2 DEF EndState
<1>4. Channel(e)' = air[e] \o R.out_frames  BY <1>2 DEF Channel
<1>5. Storing(link[e], R, air[e] \o link[e].out_frames, air[e] \o R.out_frames, {})
  BY <1>1, <1>3, StoringChannel
<1>6. spent'["cancel"] = 0 => spent["cancel"] = 0  BY SpendCancels
<1> QED  BY <1>2, <1>4, <1>5, <1>6 DEF Stores, Channel

\* Every step that hears nothing.
LEMMA ActionStores ==
  ASSUME IInv, IInv', NEW e \in End,
         \/ Send(e) \/ SendOpening(e) \/ SendWithoutEntropy(e)
         \/ SendBeacon(e) \/ Cancel(e) \/ Reset(e) \/ Collect(e)
         \/ Expire(e) \/ Age(e) \/ Pull(e) \/ Lose(e)
  PROVE  Stores(e, {})
<1> DEFINE L == link[e]
<1>1. /\ L \in EndState(Message, Message) /\ DOMAIN link = End /\ DOMAIN air = End
      /\ air[e] \in Seq(Frame(Message)) /\ L.out_frames \in Seq(Frame(Message))
  BY StepTypes
<1>2. HasFields(L)  BY <1>1, EndHasRx DEF HasRx
<1>3. \A R : Stays(L, R) => Spares(L, R, {}) /\ Keeps(L, R, {})  BY StaysSpares
<1>4. {"lose", "cancel", "reset", "beacon", "age", "entropy"} \subseteq Spent  BY DEF Spent
<1>5. CASE Send(e) \/ SendOpening(e) \/ SendWithoutEntropy(e)
  <2>1. /\ air' = air /\ (spent' = spent \/ Spend("entropy"))
        /\ \E ok, id : Becomes(e, kal_send(L, NextMessage(e), [ok |-> ok, id |-> id]))
    BY <1>5 DEF Send, SendOpening, SendWithoutEntropy
  <2>2. PICK ok, id : Becomes(e, kal_send(L, NextMessage(e), [ok |-> ok, id |-> id]))  BY <2>1
  <2> DEFINE R == kal_send(L, NextMessage(e), [ok |-> ok, id |-> id])
  <2>3. Spares(L, R, {}) /\ Keeps(L, R, {})  BY <1>2, SendSpares
  <2> HIDE DEF R
  <2>4. Becomes(e, R)  BY <2>2 DEF R
  <2> QED  BY <1>4, <2>1, <2>3, <2>4, OperationStores
<1>6. CASE SendBeacon(e)
  <2>1. PICK p \in Beacon : Becomes(e, kal_beacon(L, p))  BY <1>6 DEF SendBeacon
  <2> DEFINE f == [ZeroFrame EXCEPT !.type = "BEACON", !.session_id = L.session_id,
                     !.message_id = L.next_message_id, !.payload = p]
             R == kal_beacon(L, p)
  <2>2. f.type # "CANCEL"  BY DEF ZeroFrame
  <2>3. R = queue_frame(L, f)  BY DEF kal_beacon
  <2> HIDE DEF f
  <2>4. Stays(L, queue_frame(L, f))  BY <1>2, <2>2, HelpersStay
  <2>5. Spares(L, R, {}) /\ Keeps(L, R, {})  BY <1>3, <2>3, <2>4
  <2>6. Becomes(e, R) /\ air' = air /\ Spend("beacon")  BY <1>6, <2>1 DEF SendBeacon
  <2> HIDE DEF R
  <2> QED  BY <1>4, <2>5, <2>6, OperationStores
<1>7. CASE Cancel(e)
  <2>1. Spend("cancel")  BY <1>7 DEF Cancel
  <2>2. spent'["cancel"] # 0  BY <1>4, <2>1, SpendCancels
  <2> QED  BY <2>2 DEF Stores, Undisturbed
<1>8. CASE Reset(e) \/ Age(e)
  <2>1. PICK j \in {"reset", "age"} : Spend(j)  BY <1>8 DEF Reset, Age
  <2>2. ~NothingForgotten'  BY <1>4, <2>1, SpendForgets
  <2>3. spent'["cancel"] = 0 => spent["cancel"] = 0  BY <1>4, <2>1, SpendCancels
  <2> QED  BY <2>2, <2>3 DEF Stores, Undisturbed
<1>9. CASE Collect(e)
  <2> DEFINE R == [L EXCEPT !.delivered = NoBody]
  <2>1. Becomes(e, R) /\ air' = air /\ spent' = spent  BY <1>9 DEF Collect
  <2>2. Stays(L, R)  BY <1>2, HelpersStay
  <2> HIDE DEF R
  <2>3. Spares(L, R, {}) /\ Keeps(L, R, {})  BY <1>3, <2>2
  <2> QED  BY <2>1, <2>3, OperationStores
<1>10. CASE Expire(e)
  <2> DEFINE R == advance_time(L)
  <2>1. Becomes(e, R) /\ air' = air /\ spent' = spent  BY <1>10 DEF Expire
  <2>2. Spares(L, R, {}) /\ Keeps(L, R, {})  BY <1>2, AdvanceSpares
  <2> HIDE DEF R
  <2> QED  BY <2>1, <2>2, OperationStores
<1>11. CASE Pull(e)
  <2> DEFINE o == Tail(L.out_frames)
             R == [L EXCEPT !.out_frames = o]
  <2>1. /\ link' = [link EXCEPT ![e] = R] /\ spent' = spent /\ L.out_frames # << >>
        /\ air' = [air EXCEPT ![e] = Append(@, Head(L.out_frames))]
    BY <1>11 DEF Pull, Becomes
  <2>2. Clean(L.out_frames) => Clean(o)  BY <2>1, CleanMore
  <2>3. R.out_frames = o  BY <1>2 DEF HasFields, Fields
  <2> HIDE DEF o
  <2>4. Stays(L, R)  BY <1>2, <2>2 DEF Stays, HasFields, Fields
  <2> HIDE DEF R
  <2>5. Spares(L, R, {}) /\ Keeps(L, R, {})  BY <1>3, <2>4
  <2>6. link'[e] = R /\ air'[e] = Append(air[e], Head(L.out_frames))  BY <1>1, <2>1
  <2>7. Channel(e)' = Channel(e)
    <3>1. Channel(e)' = Append(air[e], Head(L.out_frames)) \o Tail(L.out_frames)
      BY <2>3, <2>6 DEF Channel, o
    <3>2. \A a, q \in Seq(Frame(Message)) :
            q # << >> => Append(a, Head(q)) \o Tail(q) = a \o q
      BY ChannelMoves
    <3>3. Append(air[e], Head(L.out_frames)) \o Tail(L.out_frames) = air[e] \o L.out_frames
      BY <1>1, <2>1, <3>2
    <3> QED  BY <3>1, <3>3 DEF Channel
  <2> QED  BY <2>1, <2>5, <2>6, <2>7 DEF Stores, Storing
<1>12. CASE Lose(e)
  <2>1. /\ link' = link /\ Spend("lose") /\ air[e] # << >>
        /\ air' = [air EXCEPT ![e] = Tail(@)]
    BY <1>12 DEF Lose
  <2>2. Channel(e)' = Tail(air[e]) \o L.out_frames  BY <1>1, <2>1 DEF Channel
  <2>3. /\ Channel(e) \in Seq(Frame(Message)) /\ Channel(e) # << >>
        /\ Channel(e)' = Tail(Channel(e))
    BY <1>1, <2>1, <2>2, ChannelMoves DEF Channel
  <2>4. Hushed(Channel(e)) => Hushed(Channel(e)')  BY <2>3, HushedTail
  <2>5. Spares(L, L, {}) /\ Keeps(L, L, {})  BY <1>2, <1>3, HelpersStay
  <2>6. spent'["cancel"] = 0 => spent["cancel"] = 0  BY <1>4, <2>1, SpendCancels
  <2> QED  BY <2>1, <2>4, <2>5, <2>6 DEF Stores, Storing
<1> QED
  BY <1>5, <1>6, <1>7, <1>8, <1>9, <1>10, <1>11, <1>12

\* A step that hears the first frame on the air.
LEMMA HearStores ==
  ASSUME IInv, IInv', Sessions, NEW e \in End, NEW type, Hear(e, type)
  PROVE  /\ Head(air[Peer(e)]) \in Frame(Message)
         /\ Stores(e, {Head(air[Peer(e)])})
<1> DEFINE d == Peer(e)
           L == link[e]
           f == Head(air[d])
           R == handle_frame(L, f)
<1>1. /\ L \in EndState(Message, Message) /\ link'[e] \in EndState(Message, Message)
      /\ air[e] \in Seq(Frame(Message)) /\ L.out_frames \in Seq(Frame(Message))
      /\ d \in End /\ d # e /\ DOMAIN link = End /\ DOMAIN air = End
  BY StepTypes
<1>2. air[d] \in Seq(Frame(Message))  BY <1>1, StepTypes
<1>3. HasFields(L)  BY <1>1, EndHasRx DEF HasRx
<1>4. Known(L, Channel(e), link[d], Channel(d), drawn)  BY SessionsKnown
<1>5. AckKept(L) /\ (L.hello_ack_valid => L.hello_ack_cached.type = "HELLO_ACK")
  BY <1>4 DEF Known
<1> HIDE DEF d
<1>6. /\ link' = [link EXCEPT ![e] = R] /\ air' = [air EXCEPT ![d] = Tail(@)]
      /\ air[d] # << >> /\ spent' = spent
  BY DEF Hear, Becomes, d
<1>7. f \in Frame(Message)  BY <1>2, <1>6
<1> HIDE DEF L, f
<1>8. /\ Spares(L, R, {f})
      /\ Keeps(L, R, {f}) \/ \E g \in {f} : g.type = "DATA" /\ R = handle_data(L, g)
  <2>1. CASE f.type = "DATA"
    <3>1. R = handle_data(L, f)  BY <2>1 DEF handle_frame
    <3>2. Spares(L, handle_data(L, f), {f})  BY <1>3, <1>5, DataSpares
    <3> QED  BY <2>1, <3>1, <3>2
  <2>2. CASE f.type # "DATA"  BY <1>3, <1>5, <2>2, HandlerSpares
  <2> QED  BY <2>1, <2>2
<1> HIDE DEF R
<1>9. link'[e] = R /\ air'[e] = air[e]  BY <1>1, <1>6 DEF L
<1>10. R.out_frames \in Seq(Frame(Message))  BY <1>1, <1>9 DEF EndState
<1>11. Channel(e)' = air[e] \o R.out_frames /\ Channel(e) = air[e] \o L.out_frames
  BY <1>9 DEF Channel, L
<1>12. Storing(L, R, Channel(e), Channel(e)', {f})
  <2>1. Storing(L, R, air[e] \o L.out_frames, air[e] \o R.out_frames, {f})
    BY <1>1, <1>8, <1>10, StoringChannel
  <2> QED  BY <1>11, <2>1
<1>13. Stores(e, {f})  BY <1>6, <1>9, <1>12 DEF Stores, L
<1> QED  BY <1>7, <1>13 DEF f, d

\* Every step of the system is a step of an end that stores what it hears.
LEMMA StepsStore ==
  ASSUME IInv, IInv', Sessions, [Next]_vars
  PROVE  \E e \in End : \E heard \in SUBSET Frame(Message) : \E ids, sends :
           Step(e, heard, ids, sends) /\ Stores(e, heard)
<1>1. CASE UNCHANGED vars
  <2>1. PICK e \in End : TRUE  BY EndsAssumption
  <2>2. /\ link' = link /\ drawn' = drawn \cup {} /\ NothingForgotten' = NothingForgotten
        /\ spent' = spent /\ \A d : Channel(d)' = Channel(d)
    BY <1>1 DEF vars, NothingForgotten, Channel
  <2>3. Turns(link[e], link'[e], {}, {}, {})
    BY <2>2, SameTurns DEF SameSession, SameTransfer, SameReceipt
  <2>4. Step(e, {}, {}, {})  BY <2>2, <2>3, KeptTakes, KeptPuts DEF Step
  <2>5. HasFields(link[e])  BY StepTypes, EndHasRx DEF HasRx
  <2>6. Stays(link[e], link[e])  BY <2>5, HelpersStay
  <2>7. Spares(link[e], link[e], {}) /\ Keeps(link[e], link[e], {})  BY <2>6, StaysSpares
  <2>8. Stores(e, {})  BY <2>2, <2>7 DEF Stores, Storing
  <2>9. {} \in SUBSET Frame(Message)  OBVIOUS
  <2> QED  BY <2>4, <2>8, <2>9
<1>2. ASSUME NEW e \in End, NEW type \in FrameTypes \cup {"NONE"}, Hear(e, type)
      PROVE  \E heard \in SUBSET Frame(Message) : \E ids, sends :
               Step(e, heard, ids, sends) /\ Stores(e, heard)
  <2> DEFINE heard == {Head(air[Peer(e)])}
  <2>1. Step(e, heard, {}, {})  BY <1>2, HearSteps
  <2>2. heard \in SUBSET Frame(Message) /\ Stores(e, heard)  BY <1>2, HearStores
  <2> HIDE DEF heard
  <2> QED  BY <2>1, <2>2
<1>3. ASSUME NEW e \in End,
             \/ Send(e) \/ SendOpening(e) \/ SendWithoutEntropy(e)
             \/ SendBeacon(e) \/ Cancel(e) \/ Reset(e) \/ Collect(e)
             \/ Expire(e) \/ Age(e) \/ Pull(e) \/ Lose(e)
      PROVE  \E heard \in SUBSET Frame(Message) : \E ids, sends :
               Step(e, heard, ids, sends) /\ Stores(e, heard)
  <2>1. \E ids, sends : Step(e, {}, ids, sends)  BY <1>3, ActionSteps
  <2>2. Stores(e, {})  BY <1>3, ActionStores
  <2>3. {} \in SUBSET Frame(Message)  OBVIOUS
  <2> QED  BY <2>1, <2>2, <2>3
<1> QED  BY <1>1, <1>2, <1>3 DEF Next

\* What has been marked and told is stored, at both ends.
AllStored ==
  Undisturbed =>
    \A e \in End : Stored(link[e], Channel(e), link[Peer(e)], Channel(Peer(e)), Outbox[e])

\* Nothing is, at first.
LEMMA InitStored == Init => AllStored
<1> SUFFICES ASSUME Init, NEW e \in End
             PROVE  Stored(link[e], Channel(e), link[Peer(e)], Channel(Peer(e)), Outbox[e])
  BY DEF AllStored
<1>1. \A x \in End :
        /\ ~link[x].tx.active /\ ~link[x].rx.active /\ ~link[x].rx.ack_valid
        /\ Channel(x) = << >>
  <2>1. \A x \in End : LET L == kal_link_create(x) IN
          L.tx = NoTx /\ L.rx = NoRx /\ L.out_frames = << >>
    BY DEF kal_link_create
  <2>2. ~NoTx.active /\ ~NoRx.active /\ ~NoRx.ack_valid  BY DEF NoTx, NoRx
  <2> QED  BY <2>1, <2>2 DEF Init, Channel
<1>2. Peer(e) \in End  BY PeerType
<1>3. \A g : ~Has(<< >>, g)  BY DEF Has
<1> QED  BY <1>1, <1>2, <1>3 DEF Stored, Hushed, Reassembly

\* A step stores what is marked and told by it.
LEMMA StepStored ==
  ASSUME IInv, IInv', Sessions, Sessions', Promises, Promises', AllStored,
         NEW e \in End, NEW heard \in SUBSET Frame(Message), NEW new, NEW sends,
         Step(e, heard, new, sends), Stores(e, heard)
  PROVE  AllStored'
<1> SUFFICES ASSUME Undisturbed'
             PROVE  \A x \in End : Stored(link'[x], Channel(x)', link'[Peer(x)],
                                          Channel(Peer(x))', Outbox[x])
  BY DEF AllStored
<1> DEFINE d == Peer(e)
           L == link[e]
           R == link'[e]
           M == link[d]
           c == Channel(e)
           c1 == Channel(e)'
           k == Channel(d)
           k1 == Channel(d)'
           own == Outbox[e]
           box == Outbox[d]
<1>1. /\ d \in End /\ d # e /\ (\A x \in End : x = e \/ x = d) /\ Peer(d) = e /\ link'[d] = M
  BY PeerType DEF Step
<1>2. Turns(L, R, heard, new, sends) /\ Undisturbed
  BY DEF Step, Stores, Undisturbed
<1>3. Turning(L, R, M, c, c1, k, k1, heard, new, sends, drawn)  BY <1>2, StepTurning
<1>4. Storing(L, R, c, c1, heard)  BY DEF Stores
<1>5. /\ Promise(L, c, M, k, own) /\ Promise(M, k, L, c, box)
      /\ Books(L, own) /\ Stored(L, c, M, k, own) /\ Stored(M, k, L, c, box)
  BY <1>1, <1>2 DEF Promises, AllStored, Undisturbed
<1>6. Ordered(R, c1)
  <2>1. Promise(R, c1, link'[d], k1, own)
    <3>1. (Promises /\ NothingForgotten =>
             \A x \in End :
               Promise(link[x], Channel(x), link[Peer(x)], Channel(Peer(x)), Outbox[x]))'
      BY DEF Promises
    <3> QED  BY <3>1 DEF Undisturbed
  <2> QED  BY <2>1 DEF Promise
<1>7. sends = {} \/ sends = {own[L.submitted + 1]}  BY DEF Step, NextMessage
<1>8. \A i \in 1 .. M.submitted : box[i] \in Message
  <2>1. M.submitted =< Len(box) /\ M.submitted \in Nat /\ box \in Seq(Message)
    BY <1>1, SubmittedType, DataAssumption DEF IInv
  <2> HIDE DEF M, box
  <2> QED  BY <2>1
<1> HIDE DEF L, R, M, c, c1, k, k1, own, box
<1>9. Stored(R, c1, M, k1, own)
  <2>1. Ordered(L, c) /\ Promised(L, c, M, k, own)  BY <1>5 DEF Promise
  <2> QED  BY <1>3, <1>4, <1>5, <1>6, <1>7, <2>1, StoredSender
<1>10. Stored(M, k1, R, c1, box)
  <2>1. /\ Ordered(M, k) /\ Bound(M, k, L) /\ Above(M, k, L) /\ Marks(M, k, L) /\ Settled(M, k)
        /\ L.role = "initiator" /\ M.role = "responder" => Answers(L, M, k)
        /\ Promised(M, k, L, c, box)
    BY <1>5 DEF Promise
  <2>2. \A f \in heard : f \in Frame(Message)  OBVIOUS
  <2> QED  BY <1>3, <1>4, <1>5, <1>8, <2>1, <2>2, StoredReceiver
<1>11. ASSUME NEW x \in End
       PROVE  Stored(link'[x], Channel(x)', link'[Peer(x)], Channel(Peer(x))', Outbox[x])
  <2>1. CASE x = e  BY <1>1, <1>9, <2>1 DEF R, c1, M, k1, own, d
  <2>2. CASE x = d  BY <1>1, <1>10, <2>2 DEF R, c1, M, k1, box
  <2> QED  BY <1>1, <2>1, <2>2
<1> QED  BY <1>11

\* What is marked is held: delivered, or in the reassembly of the next message.
LEMMA StoredAcked == IInv /\ Promises /\ AllStored => AckedIsStored
<1> SUFFICES ASSUME IInv, Promises, AllStored, Undisturbed, NEW e \in End,
                    NoneAbandoned(e), link[e].tx.payload \in link[Peer(e)].accepts,
                    NEW s \in link[e].tx.acked
             PROVE  LET tx == link[e].tx
                        peer == link[Peer(e)] IN
                    \/ Holds(Peer(e), tx.payload)
                    \/ peer.rx.active /\ peer.rx.payload[s] = tx.payload
  BY DEF AckedIsStored, Undisturbed
<1> DEFINE d == Peer(e)
           L == link[e]
           M == link[d]
           c == Channel(e)
           k == Channel(d)
           box == Outbox[e]
           n == Len(Log(M))
<1>1. L \in EndState(Message, Message) /\ M \in EndState(Message, Message) /\ d \in End
  BY PeerType DEF IInv
<1>2. Whole(L)  BY WholeIsNone
<1>3. Books(L, box) /\ Promised(L, c, M, k, box) /\ Stored(L, c, M, k, box)
  BY DEF Promises, Promise, AllStored, Undisturbed
<1>4. /\ Len(Sent(L)) \in Nat /\ n \in Nat /\ L.submitted \in Nat /\ DOMAIN Log(M) = 1 .. n
      /\ L.tx.active \in BOOLEAN
  <2>1. Log(M) \in Seq(Message)  BY <1>1, LogTypes
  <2> QED  BY <1>1, <2>1, LogTypes
<1>5. L.tx.active /\ s \in L.tx.acked /\ s \in Segment
  <2>1. L.tx.payload \in Message
    <3>1. M.accepts \subseteq Message  BY <1>1 DEF EndState
    <3> QED  BY <3>1
  <2>2. L.tx.payload # NoBody  BY <2>1, DataAssumption
  <2>3. TxBooks(L.tx)  BY DEF IInv, Good
  <2>4. L.tx \in TxState(Message)  BY <1>1 DEF EndState
  <2>5. s \in Segment  BY <2>4 DEF TxState
  <2> QED  BY <2>2, <2>3, <2>5 DEF TxBooks
<1>6. Log(M) = DeliveredLog(d)  BY DEF Log, DeliveredLog
<1> HIDE DEF L, M, c, k, box, n
<1>7. L.submitted = Len(Sent(L)) + 1 /\ L.tx.payload = box[L.submitted]
  BY <1>2, <1>3, <1>5 DEF Whole, Busy, Books
<1>8. /\ Len(Sent(L)) =< n /\ n =< L.submitted
      /\ \A i \in 1 .. n : Log(M)[i] = box[i]
  BY <1>2, <1>3 DEF Promised, n
<1>9. CASE n = L.submitted
  <2>1. n \in 1 .. n  BY <1>4, <1>7, <1>9
  <2>2. Log(M)[n] = L.tx.payload /\ n \in DOMAIN Log(M)  BY <1>4, <1>7, <1>8, <1>9, <2>1
  <2>3. Holds(d, L.tx.payload)  BY <1>6, <2>2 DEF Holds
  <2> QED  BY <2>3 DEF L, d
<1>10. CASE n < L.submitted
  <2>1. n + 1 = L.submitted  BY <1>4, <1>7, <1>8, <1>10
  <2>2. Kept(M, s, box[n + 1]) /\ Reassembly(M, MessageId(L, n), box[n + 1])
    BY <1>2, <1>3, <1>5, <1>10 DEF Stored, n
  <2>3. L.tx.payload \in M.accepts  BY DEF L, M
  <2>4. M.rx.active /\ M.rx.payload[s] # NoBody  BY <1>7, <2>1, <2>2, <2>3 DEF Kept
  <2>5. M.rx.payload[s] = L.tx.payload  BY <1>5, <1>7, <2>1, <2>2, <2>4 DEF Reassembly
  <2> QED  BY <2>4, <2>5 DEF L, M, d
<1> QED  BY <1>4, <1>8, <1>9, <1>10

\* A segment that the sender has marked acknowledged is held by the peer (handle_ack,
\* queue_partial_ack, handle_data): as long as no end resets, cancels or forgets a key.
THEOREM AcksTrue ==
  ASSUME FewMessages
  PROVE  Spec => []AckedIsStored
<1>1. Init => AllStored  BY InitStored
<1>2. /\ IInv /\ Sessions /\ Promises
      /\ (IInv /\ Sessions /\ Promises)'
      /\ [Next]_vars
      /\ AllStored
      => AllStored'
  <2> SUFFICES ASSUME IInv, Sessions, Promises, IInv', Sessions', Promises', [Next]_vars, AllStored
               PROVE  AllStored'
    OBVIOUS
  <2>1. PICK e \in End : \E heard \in SUBSET Frame(Message) : \E ids, sends :
                           Step(e, heard, ids, sends) /\ Stores(e, heard)
    BY StepsStore
  <2>2. PICK heard \in SUBSET Frame(Message) : \E ids, sends :
                           Step(e, heard, ids, sends) /\ Stores(e, heard)
    BY <2>1
  <2>3. PICK ids, sends : Step(e, heard, ids, sends) /\ Stores(e, heard)  BY <2>2
  <2> QED  BY <2>3, StepStored
<1> QED  BY <1>1, <1>2, StoredAcked, PromisesHold, PTL DEF Spec
==============================================================================
