-------------------------- MODULE KalDeliveryProofs --------------------------
(* What a link that keeps the promise of KalDelivery gives its applications *)
(* for any number of messages.                                             *)
EXTENDS KalDelivery, TLAPS

Logs ==
  /\ submitted \in [End -> Seq(Message)]
  /\ delivered \in [End -> Seq(Message)]
  /\ confirmed \in [End -> Seq(Message)]
  /\ broken \in [End -> BOOLEAN]

IInv == Logs /\ InOrderOnce

\* A log that grows at the end goes on beginning with what it began with.
LEMMA PrefixGrows ==
  ASSUME NEW s \in Seq(Message), NEW t \in Seq(Message), NEW m \in Message, Prefix(s, t)
  PROVE  Prefix(s, Append(t, m))
  BY DEF Prefix

\* One more of what the longer log holds at that place keeps a prefix a prefix.
LEMMA PrefixExtends ==
  ASSUME NEW s \in Seq(Message), NEW t \in Seq(Message), NEW m \in Message, Prefix(s, t),
         Len(s) < Len(t), m = t[Len(s) + 1]
  PROVE  Prefix(Append(s, m), t)
<1>1. /\ Len(Append(s, m)) = Len(s) + 1 /\ Append(s, m)[Len(s) + 1] = m
      /\ \A i \in 1 .. Len(s) : Append(s, m)[i] = s[i]
      /\ DOMAIN Append(s, m) = 1 .. Len(s) + 1
  OBVIOUS
<1>2. \A i \in DOMAIN Append(s, m) : Append(s, m)[i] = t[i]
  <2> SUFFICES ASSUME NEW i \in 1 .. Len(s) + 1 PROVE Append(s, m)[i] = t[i]
    BY <1>1
  <2>1. CASE i = Len(s) + 1  BY <1>1, <2>1
  <2>2. CASE i \in 1 .. Len(s)  BY <1>1, <2>2 DEF Prefix
  <2> QED  BY <2>1, <2>2
<1> QED  BY <1>1, <1>2 DEF Prefix

\* Every step keeps the logs in order.
LEMMA NextInv == IInv /\ [Next]_mailboxes => IInv'
<1> SUFFICES ASSUME IInv, [Next]_mailboxes PROVE IInv'
  OBVIOUS
<1> USE DEF IInv, Logs
<1>1. CASE UNCHANGED mailboxes  BY <1>1 DEF mailboxes, InOrderOnce
<1>2. ASSUME NEW e \in End, NEW m \in Message, Submit(e, m) PROVE IInv'
  <2>1. submitted' = [submitted EXCEPT ![e] = Append(@, m)]
        /\ UNCHANGED <<delivered, confirmed, broken>>
    BY <1>2 DEF Submit
  <2>2. Logs'  BY <2>1
  <2>3. ASSUME NEW d \in End, ~broken[d]
        PROVE  Prefix(confirmed[d], delivered[d]) /\ Prefix(delivered[d], submitted'[d])
    <3>1. Prefix(confirmed[d], delivered[d]) /\ Prefix(delivered[d], submitted[d])
      BY <2>3 DEF InOrderOnce
    <3> QED  BY <2>1, <3>1, PrefixGrows
  <2> QED  BY <2>1, <2>2, <2>3 DEF InOrderOnce
<1>3. ASSUME NEW e \in End, NEW d \in End, NEW m \in SubmittedBy(e), Deliver(e, d, m) PROVE IInv'
  <2>1. /\ delivered' = [delivered EXCEPT ![e] = Append(@, m)]
        /\ UNCHANGED <<submitted, confirmed, broken>>
        /\ ~broken[e] => /\ Len(delivered[e]) < Len(submitted[e])
                         /\ m = submitted[e][Len(delivered[e]) + 1]
    BY <1>3 DEF Deliver
  <2>2. m \in Message  BY DEF SubmittedBy
  <2>3. Logs'  BY <2>1, <2>2
  <2>4. ASSUME NEW c \in End, ~broken[c]
        PROVE  Prefix(confirmed[c], delivered'[c]) /\ Prefix(delivered'[c], submitted[c])
    <3>1. Prefix(confirmed[c], delivered[c]) /\ Prefix(delivered[c], submitted[c])
      BY <2>4 DEF InOrderOnce
    <3> QED  BY <2>1, <2>2, <2>4, <3>1, PrefixGrows, PrefixExtends
  <2> QED  BY <2>1, <2>3, <2>4 DEF InOrderOnce
<1>4. ASSUME NEW e \in End, NEW m \in SubmittedBy(e), Confirm(e, m) PROVE IInv'
  <2>1. /\ confirmed' = [confirmed EXCEPT ![e] = Append(@, m)]
        /\ UNCHANGED <<submitted, delivered, broken>>
        /\ ~broken[e] => /\ Len(confirmed[e]) < Len(delivered[e])
                         /\ m = submitted[e][Len(confirmed[e]) + 1]
    BY <1>4 DEF Confirm
  <2>2. m \in Message  BY DEF SubmittedBy
  <2>3. Logs'  BY <2>1, <2>2
  <2>4. ASSUME NEW c \in End, ~broken[c] PROVE Prefix(confirmed'[c], delivered[c])
    <3>1. Prefix(confirmed[c], delivered[c]) /\ Prefix(delivered[c], submitted[c])
      BY <2>4 DEF InOrderOnce
    <3>2. CASE c # e  BY <2>1, <3>1, <3>2
    <3>3. CASE c = e
      <4>1. Len(confirmed[c]) < Len(delivered[c]) /\ m = submitted[c][Len(confirmed[c]) + 1]
        BY <2>1, <2>4, <3>3
      <4>2. Len(confirmed[c]) + 1 \in DOMAIN delivered[c]  BY <4>1
      <4>3. m = delivered[c][Len(confirmed[c]) + 1]  BY <3>1, <4>1, <4>2 DEF Prefix
      <4> QED  BY <2>1, <2>2, <3>1, <3>3, <4>1, <4>3, PrefixExtends
    <3> QED  BY <3>2, <3>3
  <2> QED  BY <2>1, <2>3, <2>4 DEF InOrderOnce
<1>5. ASSUME NEW e \in End, (\E p \in Beacon : DeliverBeacon(e, p)) \/ Collect(e) PROVE IInv'
  BY <1>5 DEF DeliverBeacon, Collect, InOrderOnce
<1>6. ASSUME NEW e \in End, GiveUp(e) PROVE IInv'
  <2>1. /\ broken' = [broken EXCEPT ![e] = TRUE]
        /\ UNCHANGED <<delivered, confirmed>>
        /\ \/ submitted' = submitted
           \/ \E m \in Message : submitted' = [submitted EXCEPT ![e] = Append(@, m)]
    BY <1>6 DEF GiveUp
  <2>2. Logs'
    <3>1. CASE submitted' = submitted  BY <2>1, <3>1
    <3>2. ASSUME NEW m \in Message, submitted' = [submitted EXCEPT ![e] = Append(@, m)] PROVE Logs'
      BY <2>1, <3>2
    <3> QED  BY <2>1, <3>1, <3>2
  <2>3. \A d \in End : ~broken'[d] => d # e /\ ~broken[d] /\ submitted'[d] = submitted[d]
    BY <2>1
  <2> QED  BY <2>1, <2>2, <2>3 DEF InOrderOnce
<1>7. ASSUME NEW e \in End, Forget(e) PROVE IInv'
  BY <1>7 DEF Forget, InOrderOnce
<1> QED  BY <1>1, <1>2, <1>3, <1>4, <1>5, <1>6, <1>7 DEF Next

\* Whoever implements KalDelivery loses, repeats and reorders nothing while the promise
\* holds: what is confirmed begins what was delivered, and that what was submitted.
THEOREM PromiseMeansInOrder == Spec => []InOrderOnce
<1>1. Init => IInv  BY DEF Init, IInv, Logs, InOrderOnce, Prefix
<1>2. IInv => InOrderOnce  BY DEF IInv
<1> QED  BY <1>1, <1>2, NextInv, PTL DEF Spec

=============================================================================
