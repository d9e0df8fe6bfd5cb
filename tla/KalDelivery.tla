---------------------------- MODULE KalDelivery -----------------------------
(***************************************************************************)
(* What a pair of kal_links promises the two applications                  *)
(* (include/kilix_acoustic_link.h, kal_send to kal_receive): a mailbox for *)
(* each direction that holds one message, delivers what was submitted once *)
(* and in order, and confirms a message after it was delivered.            *)
(*                                                                         *)
(* The promise to an end is void when one of its transfers is given up or  *)
(* cancelled, or when an end forgets what it delivered.  From then on      *)
(* a message may be delivered again, or confirmed and never delivered; but *)
(* nothing is delivered that was not submitted, and no message that waits  *)
(* to be collected is overwritten.                                         *)
(***************************************************************************)
EXTENDS Naturals, Sequences

CONSTANTS
  End,      \* the two ends
  Message,  \* application messages
  Beacon,   \* beacon payloads
  NoBody    \* the absence of either

VARIABLES
  submitted,  \* submitted[e]: what e's application has handed to kal_send
  delivered,  \* delivered[e]: what of it the peer has delivered
  confirmed,  \* confirmed[e]: what of it kal_tx_status has reported as done
  inbox,      \* inbox[e]: what e has to collect, or NoBody
  broken      \* broken[e]: the promise to e's messages is void

mailboxes == <<submitted, delivered, confirmed, inbox, broken>>

Init ==
  /\ submitted = [e \in End |-> << >>]
  /\ delivered = [e \in End |-> << >>]
  /\ confirmed = [e \in End |-> << >>]
  /\ inbox = [e \in End |-> NoBody]
  /\ broken = [e \in End |-> FALSE]

SubmittedBy(e) == {submitted[e][n] : n \in DOMAIN submitted[e]}

\* One message at a time.
Submit(e, m) ==
  /\ broken[e] \/ Len(confirmed[e]) = Len(submitted[e])
  /\ submitted' = [submitted EXCEPT ![e] = Append(@, m)]
  /\ UNCHANGED <<delivered, confirmed, inbox, broken>>

\* d, the peer of e, delivers m.
Deliver(e, d, m) ==
  /\ inbox[d] \notin Message
  /\ inbox' = [inbox EXCEPT ![d] = m]
  /\ delivered' = [delivered EXCEPT ![e] = Append(@, m)]
  /\ ~broken[e] => /\ inbox[d] = NoBody
                   /\ Len(delivered[e]) < Len(submitted[e])
                   /\ m = submitted[e][Len(delivered[e]) + 1]
  /\ UNCHANGED <<submitted, confirmed, broken>>

DeliverBeacon(d, p) ==
  /\ inbox[d] = NoBody
  /\ inbox' = [inbox EXCEPT ![d] = p]
  /\ UNCHANGED <<submitted, delivered, confirmed, broken>>

Confirm(e, m) ==
  /\ Len(confirmed[e]) < Len(submitted[e])
  /\ confirmed' = [confirmed EXCEPT ![e] = Append(@, m)]
  /\ ~broken[e] => /\ Len(confirmed[e]) < Len(delivered[e])
                   /\ m = submitted[e][Len(confirmed[e]) + 1]
  /\ UNCHANGED <<submitted, delivered, inbox, broken>>

Collect(e) ==
  /\ inbox' = [inbox EXCEPT ![e] = NoBody]
  /\ UNCHANGED <<submitted, delivered, confirmed, broken>>

\* A transfer of e ends without being confirmed, as it is submitted or later.
GiveUp(e) ==
  /\ broken' = [broken EXCEPT ![e] = TRUE]
  /\ \/ UNCHANGED submitted
     \/ \E m \in Message : submitted' = [submitted EXCEPT ![e] = Append(@, m)]
  /\ UNCHANGED <<delivered, confirmed, inbox>>

\* e forgets what it delivered, and with a reset also what it has to collect.
Forget(e) ==
  /\ broken' = [d \in End |-> TRUE]
  /\ inbox' \in {inbox, [inbox EXCEPT ![e] = NoBody]}
  /\ UNCHANGED <<submitted, delivered, confirmed>>

Next ==
  \E e \in End :
    \/ \E m \in Message : Submit(e, m)
    \/ \E m \in SubmittedBy(e) : Confirm(e, m) \/ \E d \in End \ {e} : Deliver(e, d, m)
    \/ \E p \in Beacon : DeliverBeacon(e, p)
    \/ Collect(e) \/ GiveUp(e) \/ Forget(e)

Spec == Init /\ [][Next]_mailboxes

----------------------------------------------------------------------------

Prefix(s, t) == Len(s) =< Len(t) /\ \A i \in DOMAIN s : s[i] = t[i]

\* While the promise holds, what is confirmed is the beginning of what was delivered,
\* and that of what was submitted: nothing lost, repeated or reordered.
InOrderOnce ==
  \A e \in End : ~broken[e] => /\ Prefix(confirmed[e], delivered[e])
                               /\ Prefix(delivered[e], submitted[e])

=============================================================================
