-------------------------- MODULE KalLinkDelivery ---------------------------
(* KalLink seen by the two applications, as an instance of KalDelivery.    *)
EXTENDS KalLink

\* What e's application has submitted, and what of it the peer has delivered.
SubmittedLog(e) == SubSeq(Outbox[e], 1, link[e].submitted)
DeliveredFrom(e) == DeliveredLog(Peer(e))

\* The promise ends with a transfer that was not confirmed, and when an end forgets.
Broken(e) == ~NoneAbandoned(e) \/ ~NothingForgotten

Mailboxes == INSTANCE KalDelivery WITH
  submitted <- [e \in End |-> SubmittedLog(e)],
  delivered <- [e \in End |-> DeliveredFrom(e)],
  confirmed <- [e \in End |-> SentLog(e)],
  inbox     <- [e \in End |-> link[e].delivered],
  broken    <- [e \in End |-> Broken(e)]

\* The link implements the mailbox it promises: sessions, windows, ACKs, the cache and
\* the retries show only as messages submitted, delivered, confirmed and collected.
DeliversAsPromised == Mailboxes!Spec

=============================================================================
