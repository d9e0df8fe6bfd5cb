------------------------------- MODULE MCLink -------------------------------
(* Small instances of KalLink for TLC.  End a is an initiator in every run.  *)
EXTENDS KalLinkDelivery

CONSTANTS a, b, m1, m2, m3, ping

Both(x, y) == [e \in End |-> IF e = a THEN x ELSE y]

InitiatorAndResponder == Both("initiator", "responder")
TwoInitiators         == Both("initiator", "initiator")
OneProfile            == Both(0, 0)

Windows1 == Both(1, 1)
Windows2 == Both(2, 2)
\* The ends must negotiate.
Windows4And3 == Both(4, 3)

\* m1 and m2 are cut into the same number of segments: a mixture of the two can
\* fill a reassembly.  m3 fits one frame.
SegmentsOf == [m \in Message |-> IF m = m3 THEN 1 ELSE 3]

\* Two segments are enough for a mixture.
ShortSegments == [m \in Message |-> IF m = m3 THEN 1 ELSE 2]

AcceptAll      == Both(Message, Message)
\* b's max_message_bytes admits only m3.
BobAcceptsShort == Both(Message, {m3})

Send1      == Both(<<m1>>, << >>)
Send12     == Both(<<m1, m2>>, << >>)
Send13     == Both(<<m1, m3>>, << >>)
Send132    == Both(<<m1, m3, m2>>, << >>)
SendBothWays == Both(<<m1, m2>>, <<m3>>)
SendEach   == Both(<<m1>>, <<m3>>)

\* At most n disturbances, at most one of a kind / only those of kind k.
AnyOf(n)  == [k \in Spent |-> IF k = "any" THEN n ELSE 1]
Only(k, n) == [j \in Spent |-> IF j \in {k, "any"} THEN n ELSE 0]

NoDisturbance    == AnyOf(0)
TwoDisturbances  == AnyOf(2)
OneCancel        == Only("cancel", 1)
OneBeacon        == Only("beacon", 1)
TwoLosses        == Only("lose", 2)
FourLosses       == Only("lose", 4)
ThreeLosses      == Only("lose", 3)
=============================================================================
