------------------------------ MODULE MCTimed -------------------------------
(* Small instances of KalTimed for TLC.                                     *)
EXTENDS KalTimed

CONSTANTS a, b, m1, m2, m3, ping

Both(x, y) == [e \in End |-> IF e = a THEN x ELSE y]

InitiatorAndResponder == Both("initiator", "responder")
OneProfile            == Both(0, 0)
Windows2              == Both(2, 2)
Windows4              == Both(4, 4)

SegmentsOf == [m \in Message |-> IF m = m3 THEN 1 ELSE IF m = m2 THEN 2 ELSE 3]
AcceptAll  == Both(Message, Message)

Send13   == Both(<<m1, m3>>, << >>)
Send2    == Both(<<m2>>, << >>)
SendEach == Both(<<m1>>, <<m3>>)

\* Noise and time are bounded by Bursts and the clock.
Unlimited == [k \in Spent |-> IF k \in {"lose", "age", "any"} THEN 1000 ELSE 0]
=============================================================================
