------------------------------ MODULE MCModem -------------------------------
(* Small instances of KalModem for TLC. *)
EXTENDS KalModem, TLC

\* Any link is as good as any other; profiles differ in nothing but their cached size.
Alike == Permutations(Link)
=============================================================================
