------------------------------ MODULE MCSoftBus ------------------------------
(* Two services whose capabilities have different numbers.                 *)
EXTENDS SoftBusServer, TLC

CONSTANTS s1, s2

\* s1 offers "profile", number 1, and s2 "dvKit", number 5.
Bits == s1 :> {0} @@ s2 :> {0, 2}
=============================================================================
