-------------------------- MODULE MCCoapDiscovery --------------------------
(* A device with two interfaces, one with a single one, and an address to  *)
(* move to.                                                                *)
EXTENDS CoapDiscovery, TLC

CONSTANTS d1, d2, a1, a2, a3, b1, lan, wlan

HomeOf == d1 :> (lan :> a1 @@ wlan :> b1) @@ d2 :> (lan :> a2 @@ wlan :> None)
Networks == a1 :> lan @@ a2 :> lan @@ a3 :> lan @@ b1 :> wlan
=============================================================================
