---------------------------- MODULE MCBusCenter ----------------------------
(***************************************************************************)
(* A small instance of BusCenter: two joins, of the same second or of      *)
(* different ones, according to which of the three openers make their      *)
(* calls.                                                                  *)
(***************************************************************************)
EXTENDS BusCenter, TLC

CONSTANTS o1, o2, o3

JoinRequestOf  == o1 :> 1 @@ o2 :> 1 @@ o3 :> 2
JoinLinkTypeOf == o1 :> "wifi" @@ o2 :> "wifi" @@ o3 :> "wifi"
=============================================================================
