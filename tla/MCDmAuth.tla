------------------------------ MODULE MCDmAuth ------------------------------
(***************************************************************************)
(* A HarmonyOS device pairs with B while another one only asks; and B may  *)
(* be dialled by another device, A.                                        *)
(***************************************************************************)
EXTENDS DmAuth, TLC

CONSTANTS A, B, a1, b1, m1, m2, m3, dm, pk, other

MsgHomes == m1 :> B @@ m2 :> B @@ m3 :> B
PakeOf == dm :> pk
Tries == dm :> 2 @@ other :> 1
Prefixes == dm :> "id1" @@ other :> "id2"

\* The fds of B start where the ids of its sessions do.
Peers  == dm :> m1 @@ m1 :> dm @@ pk :> m2 @@ m2 :> pk
         @@ other :> m3 @@ m3 :> other
Fds    == m1 :> 1 @@ m2 :> 2 @@ m3 :> 3

DialPeers == Peers @@ a1 :> b1 @@ b1 :> a1
DialFds   == Fds @@ a1 :> 9 @@ b1 :> 0
DialHomes == MsgHomes @@ a1 :> A @@ b1 :> B
=============================================================================
