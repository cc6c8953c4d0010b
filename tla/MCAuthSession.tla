--------------------------- MODULE MCAuthSession ---------------------------
(* One or two devices that dial a third, which all run dsoftbus-go.        *)
EXTENDS AuthSession, TLC

CONSTANTS A, B, C, a1, a2, b1, b2, c1

\* A dials B, and A and C dial B.
OnePeer  == a1 :> b1 @@ b1 :> a1
OneHome  == a1 :> A @@ b1 :> B
OneFd    == a1 :> 20 @@ b1 :> 10

TwoPeers == a1 :> b1 @@ b1 :> a1 @@ c1 :> b2 @@ b2 :> c1
TwoHomes == a1 :> A @@ b1 :> B @@ b2 :> B @@ c1 :> C
TwoFds   == a1 :> 20 @@ b1 :> 10 @@ b2 :> 11 @@ c1 :> 20

\* A and B dial each other.
CrossPeers == a1 :> b1 @@ b1 :> a1 @@ b2 :> a2 @@ a2 :> b2
CrossHomes == a1 :> A @@ a2 :> A @@ b1 :> B @@ b2 :> B
CrossFds   == a1 :> 20 @@ a2 :> 10 @@ b1 :> 10 @@ b2 :> 20
=============================================================================
