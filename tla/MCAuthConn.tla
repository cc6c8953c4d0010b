----------------------------- MODULE MCAuthConn -----------------------------
(***************************************************************************)
(* A small instance of AuthConn: an open call, which asks for another kind *)
(* of link than accepted connections have, a channel, an accepted          *)
(* connection and two closing goroutines.                                  *)
(***************************************************************************)
EXTENDS AuthConn, TLC

CONSTANT o1

OneRequestOf  == o1 :> 1
OneLinkTypeOf == o1 :> "p2p"

\* Closing goroutines are interchangeable.
Symmetric == Permutations(Closers)
=============================================================================
