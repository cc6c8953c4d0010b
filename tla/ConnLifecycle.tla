--------------------------- MODULE ConnLifecycle ---------------------------
(***************************************************************************)
(* What a connection table promises: a connection is recorded at most      *)
(* once, stays until it is dropped, and is never recorded again.           *)
(***************************************************************************)
VARIABLES
    live,     \* connections in the table
    retired   \* connections that left it or never got in

Init == live = {} /\ retired = {}

Establish(c) ==
    /\ c \notin live \cup retired
    /\ live' = live \cup {c}
    /\ UNCHANGED retired

Drop(c) ==
    /\ c \in live
    /\ live' = live \ {c}
    /\ retired' = retired \cup {c}

\* The connection went away, or found no request, before it was recorded.
Abandon(c) ==
    /\ c \notin live \cup retired
    /\ retired' = retired \cup {c}
    /\ UNCHANGED live

Next == \E c \in (live \cup live' \cup retired') : Establish(c) \/ Drop(c) \/ Abandon(c)

Spec == Init /\ [][Next]_<<live, retired>>
=============================================================================
