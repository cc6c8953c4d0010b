---------------------------- MODULE MCAuthSocket ----------------------------
(***************************************************************************)
(* A small instance of AuthSocket: two packets that just fit into the      *)
(* buffer together with a third behind them, one that is legal and too     *)
(* long for the buffer and one without data.                               *)
(***************************************************************************)
EXTENDS AuthSocket

CONSTANTS channel, sdk, meta

Packet(m, n) == [module |-> m, len |-> n]

SmallStreams ==
    { << Packet(channel, 1), Packet(sdk, 1), Packet(meta, 2) >>,
      << Packet(channel, 1), Packet(channel, 5) >>,
      << Packet(channel, 1), Packet(sdk, 0) >> }
=============================================================================
