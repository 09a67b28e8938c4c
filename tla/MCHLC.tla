------------------------------- MODULE MCHLC -------------------------------
(* Two clocks, one of them shared by two threads. *)
EXTENDS HLC, TLC

CONSTANTS k1, k2, c1, c2, c3

MCClock == {k1, k2}
MCCaller == {c1, c2, c3}
MCClockOf == (c1 :> k1) @@ (c2 :> k1) @@ (c3 :> k2)
=============================================================================
