---------------------------- MODULE MCTimerWheel ----------------------------
(* A wheel of three levels of two slots, which spans eight milliseconds.        *)
EXTENDS TimerWheel

(* Periods and anchors in half milliseconds: grids that fall on and between     *)
(* milliseconds, and one that starts beyond the wheel's range.                  *)
MCSpecs ==
    {[period |-> 3, anchor |-> 0, policy |-> "burst"],
     [period |-> 4, anchor |-> 1, policy |-> "skip"],
     [period |-> 11, anchor |-> 5, policy |-> "skip"],
     [period |-> 9, anchor |-> 27, policy |-> "burst"]}
=============================================================================
