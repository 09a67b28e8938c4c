------------------------------ MODULE MuxConfig ------------------------------
(* The flow-control settings of a multiplexed connection                      *)
(* (crates/astrs-transport/src/config.rs, MuxConfig).                         *)
EXTENDS Naturals

CONSTANTS
    Window,      \* initial_window_frames, which is also the inbound capacity
    Threshold    \* credit_grant_threshold(), at most the window in note_consumed

\* validate() refuses a window of zero and a percentage outside 1..100.
ASSUME CreditAssumption ==
    /\ Window \in Nat \ {0}
    /\ Threshold \in 1..Window
=============================================================================
