----------------------------- MODULE MCShmRing -----------------------------
(* Small rings for TLC. *)
EXTENDS ShmRing, TLC

CONSTANT c1

OneConsumer == {c1}
=============================================================================
