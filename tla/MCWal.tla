------------------------------- MODULE MCWal --------------------------------
(* Small instances of Wal.                                                  *)
EXTENDS Wal

Always == [every |-> 1, safe |-> TRUE]
EveryTwo == [every |-> 2, safe |-> FALSE]
Never == [every |-> 0, safe |-> FALSE]

AllPolicies == {Always, EveryTwo, Never}
=============================================================================
