---------------------------- MODULE MCDotlockWait ----------------------------
(* An instance of DotlockWait for TLC: two owners; timeouts around the     *)
(* first intervals, around their sums and at the longest interval.         *)
EXTENDS DotlockWait

Callers == {-1, 0, 1, 49, 50, 51, 149, 150, 151, 351, 3551, 20000}
=============================================================================
