------------------------------ MODULE MCDotlock ------------------------------
(* Instances of Dotlock for TLC: two or three processes on one node or on  *)
(* nodes of their own.                                                     *)
EXTENDS Dotlock, TLC

CONSTANTS p1, p2, p3, n1

OneNode == [p \in Proc |-> n1]
OwnNodes == [p \in Proc |-> p]
Alike == Permutations(Proc)
=============================================================================
