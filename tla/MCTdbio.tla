------------------------------- MODULE MCTdbio -------------------------------
(* Instances of Tdbio for TLC: three keys in one slot and a fourth in      *)
(* another hash table record, so that lists of two items get chained.      *)
EXTENDS Tdbio

CONSTANTS p1, p2, ka, kb, kc, kd

FirstBytes == [k \in Fpr |-> IF k = kd THEN 1 ELSE 0]
OneFile == {<<<<ka, 1>>, <<kb, 2>>, <<kc, 1>>>>}
SomeChecks == {{}, {ka, kd}, {kb, kc}}
=============================================================================
