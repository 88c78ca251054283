------------------------------- MODULE MCRandom -------------------------------
(* Two threads of one process and one of another.                          *)
EXTENDS Random

CONSTANTS a1, a2, b1, p, q

Threads == {a1, a2, b1}
Processes == {p, q}
Of == [t \in Threads |-> IF t = b1 THEN q ELSE p]
Calls == [r \in Processes |-> IF r = q THEN 1 ELSE 2]
Requests == {<<0, 2>>, <<1, 12>>, <<2, 4>>}
===============================================================================
