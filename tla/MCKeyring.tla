------------------------------ MODULE MCKeyring ------------------------------
(* Instances of Keyring for TLC.                                           *)
EXTENDS Keyring, TLC

CONSTANTS p1, p2, p3, pub, sec, ka, kb, kc

OneRing == [p \in Proc |-> <<CHOOSE r \in Ring : TRUE>>]
SameOrder == [p \in Proc |-> <<pub, sec>>]
Everything == [p \in Proc |-> {"insert", "update", "delete"} \X Key]
OwnKey == (p1 :> ka) @@ (p2 :> kb) @@ (p3 :> kc)
InsertOwn == [p \in Proc |-> {<<"insert", OwnKey[p]>>}]
InsertOrUpdateOwn == [p \in Proc |-> {"insert", "update"} \X {OwnKey[p]}]
NoFiles == [r \in Ring |-> Absent]
EmptyFiles == [r \in Ring |-> <<>>]
TwoKeys == [r \in Ring |-> Block(ka, 2) \o Block(kb, 1)]
=============================================================================
