---------------------------- MODULE MCWebOfTrust ----------------------------
(* Instances of WebOfTrust for TLC: the user's key u and three others, one *)
(* of them with two user ids.                                              *)
EXTENDS WebOfTrust

CONSTANTS u, a, b, c, u1, a1, b1, b2, c1

TwoOfB == (u :> <<u1>>) @@ (a :> <<a1>>) @@ (b :> <<b1, b2>>) @@ (c :> <<c1>>)

Cert(by, made, ends, revocable) ==
  [by |-> by, made |-> made, ends |-> ends, revocable |-> revocable,
   rev |-> FALSE, depth |-> 0, value |-> 0, scope |-> Uid]
Plainly(by) == Cert(by, 1, 0, TRUE)
Revocation(by, made) == [Cert(by, made, 0, TRUE) EXCEPT !.rev = TRUE]
Introduces(by, depth, value, scope) ==
  [Plainly(by) EXCEPT !.depth = depth, !.value = value, !.scope = scope]

None == [v \in Uid |-> <<>>]
NoEnd(S) == [x \in S |-> 0]
Web(sigs) == [sigs |-> sigs @@ None, keyends |-> NoEnd(Key), uidends |-> NoEnd(Uid)]
Trust(x, y, z) == (u :> Ultimate) @@ (a :> x) @@ (b :> y) @@ (c :> z)

(* Every web of plain certificates on these edges.                         *)
Edges == {<<u, b1>>, <<a, b1>>, <<a, b2>>, <<c, b2>>, <<a, c1>>, <<b, c1>>}
Those(S, v, by) == IF <<by, v>> \in S THEN <<Plainly(by)>> ELSE <<>>
Graph(S) ==
  Web([v \in Uid \ {u1} |->
         IF v = a1 THEN <<Plainly(u)>>
         ELSE Those(S, v, u) \o Those(S, v, a) \o Those(S, v, b) \o Those(S, v, c)])
Graphs == [web : {Graph(S) : S \in SUBSET Edges},
            ot : {Trust(x, y, Marginal) : x, y \in {Marginal, Fully}},
            now : {Horizon}]

(* Certificates that are renewed, revoked or expire, and keys that expire. *)
Certs == {Cert(u, m, e, r) : m \in {1, 2}, e \in {0, 3}, r \in BOOLEAN}
           \cup {Revocation(u, m) : m \in {1, 2}}
Dated(x, y, keyend, uidend) ==
  [Web((a1 :> <<x, y>>) @@ (b1 :> <<Plainly(a)>>)) EXCEPT
     !.keyends[a] = keyend, !.uidends[a1] = uidend]
Times == [web : {Dated(x, y, 0, 0) : x, y \in Certs}
                  \cup {Dated(x, Plainly(u), e, 3) : x \in Certs, e \in {0, 3}}
                  \cup {Dated(x, Plainly(u), 3, 0) : x \in Certs},
          ot : {Trust(Fully, Unknown, Unknown)}, now : {2}]

(* Chains of trust signatures.                                             *)
Chain(i, j, value, scope) ==
  Web((a1 :> <<Introduces(u, i, value, scope)>>)
        @@ (b1 :> <<Introduces(a, j, 120, Uid)>>)
        @@ (c1 :> <<Introduces(b, 1, 60, Uid), Plainly(a)>>))
Chains == [web : {Chain(i, j, v, s) : i, j \in 1 .. 3, v \in {60, 120},
                                      s \in {Uid, {b1}, {c1}}},
           ot : {Trust(Unknown, Unknown, Unknown)}, now : {Horizon}]

All == Graphs \cup Times \cup Chains
=============================================================================
