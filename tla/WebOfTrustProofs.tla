-------------------------- MODULE WebOfTrustProofs --------------------------
(***************************************************************************)
(* Proofs about WebOfTrust: trust is delegated only along chains of trust  *)
(* signatures that begin at the user's own keys, within a check no user id *)
(* loses validity, and none gets more of it than certificates and          *)
(* ownertrust give, at any moment before the next check is due.            *)
(***************************************************************************)
EXTENDS WebOfTrust, FiniteSetTheorems, WellFoundedInduction, TLAPS

-----------------------------------------------------------------------------
(* Induction for sets of numbers, from the least element that is not in.   *)
LEMMA Climb ==
  ASSUME NEW T \in SUBSET Nat, 0 \in T, \A n \in T : n + 1 \in T
  PROVE  Nat \subseteq T
<1> DEFINE R == {ss \in Nat \X Nat : ss[1] < ss[2]}
<1> DEFINE Out == Nat \ T
<1> SUFFICES ASSUME Out # {} PROVE FALSE
    OBVIOUS
<1>1. IsWellFoundedOn(R, Nat)
    BY NatLessThanWellFounded DEF OpToRel
<1>2. PICK x \in Out : \A y \in Out : ~(<<y, x>> \in R)
    <2>1. Out \subseteq Nat
        OBVIOUS
    <2> QED BY <1>1, <2>1, WFMin
<1>3. x \in Nat /\ x # 0 /\ x \notin T
    BY <1>2
<1>4. x - 1 \in Nat /\ x - 1 < x /\ (x - 1) + 1 = x
    BY <1>3
<1>5. x - 1 \notin T
    BY <1>3, <1>4
<1> QED BY <1>2, <1>3, <1>4, <1>5


(* Folds over the numbers of a sequence: g[s] is what the numbers in s make *)
(* of base, the largest of them last.                                       *)
LEMMA MaxOfLast ==
  ASSUME NEW n \in Nat, NEW s \in SUBSET (1 .. n + 1), n + 1 \in s
  PROVE  Max(s) = n + 1 /\ s \ {Max(s)} \subseteq 1 .. n
<1>1. n + 1 \in s /\ \A y \in s : n + 1 >= y
    OBVIOUS
<1>2. Max(s) \in s /\ \A y \in s : Max(s) >= y
    BY <1>1 DEF Max
<1>3. Max(s) >= n + 1 /\ Max(s) \in 1 .. n + 1
    BY <1>1, <1>2
<1>4. Max(s) = n + 1
    BY <1>3
<1> QED BY <1>4

LEMMA MaxIn ==
  ASSUME NEW N \in Nat, NEW s \in SUBSET (1 .. N), s # {}
  PROVE  Max(s) \in 1 .. N
<1> DEFINE T == {n \in Nat : \A r \in SUBSET (1 .. n) : r # {} => Max(r) \in 1 .. n}
<1>1. 0 \in T
    <2>1. \A r \in SUBSET (1 .. 0) : r = {}
        OBVIOUS
    <2> QED BY <2>1
<1>2. ASSUME NEW n \in T PROVE n + 1 \in T
    <2>1. ASSUME NEW r \in SUBSET (1 .. n + 1), r # {} PROVE Max(r) \in 1 .. n + 1
        <3>1. CASE n + 1 \in r
            BY <3>1, MaxOfLast
        <3>2. CASE n + 1 \notin r
            <4>1. r \in SUBSET (1 .. n)
                BY <3>2
            <4> QED BY <4>1, <2>1
        <3> QED BY <3>1, <3>2
    <2> QED BY <2>1
<1>3. N \in T
    <2> HIDE DEF T
    <2>1. T \in SUBSET Nat
        BY DEF T
    <2> QED BY <1>1, <1>2, <2>1, Climb
<1> QED BY <1>3

LEMMA LastOfAll ==
  ASSUME NEW n \in Nat
  PROVE  1 .. n + 1 # {} /\ Max(1 .. n + 1) = n + 1 /\ (1 .. n + 1) \ {n + 1} = 1 .. n
<1> DEFINE s == 1 .. n + 1
<1>1. s \in SUBSET (1 .. n + 1) /\ n + 1 \in s /\ s \ {n + 1} = 1 .. n
    OBVIOUS
<1> HIDE DEF s
<1>2. s # {} /\ Max(s) = n + 1
    BY <1>1, MaxOfLast
<1> QED BY <1>1, <1>2 DEF s

Folded(N, base, F, h) ==
  \A s \in SUBSET (1 .. N) :
    h[s] = IF s = {} THEN base ELSE F[<<h[s \ {Max(s)}], Max(s)>>]

LEMMA FoldedExists ==
  ASSUME NEW X, NEW N \in Nat, NEW base \in X, NEW F \in [X \X (1 .. N) -> X]
  PROVE  \E h \in [SUBSET (1 .. N) -> X] : Folded(N, base, F, h)
<1> DEFINE D == SUBSET (1 .. N)
           rest(s) == s \ {Max(s)}
           Value(g, s) == IF s = {} THEN base ELSE F[<<g[rest(s)], Max(s)>>]
           Upto(g, n) == \A s \in D : s \subseteq 1 .. n => g[s] = Value(g, s)
           T == {n \in Nat : n <= N => \E g \in [D -> X] : Upto(g, n)}
<1>1. 0 \in T
    <2> DEFINE g == [s \in D |-> base]
    <2>1. \A s \in D : s \subseteq 1 .. 0 => s = {}
        OBVIOUS
    <2>2. g \in [D -> X]
        OBVIOUS
    <2>3. \A s \in D : g[s] = base
        OBVIOUS
    <2> HIDE DEF g, D
    <2>4. Upto(g, 0)
        BY <2>1, <2>3
    <2> HIDE DEF Upto
    <2> QED BY <2>2, <2>4
<1>2. ASSUME NEW n \in T PROVE n + 1 \in T
    <2>0. n \in Nat
        OBVIOUS
    <2> SUFFICES ASSUME n + 1 <= N PROVE \E g \in [D -> X] : Upto(g, n + 1)
        <3> HIDE DEF Upto, D
        <3> QED BY <2>0
    <2>1. PICK g \in [D -> X] : Upto(g, n)
        <3> HIDE DEF Upto, D
        <3> QED BY <2>0
    <2> DEFINE h == [s \in D |-> IF s \subseteq 1 .. n \/ ~(s \subseteq 1 .. n + 1)
                                   THEN g[s] ELSE Value(g, s)]
    <2>2. ASSUME NEW s \in D, s \subseteq 1 .. n + 1, ~(s \subseteq 1 .. n)
          PROVE  /\ Max(s) = n + 1 /\ rest(s) \subseteq 1 .. n /\ rest(s) \in D
        <3>1. n + 1 \in s
            BY <2>0, <2>2
        <3> HIDE DEF D
        <3>2. s \in SUBSET (1 .. n + 1)
            BY <2>2
        <3>3. Max(s) = n + 1 /\ s \ {Max(s)} \subseteq 1 .. n
            BY <2>0, <3>1, <3>2, MaxOfLast
        <3> QED BY <3>3 DEF D
    <2>3. ASSUME NEW s \in D, s \subseteq 1 .. n + 1, ~(s \subseteq 1 .. n)
          PROVE  Value(g, s) \in X
        <3>1. n + 1 \in 1 .. N
            BY <2>0
        <3>2. g[rest(s)] \in X
            <4> HIDE DEF D, rest
            <4> QED BY <2>1, <2>2, <2>3
        <3>3. F[<<g[rest(s)], n + 1>>] \in X
            <4> HIDE DEF rest
            <4> QED BY <3>1, <3>2
        <3>4. Max(s) = n + 1
            <4> HIDE DEF D, rest
            <4> QED BY <2>2, <2>3
        <3> HIDE DEF rest
        <3> QED BY <3>3, <3>4
    <2>4. h \in [D -> X]
        <3> HIDE DEF D, Value
        <3> QED BY <2>1, <2>3
    <2>5. \A s \in D : h[s] = IF s \subseteq 1 .. n \/ ~(s \subseteq 1 .. n + 1)
                                THEN g[s] ELSE Value(g, s)
        <3> HIDE DEF D, Value
        <3> QED OBVIOUS
    <2> HIDE DEF h
    <2>6. ASSUME NEW s \in D, s \subseteq 1 .. n + 1 PROVE h[s] = Value(h, s)
        <3>1. s # {} => rest(s) \in D /\ rest(s) \subseteq 1 .. n
            <4>1. CASE ~(s \subseteq 1 .. n)
                <5> HIDE DEF D, rest
                <5> QED BY <4>1, <2>2, <2>6
            <4>2. CASE s \subseteq 1 .. n
                BY <4>2
            <4> QED BY <4>1, <4>2
        <3> HIDE DEF D, rest
        <3>2. s # {} => h[rest(s)] = g[rest(s)]
            BY <3>1, <2>5
        <3>3. Value(h, s) = Value(g, s)
            BY <3>2
        <3> HIDE DEF Value
        <3>4. s \subseteq 1 .. n => g[s] = Value(g, s)
            BY <2>1
        <3> QED BY <3>3, <3>4, <2>5, <2>6
    <2>7. Upto(h, n + 1)
        <3> HIDE DEF Value
        <3> QED BY <2>6
    <2> HIDE DEF Upto, D
    <2> QED BY <2>4, <2>7
<1>3. N \in T
    <2> HIDE DEF T
    <2>1. T \in SUBSET Nat
        BY DEF T
    <2> QED BY <1>1, <1>2, <2>1, Climb
<1>4. PICK g \in [D -> X] : Upto(g, N)
    <2> HIDE DEF Upto, D
    <2> QED BY <1>3
<1>5. \A s \in D : g[s] = Value(g, s)
    <2> HIDE DEF Value
    <2> QED BY <1>4
<1>6. Folded(N, base, F, g)
    BY <1>5 DEF Folded
<1> QED BY <1>4, <1>6

-----------------------------------------------------------------------------
(* What the variables and the locals of a check hold.                      *)
PartialFunctions(S, T) == UNION {[D -> T] : D \in SUBSET S}
Trust == 0 .. Ultimate
MinTrust == {Unknown, Marginal, Fully}
Items == [ot : Trust, min : MinTrust, depth : Nat, value : Nat, scope : SUBSET Uid]
Tallies == [full : Nat, marginal : Nat]
Grants == [depth : Nat, value : Nat, scope : SUBSET Uid]
Results == [counts : PartialFunctions(Uid, Tallies), pk : Grants]
Runs == [start : Nat, depth : 0 .. MaxDepth - 1, klist : PartialFunctions(Key, Items),
         used : SUBSET Key, seen : SUBSET Key, found : PartialFunctions(Key, Results),
         left : SUBSET Key, expire : Nat, ask : BOOLEAN]
Records == [value : {0} \cup 2 .. Ultimate, full : 0 .. CountMod - 1,
            marginal : 0 .. CountMod - 1]
Webs == /\ web.sigs \in [Uid -> Seq(Certificate)]
        /\ web.keyends \in [Key -> Nat] /\ web.uidends \in [Uid -> Nat]

Types ==
  /\ Webs /\ now \in 2 .. Horizon
  /\ pc \in {"off", "idle", "assign", "scan", "store", "finish"}
  /\ ot \in [Key -> Trust] /\ minot \in [Key -> MinTrust]
  /\ valid \in [Uid -> Records] /\ nextcheck \in Nat
  /\ utk \in SUBSET Key
  /\ run \in Runs
  /\ DOMAIN run.klist \subseteq run.used
  /\ run.left \subseteq DOMAIN run.found

(* The certificates that are weighed are made by keys of klist, each by    *)
(* another one.                                                            *)
LEMMA SignersDistinct ==
  ASSUME NEW klist, NEW u, NEW t
  PROVE  /\ \A i \in Weighed(klist, u, t) :
              i \in DOMAIN web.sigs[u] /\ web.sigs[u][i].by \in DOMAIN klist
         /\ \A i, j \in Weighed(klist, u, t) :
              web.sigs[u][i].by = web.sigs[u][j].by => i = j
<1> DEFINE best(by) == Chosen(web.sigs[u], by, t)
<1>1. \A i \in Usable(u, DOMAIN klist, t) :
         /\ i \in DOMAIN web.sigs[u] /\ web.sigs[u][i].by \in DOMAIN klist
         /\ i = best(web.sigs[u][i].by)
    BY DEF Usable
<1>2. Weighed(klist, u, t) \subseteq Usable(u, DOMAIN klist, t)
    BY DEF Weighed
<1> HIDE DEF best
<1> QED BY <1>1, <1>2

(* get_validity_counts, certificate by certificate.                        *)
Tallied(klist, u, t, c, i) ==
  IF i \in Weighed(klist, u, t) THEN Count(c, klist[web.sigs[u][i].by].ot) ELSE c
Stored(u) == [full |-> valid[u].full, marginal |-> valid[u].marginal]
Tallying(klist, u, t, g) ==
  g = [s \in SUBSET DOMAIN [i \in DOMAIN web.sigs[u] |-> i] |->
         IF s = {} THEN Stored(u)
         ELSE Tallied(klist, u, t, g[s \ {Max(s)}],
                      [i \in DOMAIN web.sigs[u] |-> i][Max(s)])]

LEMMA CountTallies ==
  ASSUME NEW c \in Tallies, NEW trust
  PROVE  /\ Count(c, trust) \in Tallies
         /\ Count(c, trust).full <= c.full + 1 \/ Count(c, trust).full = Completes
         /\ Count(c, trust).full >= c.full \/ Count(c, trust).full >= Completes
         /\ Count(c, trust).marginal \in c.marginal .. c.marginal + 1
<1>1. Completes \in Nat
    BY NeededAssumption
<1>2. CASE trust = Ultimate
    BY <1>1, <1>2 DEF Count, Tallies
<1>3. CASE trust = Fully
    BY <1>1, <1>3 DEF Count, Tallies, Ultimate, Fully
<1>4. CASE trust = Marginal
    BY <1>1, <1>4 DEF Count, Tallies, Ultimate, Fully, Marginal
<1>5. CASE trust \notin {Ultimate, Fully, Marginal}
    BY <1>1, <1>5 DEF Count, Tallies
<1> QED BY <1>2, <1>3, <1>4, <1>5

Counting(klist, u, t, g) ==
  /\ Counts(klist, u, t) = g[1 .. Len(web.sigs[u])]
  /\ g[1 .. 0] = Stored(u)
  /\ \A n \in Nat : n + 1 <= Len(web.sigs[u]) =>
       g[1 .. n + 1] = Tallied(klist, u, t, g[1 .. n], n + 1)

LEMMA CountsTallying ==
  ASSUME NEW klist, NEW u \in Uid, NEW t, Webs, Stored(u) \in Tallies
  PROVE  \E g : Counting(klist, u, t, g)
<1> DEFINE N == Len(web.sigs[u])
           base == Stored(u)
           F == [p \in Tallies \X (1 .. N) |-> Tallied(klist, u, t, p[1], p[2])]
           ids == [i \in DOMAIN web.sigs[u] |-> i]
<1>1. N \in Nat /\ DOMAIN web.sigs[u] = 1 .. N
    BY DEF Webs
<1>2. DOMAIN ids = 1 .. N /\ \A i \in 1 .. N : ids[i] = i
    BY <1>1
<1>3. ASSUME NEW c \in Tallies, NEW i \in 1 .. N
      PROVE  Tallied(klist, u, t, c, i) \in Tallies
    <2>1. \A trust : Count(c, trust) \in Tallies
        BY CountTallies
    <2> QED BY <2>1 DEF Tallied
<1>4. F \in [Tallies \X (1 .. N) -> Tallies]
    <2> HIDE DEF N
    <2> QED BY <1>3
<1>5. \A c \in Tallies, i \in 1 .. N : F[<<c, i>>] = Tallied(klist, u, t, c, i)
    OBVIOUS
<1>6. PICK h \in [SUBSET (1 .. N) -> Tallies] : Folded(N, base, F, h)
    <2> HIDE DEF N, base, F
    <2>1. base \in Tallies
        BY DEF base
    <2> QED BY <1>1, <1>4, <2>1, FoldedExists
<1>7. ASSUME NEW s \in SUBSET (1 .. N), s # {}
      PROVE  Max(s) \in 1 .. N /\ s \ {Max(s)} \in SUBSET (1 .. N)
    BY <1>1, <1>7, MaxIn
<1>8. \A s \in SUBSET (1 .. N) :
        h[s] = IF s = {} THEN base ELSE Tallied(klist, u, t, h[s \ {Max(s)}], ids[Max(s)])
    <2> HIDE DEF N, base, F, ids
    <2> SUFFICES ASSUME NEW s \in SUBSET (1 .. N), s # {}
                 PROVE  h[s] = Tallied(klist, u, t, h[s \ {Max(s)}], ids[Max(s)])
        BY <1>6 DEF Folded
    <2>1. h[s] = F[<<h[s \ {Max(s)}], Max(s)>>]
        BY <1>6 DEF Folded
    <2>2. h[s \ {Max(s)}] \in Tallies /\ Max(s) \in 1 .. N
        BY <1>6, <1>7
    <2>3. ids[Max(s)] = Max(s)
        BY <1>2, <2>2
    <2> QED BY <1>5, <2>1, <2>2, <2>3
<1>9. \E g : Tallying(klist, u, t, g)
    <2>1. h = [s \in SUBSET DOMAIN ids |->
                 IF s = {} THEN base
                 ELSE Tallied(klist, u, t, h[s \ {Max(s)}], ids[Max(s)])]
        <3> HIDE DEF N, base, F, ids
        <3> QED BY <1>2, <1>6, <1>8
    <2>2. Tallying(klist, u, t, h)
        BY <2>1 DEF Tallying
    <2> QED BY <2>2
<1> DEFINE g == CHOOSE g : Tallying(klist, u, t, g)
<1>10. Tallying(klist, u, t, g)
    BY <1>9
<1>11. Counts(klist, u, t) = g[DOMAIN ids]
    BY DEF Counts, FoldLeftDomain, FoldLeft, MapThenFoldSet, Tallying, Tallied, Stored
<1> HIDE DEF g
<1>12. \A s \in SUBSET (1 .. N) :
        g[s] = IF s = {} THEN base ELSE Tallied(klist, u, t, g[s \ {Max(s)}], ids[Max(s)])
    <2>1. g = [s \in SUBSET DOMAIN ids |->
                 IF s = {} THEN base
                 ELSE Tallied(klist, u, t, g[s \ {Max(s)}], ids[Max(s)])]
        BY <1>10 DEF Tallying
    <2> HIDE DEF N, base, F, ids
    <2> QED BY <1>2, <2>1
<1> HIDE DEF N, base, F, ids
<1>13. g[1 .. 0] = base
    BY <1>12
<1>14. ASSUME NEW n \in Nat, n + 1 <= N
       PROVE  g[1 .. n + 1] = Tallied(klist, u, t, g[1 .. n], n + 1)
    <2>1. 1 .. n + 1 \in SUBSET (1 .. N) /\ n + 1 \in 1 .. N
        BY <1>1, <1>14
    <2>2. 1 .. n + 1 # {} /\ Max(1 .. n + 1) = n + 1 /\ (1 .. n + 1) \ {n + 1} = 1 .. n
        BY LastOfAll
    <2> QED BY <1>2, <1>12, <2>1, <2>2
<1>15. Counting(klist, u, t, g)
    BY <1>2, <1>11, <1>13, <1>14 DEF N, base, Counting
<1> QED BY <1>15

(* The trust that comes to a key, certificate by certificate and user id   *)
(* by user id: it stays in a set G that no certificate leads out of.       *)
Steadily(G, klist, u, t) ==
  \A p \in G, i \in Weighed(klist, u, t) :
    Granted(p, web.sigs[u][i], klist[web.sigs[u][i].by]) \in G
Passed(klist, u, t, p, i) ==
  IF i \in Weighed(klist, u, t)
    THEN Granted(p, web.sigs[u][i], klist[web.sigs[u][i].by]) ELSE p
GrantingUid(klist, u, t, pk, g) ==
  g = [s \in SUBSET DOMAIN [i \in DOMAIN web.sigs[u] |-> i] |->
         IF s = {} THEN pk
         ELSE Passed(klist, u, t, g[s \ {Max(s)}],
                     [i \in DOMAIN web.sigs[u] |-> i][Max(s)])]

LEMMA StaysIn ==
  ASSUME NEW N \in Nat, NEW g, NEW G, g[1 .. 0] \in G,
         \A n \in Nat : n + 1 <= N /\ g[1 .. n] \in G => g[1 .. n + 1] \in G
  PROVE  g[1 .. N] \in G
<1> DEFINE T == {n \in Nat : n <= N => g[1 .. n] \in G}
<1>1. 0 \in T
    OBVIOUS
<1>2. \A n \in T : n + 1 \in T
    OBVIOUS
<1>3. N \in T
    <2> HIDE DEF T
    <2>1. T \in SUBSET Nat
        BY DEF T
    <2> QED BY <1>1, <1>2, <2>1, Climb
<1> QED BY <1>3

LEMMA GrantedOnStays ==
  ASSUME NEW G, NEW pk \in G, NEW klist, NEW u \in Uid, NEW t, Webs,
         Steadily(G, klist, u, t)
  PROVE  GrantedOn(pk, klist, u, t) \in G
<1> DEFINE N == Len(web.sigs[u])
           F == [p \in G \X (1 .. N) |-> Passed(klist, u, t, p[1], p[2])]
           ids == [i \in DOMAIN web.sigs[u] |-> i]
<1>1. N \in Nat /\ DOMAIN web.sigs[u] = 1 .. N
    BY DEF Webs
<1>2. DOMAIN ids = 1 .. N /\ \A i \in 1 .. N : ids[i] = i
    BY <1>1
<1>3. \A p \in G, i \in 1 .. N : Passed(klist, u, t, p, i) \in G
    BY DEF Passed, Steadily
<1>4. F \in [G \X (1 .. N) -> G]
    <2> HIDE DEF N
    <2> QED BY <1>3
<1>5. \A p \in G, i \in 1 .. N : F[<<p, i>>] = Passed(klist, u, t, p, i)
    OBVIOUS
<1>6. PICK h \in [SUBSET (1 .. N) -> G] : Folded(N, pk, F, h)
    <2> HIDE DEF N, F
    <2> QED BY <1>1, <1>4, FoldedExists
<1>7. ASSUME NEW s \in SUBSET (1 .. N), s # {}
      PROVE  Max(s) \in 1 .. N /\ s \ {Max(s)} \in SUBSET (1 .. N)
    BY <1>1, <1>7, MaxIn
<1> HIDE DEF N, F
<1>8. \A s \in SUBSET (1 .. N) :
        h[s] = IF s = {} THEN pk ELSE Passed(klist, u, t, h[s \ {Max(s)}], ids[Max(s)])
    <2> HIDE DEF ids
    <2> SUFFICES ASSUME NEW s \in SUBSET (1 .. N), s # {}
                 PROVE  h[s] = Passed(klist, u, t, h[s \ {Max(s)}], ids[Max(s)])
        BY <1>6 DEF Folded
    <2>1. h[s] = F[<<h[s \ {Max(s)}], Max(s)>>]
        BY <1>6 DEF Folded
    <2>2. h[s \ {Max(s)}] \in G /\ Max(s) \in 1 .. N
        BY <1>6, <1>7
    <2>3. ids[Max(s)] = Max(s)
        BY <1>2, <2>2
    <2> QED BY <1>5, <2>1, <2>2, <2>3
<1>9. \E g : GrantingUid(klist, u, t, pk, g)
    <2>1. h = [s \in SUBSET DOMAIN ids |->
                 IF s = {} THEN pk
                 ELSE Passed(klist, u, t, h[s \ {Max(s)}], ids[Max(s)])]
        <3> HIDE DEF ids
        <3> QED BY <1>2, <1>6, <1>8
    <2>2. GrantingUid(klist, u, t, pk, h)
        BY <2>1 DEF GrantingUid
    <2> QED BY <2>2
<1> DEFINE g == CHOOSE g : GrantingUid(klist, u, t, pk, g)
<1>10. GrantingUid(klist, u, t, pk, g)
    BY <1>9
<1>11. GrantedOn(pk, klist, u, t) = g[DOMAIN ids]
    BY DEF GrantedOn, FoldLeftDomain, FoldLeft, MapThenFoldSet, GrantingUid, Passed
<1> HIDE DEF g
<1>12. \A s \in SUBSET (1 .. N) :
        g[s] = IF s = {} THEN pk ELSE Passed(klist, u, t, g[s \ {Max(s)}], ids[Max(s)])
    <2>1. g = [s \in SUBSET DOMAIN ids |->
                 IF s = {} THEN pk
                 ELSE Passed(klist, u, t, g[s \ {Max(s)}], ids[Max(s)])]
        BY <1>10 DEF GrantingUid
    <2> HIDE DEF ids
    <2> QED BY <1>2, <2>1
<1> HIDE DEF ids
<1>13. g[1 .. 0] \in G
    BY <1>12
<1>14. ASSUME NEW n \in Nat, n + 1 <= N, g[1 .. n] \in G
       PROVE  g[1 .. n + 1] \in G
    <2>1. 1 .. n + 1 \in SUBSET (1 .. N) /\ n + 1 \in 1 .. N
        BY <1>1, <1>14
    <2>2. 1 .. n + 1 # {} /\ Max(1 .. n + 1) = n + 1 /\ (1 .. n + 1) \ {n + 1} = 1 .. n
        BY LastOfAll
    <2>3. g[1 .. n + 1] = Passed(klist, u, t, g[1 .. n], n + 1)
        BY <1>2, <1>12, <2>1, <2>2
    <2> QED BY <1>3, <1>14, <2>1, <2>3
<1>15. g[1 .. N] \in G
    BY <1>1, <1>13, <1>14, StaysIn
<1> QED BY <1>2, <1>11, <1>15

PassedUid(klist, t, p, u) == IF Live(u, now) THEN GrantedOn(p, klist, u, t) ELSE p
GrantingKey(klist, k, t, g) ==
  g = [s \in SUBSET DOMAIN UidsOf[k] |->
         IF s = {} THEN NoTrust
         ELSE PassedUid(klist, t, g[s \ {Max(s)}], UidsOf[k][Max(s)])]

LEMMA EvaluatedStays ==
  ASSUME NEW G, NoTrust \in G, NEW klist, NEW k \in Key, NEW t, Webs,
         \A u \in Uids(k) : Steadily(G, klist, u, t)
  PROVE  Evaluated(klist, k, t).pk \in G
<1> DEFINE N == Len(UidsOf[k])
           F == [p \in G \X (1 .. N) |-> PassedUid(klist, t, p[1], UidsOf[k][p[2]])]
<1>1. N \in Nat /\ DOMAIN UidsOf[k] = 1 .. N
    BY UidsAssumption
<1>2. \A i \in 1 .. N : UidsOf[k][i] \in Uid /\ UidsOf[k][i] \in Uids(k)
    BY <1>1, UidsAssumption DEF Uids
<1>3. ASSUME NEW p \in G, NEW i \in 1 .. N
      PROVE  PassedUid(klist, t, p, UidsOf[k][i]) \in G
    BY <1>2, GrantedOnStays DEF PassedUid
<1>4. F \in [G \X (1 .. N) -> G]
    <2> HIDE DEF N
    <2> QED BY <1>3
<1>5. \A p \in G, i \in 1 .. N : F[<<p, i>>] = PassedUid(klist, t, p, UidsOf[k][i])
    OBVIOUS
<1>6. PICK h \in [SUBSET (1 .. N) -> G] : Folded(N, NoTrust, F, h)
    <2> HIDE DEF N, F
    <2> QED BY <1>1, <1>4, FoldedExists
<1>7. ASSUME NEW s \in SUBSET (1 .. N), s # {}
      PROVE  Max(s) \in 1 .. N /\ s \ {Max(s)} \in SUBSET (1 .. N)
    BY <1>1, <1>7, MaxIn
<1> HIDE DEF N, F
<1>8. \A s \in SUBSET (1 .. N) :
        h[s] = IF s = {} THEN NoTrust
               ELSE PassedUid(klist, t, h[s \ {Max(s)}], UidsOf[k][Max(s)])
    <2> SUFFICES ASSUME NEW s \in SUBSET (1 .. N), s # {}
                 PROVE  h[s] = PassedUid(klist, t, h[s \ {Max(s)}], UidsOf[k][Max(s)])
        BY <1>6 DEF Folded
    <2>1. h[s] = F[<<h[s \ {Max(s)}], Max(s)>>]
        BY <1>6 DEF Folded
    <2>2. h[s \ {Max(s)}] \in G /\ Max(s) \in 1 .. N
        BY <1>6, <1>7
    <2> QED BY <1>5, <2>1, <2>2
<1>9. \E g : GrantingKey(klist, k, t, g)
    <2>1. h = [s \in SUBSET DOMAIN UidsOf[k] |->
                 IF s = {} THEN NoTrust
                 ELSE PassedUid(klist, t, h[s \ {Max(s)}], UidsOf[k][Max(s)])]
        BY <1>1, <1>6, <1>8
    <2>2. GrantingKey(klist, k, t, h)
        BY <2>1 DEF GrantingKey
    <2> QED BY <2>2
<1> DEFINE g == CHOOSE g : GrantingKey(klist, k, t, g)
<1>10. GrantingKey(klist, k, t, g)
    BY <1>9
<1>11. Evaluated(klist, k, t).pk = g[DOMAIN UidsOf[k]]
    BY DEF Evaluated, FoldLeft, MapThenFoldSet, GrantingKey, PassedUid
<1> HIDE DEF g
<1>12. \A s \in SUBSET (1 .. N) :
        g[s] = IF s = {} THEN NoTrust
               ELSE PassedUid(klist, t, g[s \ {Max(s)}], UidsOf[k][Max(s)])
    BY <1>1, <1>10 DEF GrantingKey
<1>13. g[1 .. 0] \in G
    BY <1>12
<1>14. ASSUME NEW n \in Nat, n + 1 <= N, g[1 .. n] \in G
       PROVE  g[1 .. n + 1] \in G
    <2>1. 1 .. n + 1 \in SUBSET (1 .. N) /\ n + 1 \in 1 .. N
        BY <1>1, <1>14
    <2>2. 1 .. n + 1 # {} /\ Max(1 .. n + 1) = n + 1 /\ (1 .. n + 1) \ {n + 1} = 1 .. n
        BY LastOfAll
    <2>3. g[1 .. n + 1] = PassedUid(klist, t, g[1 .. n], UidsOf[k][n + 1])
        BY <1>12, <2>1, <2>2
    <2> QED BY <1>3, <1>14, <2>1, <2>3
<1>15. g[1 .. N] \in G
    BY <1>1, <1>13, <1>14, StaysIn
<1> QED BY <1>1, <1>11, <1>15

-----------------------------------------------------------------------------
(* Types.                                                                  *)
LEMMA PartialMade ==
  ASSUME NEW S, NEW T, NEW D \in SUBSET S, NEW f \in [D -> T]
  PROVE  f \in PartialFunctions(S, T)
BY DEF PartialFunctions

LEMMA PartialUsed ==
  ASSUME NEW S, NEW T, NEW f \in PartialFunctions(S, T)
  PROVE  DOMAIN f \in SUBSET S /\ f \in [DOMAIN f -> T]
BY DEF PartialFunctions

LEMMA PartialNone ==
  ASSUME NEW S, NEW T
  PROVE  <<>> \in PartialFunctions(S, T) /\ DOMAIN <<>> = {}
<1>1. <<>> \in [{} -> T]
    OBVIOUS
<1>2. DOMAIN <<>> = {}
    OBVIOUS
<1> QED BY <1>1, <1>2, PartialMade

LEMMA Least ==
  ASSUME NEW S \in SUBSET Nat, S # {}
  PROVE  \E x \in S : \A y \in S : x <= y
<1> DEFINE R == {ss \in Nat \X Nat : ss[1] < ss[2]}
<1>1. IsWellFoundedOn(R, Nat)
    BY NatLessThanWellFounded DEF OpToRel
<1>2. PICK x \in S : \A y \in S : ~(<<y, x>> \in R)
    <2> HIDE DEF R
    <2> QED BY <1>1, WFMin
<1>3. ASSUME NEW y \in S PROVE x <= y
    <2>1. x \in Nat /\ y \in Nat /\ ~(y < x)
        BY <1>2
    <2> QED BY <2>1
<1> QED BY <1>3

LEMMA SoonestNat ==
  ASSUME NEW S \in SUBSET Nat
  PROVE  Soonest(S) \in Nat
<1> DEFINE ends == S \ {0}
<1>1. CASE ends = {}
    BY <1>1 DEF Soonest
<1>2. CASE ends # {}
    <2>1. \E x \in ends : \A y \in ends : x <= y
        BY <1>2, Least
    <2>2. Soonest(S) \in ends
        BY <1>2, <2>1 DEF Soonest
    <2> QED BY <2>2
<1> QED BY <1>1, <1>2

LEMMA EndsNat ==
  ASSUME Webs, NEW klist, NEW k \in Key, NEW t
  PROVE  EndsOf(klist, k, t) \in SUBSET Nat
<1>1. Uids(k) \subseteq Uid
    BY UidsAssumption DEF Uids
<1>2. \A u \in Uid : web.uidends[u] \in Nat
    BY DEF Webs
<1>3. web.keyends[k] \in Nat
    BY DEF Webs
<1>4. ASSUME NEW u \in Uid, NEW i \in Usable(u, DOMAIN klist, t)
      PROVE  web.sigs[u][i].ends \in Nat
    <2>1. web.sigs[u] \in Seq(Certificate)
        BY DEF Webs
    <2>2. i \in DOMAIN web.sigs[u]
        BY DEF Usable
    <2>3. web.sigs[u][i] \in Certificate
        BY <2>1, <2>2
    <2> QED BY <2>3 DEF Certificate
<1> DEFINE live == {v \in Uids(k) : Live(v, now)}
           uidends == {web.uidends[u] : u \in live}
           sigends(u) == {web.sigs[u][i].ends : i \in Usable(u, DOMAIN klist, t)}
<1>5. live \subseteq Uid
    BY <1>1
<1>6. uidends \subseteq Nat
    BY <1>2, <1>5
<1>7. ASSUME NEW u \in live PROVE sigends(u) \subseteq Nat
    BY <1>4, <1>5
<1> DEFINE all == UNION {sigends(u) : u \in live}
<1>8. all \subseteq Nat
    <2> HIDE DEF sigends, live
    <2> QED BY <1>7
<1> DEFINE own == IF web.keyends[k] >= t /\ SignedUids(klist, k, t) # {}
                    THEN {web.keyends[k]} ELSE {}
<1>9. EndsOf(klist, k, t) = uidends \cup all \cup own
    BY DEF EndsOf
<1>10. own \subseteq Nat
    BY <1>3
<1> HIDE DEF all, uidends, own
<1> QED BY <1>6, <1>8, <1>9, <1>10

(* The certificates that are weighed, with the items of their signers.     *)
LEMMA WeighedTypes ==
  ASSUME Webs, NEW klist \in PartialFunctions(Key, Items), NEW u \in Uid, NEW t,
         NEW i \in Weighed(klist, u, t)
  PROVE  /\ web.sigs[u][i] \in Certificate
         /\ web.sigs[u][i].by \in DOMAIN klist /\ web.sigs[u][i].by \in Key
         /\ klist[web.sigs[u][i].by] \in Items
<1>1. i \in DOMAIN web.sigs[u] /\ web.sigs[u][i].by \in DOMAIN klist
    BY SignersDistinct
<1>2. web.sigs[u] \in Seq(Certificate)
    BY DEF Webs
<1>3. DOMAIN klist \in SUBSET Key /\ klist \in [DOMAIN klist -> Items]
    BY PartialUsed
<1> QED BY <1>1, <1>2, <1>3

LEMMA CountsTypes ==
  ASSUME Webs, NEW klist, NEW u \in Uid, NEW t, Stored(u) \in Tallies
  PROVE  Counts(klist, u, t) \in Tallies
<1>1. Len(web.sigs[u]) \in Nat
    BY DEF Webs
<1>a. PICK g : Counting(klist, u, t, g)
    BY CountsTallying
<1>2. /\ Counts(klist, u, t) = g[1 .. Len(web.sigs[u])]
      /\ g[1 .. 0] = Stored(u)
      /\ \A n \in Nat : n + 1 <= Len(web.sigs[u]) =>
           g[1 .. n + 1] = Tallied(klist, u, t, g[1 .. n], n + 1)
    BY <1>a DEF Counting
<1>3. ASSUME NEW c \in Tallies, NEW i
      PROVE  Tallied(klist, u, t, c, i) \in Tallies
    <2>1. \A trust : Count(c, trust) \in Tallies
        BY CountTallies
    <2> QED BY <2>1 DEF Tallied
<1> DEFINE N == Len(web.sigs[u])
<1>0. N \in Nat
    BY <1>1
<1>4. ASSUME NEW n \in Nat, n + 1 <= N, g[1 .. n] \in Tallies
      PROVE  g[1 .. n + 1] \in Tallies
    BY <1>2, <1>3, <1>4
<1>5. g[1 .. N] \in Tallies
    <2>1. g[1 .. 0] \in Tallies
        BY <1>2
    <2> HIDE DEF N
    <2> QED BY <1>0, <1>4, <2>1, StaysIn
<1> QED BY <1>2, <1>5

LEMMA GrantedTypes ==
  ASSUME NEW p \in Grants, NEW s \in Certificate, NEW item \in Items
  PROVE  Granted(p, s, item) \in Grants
<1>1. GrantedDepth(s, item) \in Nat
    BY DEF GrantedDepth, Certificate, Items
<1>2. Uid \in SUBSET Uid /\ p.scope \in SUBSET Uid /\ s.scope \in SUBSET Uid /\ s.value \in Nat
    BY DEF Grants, Certificate
<1> QED BY <1>1, <1>2 DEF Granted, Grants

LEMMA EvaluatedTypes ==
  ASSUME Webs, NEW klist \in PartialFunctions(Key, Items), NEW k \in Key, NEW t,
         \A u \in Uid : Stored(u) \in Tallies
  PROVE  Evaluated(klist, k, t) \in Results
<1>1. Uids(k) \subseteq Uid
    BY UidsAssumption DEF Uids
<1>2. NoTrust \in Grants
    BY DEF NoTrust, Grants
<1>3. ASSUME NEW u \in Uids(k) PROVE Steadily(Grants, klist, u, t)
    BY <1>1, WeighedTypes, GrantedTypes DEF Steadily
<1>4. Evaluated(klist, k, t).pk \in Grants
    BY <1>2, <1>3, EvaluatedStays
<1>5. SignedUids(klist, k, t) \in SUBSET Uid
    BY <1>1 DEF SignedUids
<1>6. \A u \in Uid : Counts(klist, u, t) \in Tallies
    BY CountsTypes
<1>7. [u \in SignedUids(klist, k, t) |-> Counts(klist, u, t)]
        \in PartialFunctions(Uid, Tallies)
    BY <1>5, <1>6, PartialMade
<1>8. /\ Evaluated(klist, k, t) = [counts |-> Evaluated(klist, k, t).counts,
                                   pk |-> Evaluated(klist, k, t).pk]
      /\ Evaluated(klist, k, t).counts
           = [u \in SignedUids(klist, k, t) |-> Counts(klist, u, t)]
    BY DEF Evaluated
<1> QED BY <1>4, <1>7, <1>8 DEF Results

LEMMA StoredTypes ==
  ASSUME NEW c \in Tallies
  PROVE  Status(c) \in {Undefined, Marginal, Fully} /\ StoredCounts(c) \in Records
<1>1. CountMod \in Nat \ {0}
    BY WidthAssumption, NeededAssumption
<1>2. c.full % CountMod \in 0 .. CountMod - 1 /\ c.marginal % CountMod \in 0 .. CountMod - 1
    BY <1>1 DEF Tallies
<1>3. Status(c) \in {Undefined, Marginal, Fully}
    BY DEF Status
<1> QED BY <1>2, <1>3 DEF StoredCounts, Records, Undefined, Marginal, Fully, Ultimate

LEMMA ValidTallies ==
  ASSUME valid \in [Uid -> Records], NEW u \in Uid
  PROVE  Stored(u) \in Tallies
BY WidthAssumption DEF Records, Tallies, Stored

LEMMA ItemTypes ==
  ASSUME NEW trust \in Trust, NEW min \in MinTrust, NEW p \in Grants
  PROVE  Item(trust, min, p) \in Items
BY DEF Item, Items, Grants

LEMMA MinTypes ==
  ASSUME NEW item \in Items
  PROVE  MinOf(item) \in MinTrust
BY DEF MinOf, Items, MinTrust

LEMMA KlistTypes ==
  ASSUME Types
  PROVE  /\ run.klist \in PartialFunctions(Key, Items)
         /\ DOMAIN run.klist \in SUBSET Key
         /\ \A k \in DOMAIN run.klist : run.klist[k] \in Items
<1>1. run.klist \in PartialFunctions(Key, Items)
    BY DEF Types, Runs
<1> QED BY <1>1, PartialUsed

LEMMA FoundTypes ==
  ASSUME Types
  PROVE  /\ DOMAIN run.found \in SUBSET Key
         /\ \A k \in DOMAIN run.found :
              /\ run.found[k].pk \in Grants
              /\ DOMAIN run.found[k].counts \in SUBSET Uid
              /\ \A u \in DOMAIN run.found[k].counts :
                   run.found[k].counts[u] \in Tallies
<1>1. run.found \in PartialFunctions(Key, Results)
    BY DEF Types, Runs
<1>2. DOMAIN run.found \in SUBSET Key /\ run.found \in [DOMAIN run.found -> Results]
    BY <1>1, PartialUsed
<1>3. ASSUME NEW k \in DOMAIN run.found
      PROVE  /\ run.found[k].pk \in Grants
             /\ run.found[k].counts \in PartialFunctions(Uid, Tallies)
    BY <1>2 DEF Results
<1>4. ASSUME NEW k \in DOMAIN run.found
      PROVE  /\ DOMAIN run.found[k].counts \in SUBSET Uid
             /\ run.found[k].counts \in [DOMAIN run.found[k].counts -> Tallies]
    BY <1>3, PartialUsed
<1> QED BY <1>2, <1>3, <1>4

LEMMA NoRunTypes == NoRun \in Runs /\ DOMAIN NoRun.klist = {} /\ NoRun.left = {}
<1>1. 0 \in 0 .. MaxDepth - 1
    BY NeededAssumption
<1>2. /\ <<>> \in PartialFunctions(Key, Items)
      /\ <<>> \in PartialFunctions(Key, Results)
      /\ DOMAIN <<>> = {}
    BY PartialNone
<1> QED BY <1>1, <1>2 DEF NoRun, Runs

LEMMA TypesInit == Init => Types
<1> SUFFICES ASSUME Init PROVE Types
    OBVIOUS
<1>1. PICK b \in Beginnings : web = b.web /\ ot = b.ot /\ now = b.now
    BY DEF Init
<1>2. Webs /\ ot \in [Key -> Trust] /\ now \in 2 .. Horizon
    BY <1>1, BeginningsAssumption
       DEF Webs, Trust, Unknown, Undefined, Ultimate
<1>3. minot \in [Key -> MinTrust]
    BY DEF Init, MinTrust
<1>4. valid \in [Uid -> Records]
    <2>1. NoRecord \in Records
        BY WidthAssumption, NeededAssumption DEF NoRecord, Records
    <2> QED BY <2>1 DEF Init
<1>5. run \in Runs /\ DOMAIN run.klist \subseteq run.used /\ run.left \subseteq DOMAIN run.found
    <2>1. run = NoRun
        BY DEF Init
    <2> QED BY <2>1, NoRunTypes
<1> QED BY <1>2, <1>3, <1>4, <1>5 DEF Init, Types

LEMMA TypesBegin ==
  ASSUME Types, NEW ask \in BOOLEAN, Begin(ask)
  PROVE  /\ valid' \in [Uid -> Records] /\ minot' \in [Key -> MinTrust]
         /\ run' \in Runs /\ DOMAIN run'.klist = utk
         /\ DOMAIN run'.klist \subseteq run'.used
         /\ run'.left \subseteq DOMAIN run'.found
         /\ pc' \in {"finish", "assign"}
<1>1. NoRecord \in Records /\ [NoRecord EXCEPT !.value = Ultimate] \in Records
    BY WidthAssumption, NeededAssumption
       DEF NoRecord, Records, Ultimate
<1>2. valid' \in [Uid -> Records]
    BY <1>1 DEF Begin, Cleared
<1>3. minot' \in [Key -> MinTrust] /\ pc' \in {"finish", "assign"}
    BY DEF Begin, MinTrust
<1> DEFINE kl == [k \in utk |-> Item(Ultimate, Unknown, NoTrust)]
           ends == {web.keyends[k] : k \in {j \in utk : ~Expired(j, now)}}
<1>4. utk \in SUBSET Key
    BY DEF Types
<1>5. Item(Ultimate, Unknown, NoTrust) \in Items
    BY ItemTypes DEF Trust, MinTrust, Grants, NoTrust, Ultimate
<1>6. kl \in PartialFunctions(Key, Items) /\ DOMAIN kl = utk
    BY <1>4, <1>5, PartialMade
<1>7. ends \in SUBSET Nat
    BY <1>4 DEF Types, Webs
<1>8. Soonest(ends) \in Nat
    <2> HIDE DEF ends
    <2> QED BY <1>7, SoonestNat
<1>9. run' = [NoRun EXCEPT !.start = now, !.used = utk, !.seen = utk, !.ask = ask,
                           !.klist = kl, !.expire = Soonest(ends)]
    BY DEF Begin
<1>10. now \in Nat
    BY DEF Types
<1> HIDE DEF kl, ends
<1>11. run' = [start |-> now, depth |-> 0, klist |-> kl, used |-> utk, seen |-> utk,
               found |-> <<>>, left |-> {}, expire |-> Soonest(ends), ask |-> ask]
    BY <1>9 DEF NoRun
<1>12. <<>> \in PartialFunctions(Key, Results) /\ DOMAIN <<>> = {}
    BY PartialNone
<1>13. 0 \in 0 .. MaxDepth - 1
    BY NeededAssumption
<1>14. run' \in Runs
    BY <1>4, <1>6, <1>8, <1>10, <1>11, <1>12, <1>13 DEF Runs
<1> QED BY <1>2, <1>3, <1>6, <1>11, <1>14

LEMMA TypesAssigning ==
  ASSUME Types, NEW K \in SUBSET DOMAIN run.klist,
         NEW A \in SUBSET Key, NEW answer \in [A -> {0} \cup Assignable],
         Assigning(K, answer)
  PROVE  /\ ot' \in [Key -> Trust] /\ minot' \in [Key -> MinTrust]
         /\ nextcheck' \in Nat
<1>1. Assignable \subseteq Trust
    BY AssignableAssumption DEF Trust, Ultimate
<1>2. ot' \in [Key -> Trust]
    BY <1>1 DEF Assigning, Types
<1>3. \A k \in K : MinOf(run.klist[k]) \in MinTrust
    BY KlistTypes, MinTypes
<1>4. minot' \in [Key -> MinTrust]
    BY <1>3 DEF Assigning, Types
<1>5. nextcheck' \in Nat
    BY DEF Assigning, Types
<1> QED BY <1>2, <1>4, <1>5

LEMMA TypesAssign == Types /\ Assign => Types'
<1> SUFFICES ASSUME Types, Assign PROVE Types'
    OBVIOUS
<1>1. PICK answer \in [Asked -> {0} \cup Assignable] :
         /\ Assigning(DOMAIN run.klist, answer)
         /\ run' = [run EXCEPT !.klist = [k \in DOMAIN @ |-> Trusted(k, answer)]]
    BY DEF Assign
<1>2. DOMAIN run.klist \in SUBSET Key /\ Asked \in SUBSET Key
    BY KlistTypes DEF Asked
<1>3. ot' \in [Key -> Trust] /\ minot' \in [Key -> MinTrust] /\ nextcheck' \in Nat
    BY <1>1, <1>2, TypesAssigning
<1> DEFINE kl == [k \in DOMAIN run.klist |-> Trusted(k, answer)]
<1>4. ASSUME NEW k \in DOMAIN run.klist PROVE Trusted(k, answer) \in Items
    <2>1. run.klist[k] \in Items
        BY KlistTypes
    <2>2. MinOf(run.klist[k]) \in MinTrust
        BY <2>1, MinTypes
    <2>3. k \in Asked => answer[k] \in Trust
        BY <1>1, AssignableAssumption DEF Trust, Ultimate
    <2>4. MinTrust \subseteq Trust /\ Undefined \in Trust
        BY DEF Trust, MinTrust, Unknown, Undefined, Marginal, Fully, Ultimate
    <2>5. \A a, b \in Trust : MaxOf(a, b) \in Trust
        BY DEF MaxOf
    <2>6. run.klist[k].ot \in Trust
        BY <2>1 DEF Items
    <2> DEFINE mine == IF k \notin Asked THEN run.klist[k].ot
                       ELSE IF answer[k] # 0 THEN answer[k]
                       ELSE MaxOf(Undefined, MinOf(run.klist[k]))
    <2>7. mine \in Trust
        BY <2>2, <2>3, <2>4, <2>5, <2>6
    <2>8. Trusted(k, answer) = [run.klist[k] EXCEPT !.ot = MaxOf(mine, MinOf(run.klist[k]))]
        BY DEF Trusted
    <2> HIDE DEF mine
    <2>9. MaxOf(mine, MinOf(run.klist[k])) \in Trust
        BY <2>2, <2>4, <2>5, <2>7
    <2> QED BY <2>1, <2>8, <2>9 DEF Items
<1>5. kl \in PartialFunctions(Key, Items) /\ DOMAIN kl = DOMAIN run.klist
    BY <1>2, <1>4, PartialMade
<1>6. run' = [run EXCEPT !.klist = kl]
    BY <1>1
<1> HIDE DEF kl
<1>7. run' \in Runs /\ DOMAIN run'.klist \subseteq run'.used /\ run'.left \subseteq DOMAIN run'.found
    BY <1>5, <1>6 DEF Types, Runs
<1> QED BY <1>3, <1>7 DEF Types, Assign, Webs

LEMMA ScanMakes ==
  ASSUME Scan
  PROVE  LET open == {k \in Key \ run.seen : ~Expired(k, now)}
             Found == {j \in open : SignedUids(run.klist, j, run.start) # {}}
             found == [k \in Found |-> Evaluated(run.klist, k, run.start)]
             seen == run.seen \cup {k \in Key : Expired(k, now)}
                      \cup {k \in DOMAIN found : \A u \in Uids(k) :
                              /\ u \in DOMAIN found[k].counts
                              /\ Status(found[k].counts[u]) = Fully}
             ends == {run.expire} \cup UNION {EndsOf(run.klist, k, run.start) : k \in open}
         IN  run' = [run EXCEPT !.found = found, !.left = DOMAIN found, !.seen = seen,
                                !.expire = Soonest(ends)]
<1> DEFINE Open == {k \in Key \ run.seen : ~Expired(k, now)}
           Fnd(open) == [k \in {j \in open : SignedUids(run.klist, j, run.start) # {}}
                           |-> Evaluated(run.klist, k, run.start)]
           Run(open, found) == [run EXCEPT
             !.found = found,
             !.left = DOMAIN found,
             !.seen = @ \cup {k \in Key : Expired(k, now)}
                        \cup {k \in DOMAIN found : \A u \in Uids(k) :
                                /\ u \in DOMAIN found[k].counts
                                /\ Status(found[k].counts[u]) = Fully},
             !.expire = Soonest({@} \cup UNION {EndsOf(run.klist, k, run.start) : k \in open})]
<1>1. \E open \in {Open} : \E found \in {Fnd(open)} : run' = Run(open, found)
    BY DEF Scan
<1>2. run' = Run(Open, Fnd(Open))
    <2> HIDE DEF Open, Fnd, Run
    <2> QED BY <1>1
<1> QED BY <1>2

LEMMA TypesScan == Types /\ Scan => Types'
<1> SUFFICES ASSUME Types, Scan PROVE Types'
    OBVIOUS
<1> DEFINE open == {k \in Key \ run.seen : ~Expired(k, now)}
           Found == {j \in open : SignedUids(run.klist, j, run.start) # {}}
           found == [k \in Found |-> Evaluated(run.klist, k, run.start)]
           seen == run.seen \cup {k \in Key : Expired(k, now)}
                    \cup {k \in DOMAIN found : \A u \in Uids(k) :
                            /\ u \in DOMAIN found[k].counts
                            /\ Status(found[k].counts[u]) = Fully}
           ends == {run.expire} \cup UNION {EndsOf(run.klist, k, run.start) : k \in open}
<1>1. run' = [run EXCEPT !.found = found, !.left = DOMAIN found, !.seen = seen,
                         !.expire = Soonest(ends)]
    BY ScanMakes
<1>2. open \in SUBSET Key /\ Found \in SUBSET Key
    OBVIOUS
<1>3. \A u \in Uid : Stored(u) \in Tallies
    BY ValidTallies DEF Types
<1>4. \A k \in Key : Evaluated(run.klist, k, run.start) \in Results
    BY <1>3, KlistTypes, EvaluatedTypes DEF Types
<1>5. found \in PartialFunctions(Key, Results) /\ DOMAIN found \in SUBSET Key
    <2> HIDE DEF Found
    <2> QED BY <1>2, <1>4, PartialMade
<1>6. run.seen \in SUBSET Key /\ run.expire \in Nat
    BY DEF Types, Runs
<1>7. seen \in SUBSET Key
    <2> HIDE DEF found
    <2> QED BY <1>5, <1>6
<1>8. ends \in SUBSET Nat
    <2>1. \A k \in open : EndsOf(run.klist, k, run.start) \in SUBSET Nat
        BY <1>2, EndsNat DEF Types
    <2> HIDE DEF open
    <2> QED BY <1>6, <2>1
<1> HIDE DEF found, seen, ends
<1>9. Soonest(ends) \in Nat
    BY <1>8, SoonestNat
<1>10. run' \in Runs /\ DOMAIN run'.klist \subseteq run'.used /\ run'.left \subseteq DOMAIN run'.found
    BY <1>1, <1>5, <1>7, <1>9 DEF Types, Runs
<1> QED BY <1>10 DEF Types, Scan, Webs, db, process

LEMMA TypesStore == Types /\ Store => Types'
<1> SUFFICES ASSUME Types, Store PROVE Types'
    OBVIOUS
<1>1. PICK k \in run.left :
         /\ valid' = [u \in Uid |-> IF u \in DOMAIN run.found[k].counts
                                      THEN StoredCounts(run.found[k].counts[u])
                                      ELSE valid[u]]
         /\ run' = [run EXCEPT !.left = @ \ {k}]
    BY DEF Store
<1>2. k \in DOMAIN run.found
    BY DEF Types
<1>3. \A u \in DOMAIN run.found[k].counts : StoredCounts(run.found[k].counts[u]) \in Records
    BY <1>2, FoundTypes, StoredTypes
<1>4. valid' \in [Uid -> Records]
    BY <1>1, <1>3 DEF Types
<1>5. run' \in Runs /\ DOMAIN run'.klist \subseteq run'.used /\ run'.left \subseteq DOMAIN run'.found
    BY <1>1 DEF Types, Runs
<1> QED BY <1>4, <1>5 DEF Types, Store, Webs, process

LEMMA JoiningTypes ==
  ASSUME Types
  PROVE  Joining \in SUBSET DOMAIN run.found /\ Joining \in SUBSET Key /\ Joining \cap run.used = {}
BY FoundTypes DEF Joining

LEMMA TypesExtend == Types /\ Extend => Types'
<1> SUFFICES ASSUME Types, Extend PROVE Types'
    OBVIOUS
<1> DEFINE kl == [k \in Joining |-> Item(ot[k], minot[k], run.found[k].pk)]
           depth == IF LastRound(run.depth) \/ Joining = {} THEN run.depth ELSE run.depth + 1
<1>1. run' = [run EXCEPT !.klist = kl, !.used = @ \cup Joining, !.found = <<>>,
                         !.depth = depth]
    BY DEF Extend
<1>2. Joining \in SUBSET DOMAIN run.found /\ Joining \in SUBSET Key
    BY JoiningTypes
<1>3. ASSUME NEW k \in Joining PROVE Item(ot[k], minot[k], run.found[k].pk) \in Items
    BY <1>2, FoundTypes, ItemTypes DEF Types
<1>4. kl \in PartialFunctions(Key, Items) /\ DOMAIN kl = Joining
    BY <1>2, <1>3, PartialMade
<1>5. depth \in 0 .. MaxDepth - 1
    BY NeededAssumption DEF Types, Runs, LastRound
<1>6. <<>> \in PartialFunctions(Key, Results) /\ DOMAIN <<>> = {}
    BY PartialNone
<1> HIDE DEF kl, depth
<1>7. run' \in Runs /\ DOMAIN run'.klist \subseteq run'.used
    BY <1>1, <1>2, <1>4, <1>5, <1>6 DEF Types, Runs
<1>8. run'.left \subseteq DOMAIN run'.found
    BY <1>1, <1>6 DEF Types, Runs, Extend
<1> QED BY <1>7, <1>8 DEF Types, Extend, Webs, db, process

LEMMA TypesReset ==
  ASSUME run' = NoRun
  PROVE  /\ run' \in Runs /\ DOMAIN run'.klist \subseteq run'.used
         /\ run'.left \subseteq DOMAIN run'.found
BY NoRunTypes

LEMMA TypesNext == Types /\ [Next]_vars => Types'
<1> SUFFICES ASSUME Types, [Next]_vars PROVE Types'
    OBVIOUS
<1>1. CASE Tick
    <2>1. now' \in 2 .. Horizon
        BY <1>1, AssignableAssumption DEF Types, Tick
    <2> QED BY <1>1, <2>1 DEF Types, Tick, Webs, db, process
<1>2. CASE Start
    BY <1>2 DEF Types, Start, Webs, db, process
<1>3. CASE End
    <2>1. run' \in Runs /\ DOMAIN run'.klist \subseteq run'.used
          /\ run'.left \subseteq DOMAIN run'.found
        BY <1>3, TypesReset DEF End
    <2> QED BY <1>3, <2>1 DEF Types, End, Webs, db
<1>4. ASSUME NEW k \in Rateable, NEW value \in Assignable, SetOwnertrust(k, value)
      PROVE  Types'
    <2>1. value \in Trust
        BY AssignableAssumption DEF Trust, Ultimate
    <2>2. ot' \in [Key -> Trust]
        BY <1>4, <2>1 DEF Types, SetOwnertrust
    <2> QED BY <1>4, <2>2 DEF Types, SetOwnertrust, Webs
<1>5. ASSUME NEW ask \in BOOLEAN, Begin(ask) PROVE Types'
    BY <1>5, TypesBegin DEF Types, Begin, Webs
<1>6. CASE Stale
    <2>1. PICK noauto \in NoAutoCheck :
            IF (Due \/ pending) /\ ~noauto
              THEN Begin(FALSE)
              ELSE /\ pending' = (pending \/ Due)
                   /\ UNCHANGED <<web, now, db, pc, utk, run, cut, sets>>
        BY <1>6 DEF Stale
    <2>2. CASE Begin(FALSE)
        BY <2>2, <1>5
    <2>3. CASE UNCHANGED <<web, now, db, pc, utk, run, cut, sets>>
        BY <2>3 DEF Types, Webs, db
    <2> QED BY <2>1, <2>2, <2>3
<1>7. CASE CheckOrUpdate
    BY <1>5, <1>7, AssignableAssumption DEF CheckOrUpdate
<1>8. CASE Forced
    BY <1>5, <1>8, AssignableAssumption DEF Forced
<1>9. CASE Assign
    BY <1>9, TypesAssign
<1>10. CASE Quit
    <2>0. PICK q \in Asked : \E K \in SUBSET (DOMAIN run.klist \ {q}) :
            \E answer \in [K \cap Asked -> {0} \cup Assignable] : Assigning(K \cup {q}, answer)
        BY <1>10 DEF Quit
    <2> PICK K \in SUBSET (DOMAIN run.klist \ {q}) :
            \E answer \in [K \cap Asked -> {0} \cup Assignable] : Assigning(K \cup {q}, answer)
        BY <2>0
    <2>1. PICK answer \in [K \cap Asked -> {0} \cup Assignable] : Assigning(K \cup {q}, answer)
        OBVIOUS
    <2>2. K \cup {q} \in SUBSET DOMAIN run.klist /\ K \cap Asked \in SUBSET Key
        BY KlistTypes DEF Asked
    <2>3. ot' \in [Key -> Trust] /\ minot' \in [Key -> MinTrust] /\ nextcheck' \in Nat
        BY <2>1, <2>2, TypesAssigning
    <2>4. run' \in Runs /\ DOMAIN run'.klist \subseteq run'.used
          /\ run'.left \subseteq DOMAIN run'.found
        BY <1>10, TypesReset DEF Quit
    <2> QED BY <1>10, <2>3, <2>4 DEF Types, Quit, Webs
<1>11. CASE Scan
    BY <1>11, TypesScan
<1>12. CASE ScanFails
    <2>1. run' \in Runs /\ DOMAIN run'.klist \subseteq run'.used
          /\ run'.left \subseteq DOMAIN run'.found
        BY <1>12, TypesReset DEF ScanFails
    <2> QED BY <1>12, <2>1 DEF Types, ScanFails, Webs, db, process
<1>13. CASE Store
    BY <1>13, TypesStore
<1>14. CASE Extend
    BY <1>14, TypesExtend
<1>15. CASE Finish
    <2>1. run' \in Runs /\ DOMAIN run'.klist \subseteq run'.used
          /\ run'.left \subseteq DOMAIN run'.found
        BY <1>15, TypesReset DEF Finish
    <2>2. nextcheck' \in Nat
        BY <1>15 DEF Finish, Types, Runs
    <2> QED BY <1>15, <2>1, <2>2 DEF Types, Finish, Webs
<1>16. CASE UNCHANGED vars
    BY <1>16 DEF Types, vars, Webs, db, process
<1> QED BY <1>1, <1>2, <1>3, <1>4, <1>6, <1>7, <1>8, <1>9, <1>10, <1>11, <1>12, <1>13,
           <1>14, <1>15, <1>16 DEF Next

(* The values that the records, the variables and the locals take.         *)
THEOREM TypesAlways == Spec => []TypeOK
<1>1. Types => TypeOK
    <2> SUFFICES ASSUME Types PROVE TypeOK
        OBVIOUS
    <2>1. \A u \in Uid : /\ valid[u].value \in {0} \cup (2 .. Ultimate)
                         /\ valid[u].full < CountMod /\ valid[u].marginal < CountMod
        BY WidthAssumption DEF Types, Records
    <2>2. run.depth < MaxDepth
        BY NeededAssumption DEF Types, Runs
    <2> QED BY <2>1, <2>2 DEF TypeOK, Types, Trust, MinTrust
<1> QED BY <1>1, TypesInit, TypesNext, PTL DEF Spec

-----------------------------------------------------------------------------
(* Trust of depth e has come to key k through at most N trust signatures.  *)
Reached(k, e, N) ==
  \E n \in 1 .. N : \E path \in [0 .. n -> Key] :
    /\ ot[path[0]] = Ultimate /\ path[n] = k
    /\ \A i \in 1 .. n : Delegates(path[i - 1], path[i], n - i + 1 + e)
Trusting(pk) == pk.depth # 0 \/ pk.value # 0

(* Only the user's own keys are ultimately trusted, from the beginning:    *)
(* nobody makes another key such, and ownertrust of an own key stays.      *)
(* verify_own_keys reads the list of these keys only at the start.         *)
OwnKeysStay ==
  /\ Ultimate \notin Assignable
  /\ \A b \in Beginnings : \A k \in Rateable : b.ot[k] # Ultimate

OwnKeys ==
  /\ \A k \in Rateable : ot[k] # Ultimate
  /\ \A k \in utk : ot[k] = Ultimate
ItemsReached ==
  pc \in {"assign", "scan"} =>
    \A k \in DOMAIN run.klist :
      /\ run.klist[k].ot = Ultimate => ot[k] = Ultimate
      /\ pc = "assign" => run.klist[k].ot = ot[k]
      /\ Trusting(run.klist[k]) => Reached(k, run.klist[k].depth, run.depth)
FoundReached ==
  pc = "store" =>
    \A k \in DOMAIN run.found :
      Trusting(run.found[k].pk) => Reached(k, run.found[k].pk.depth, run.depth + 1)
MinReached == \A k \in Key : minot[k] # Unknown => Reached(k, 0, MaxDepth)
TrustInv == Types /\ OwnKeys /\ ItemsReached /\ FoundReached /\ MinReached

LEMMA DelegatesLess ==
  ASSUME Webs, NEW j \in Key, NEW k \in Key, NEW d \in Nat, NEW e \in Nat, e <= d,
         Delegates(j, k, d)
  PROVE  Delegates(j, k, e)
<1>1. PICK u \in Uids(k) : \E i \in DOMAIN web.sigs[u] :
        web.sigs[u][i].by = j /\ web.sigs[u][i].depth >= d
    BY DEF Delegates
<1>2. PICK i \in DOMAIN web.sigs[u] : web.sigs[u][i].by = j /\ web.sigs[u][i].depth >= d
    BY <1>1
<1>3. u \in Uid
    BY UidsAssumption DEF Uids
<1>4. web.sigs[u] \in Seq(Certificate)
    BY <1>3 DEF Webs
<1>5. web.sigs[u][i].depth \in Nat
    <2>1. web.sigs[u][i] \in Certificate
        BY <1>2, <1>4
    <2> QED BY <2>1 DEF Certificate
<1>6. web.sigs[u][i].depth >= e
    BY <1>2, <1>5
<1> QED BY <1>2, <1>6 DEF Delegates

(* Trust of some depth is also trust of a smaller one, within more links.  *)
LEMMA ReachedLess ==
  ASSUME Webs, NEW k \in Key, NEW d \in Nat, NEW e \in Nat, e <= d,
         NEW M \in Nat, NEW N \in Nat, M <= N, Reached(k, d, M)
  PROVE  Reached(k, e, N)
<1>1. PICK n \in 1 .. M : \E path \in [0 .. n -> Key] :
        /\ ot[path[0]] = Ultimate /\ path[n] = k
        /\ \A i \in 1 .. n : Delegates(path[i - 1], path[i], n - i + 1 + d)
    BY DEF Reached
<1>2. PICK path \in [0 .. n -> Key] :
        /\ ot[path[0]] = Ultimate /\ path[n] = k
        /\ \A i \in 1 .. n : Delegates(path[i - 1], path[i], n - i + 1 + d)
    BY <1>1
<1>3. ASSUME NEW i \in 1 .. n PROVE Delegates(path[i - 1], path[i], n - i + 1 + e)
    <2>1. /\ path[i - 1] \in Key /\ path[i] \in Key
          /\ n - i + 1 + d \in Nat /\ n - i + 1 + e \in Nat
          /\ n - i + 1 + e <= n - i + 1 + d
        BY <1>3
    <2>2. Delegates(path[i - 1], path[i], n - i + 1 + d)
        BY <1>2
    <2> QED BY <2>1, <2>2, DelegatesLess
<1>4. n \in 1 .. N
    OBVIOUS
<1> QED BY <1>2, <1>3, <1>4 DEF Reached

(* One more trust signature, by a key that trust has come to.              *)
LEMMA ReachedOn ==
  ASSUME Webs, NEW j \in Key, NEW k \in Key, NEW d \in Nat, NEW c \in Nat, d <= c, d # 0,
         NEW N \in Nat, Reached(j, c, N), Delegates(j, k, d)
  PROVE  Reached(k, d - 1, N + 1)
<1>1. PICK n \in 1 .. N : \E path \in [0 .. n -> Key] :
        /\ ot[path[0]] = Ultimate /\ path[n] = j
        /\ \A i \in 1 .. n : Delegates(path[i - 1], path[i], n - i + 1 + c)
    BY DEF Reached
<1>2. PICK path \in [0 .. n -> Key] :
        /\ ot[path[0]] = Ultimate /\ path[n] = j
        /\ \A i \in 1 .. n : Delegates(path[i - 1], path[i], n - i + 1 + c)
    BY <1>1
<1> DEFINE long == [i \in 0 .. n + 1 |-> IF i = n + 1 THEN k ELSE path[i]]
<1>3. long \in [0 .. n + 1 -> Key] /\ long[n + 1] = k /\ \A i \in 0 .. n : long[i] = path[i]
    OBVIOUS
<1> HIDE DEF long
<1>4. ASSUME NEW i \in 1 .. n + 1
      PROVE  Delegates(long[i - 1], long[i], (n + 1) - i + 1 + (d - 1))
    <2>1. CASE i = n + 1
        <3>1. long[i - 1] = j /\ long[i] = k
            BY <1>2, <1>3, <2>1
        <3>2. (n + 1) - i + 1 + (d - 1) = d
            BY <2>1
        <3> QED BY <3>1, <3>2
    <2>2. CASE i # n + 1
        <3>1. i \in 1 .. n /\ i - 1 \in 0 .. n /\ i \in 0 .. n
            BY <2>2
        <3>2. long[i - 1] = path[i - 1] /\ long[i] = path[i]
            BY <1>3, <3>1
        <3>3. Delegates(path[i - 1], path[i], n - i + 1 + c)
            BY <1>2, <3>1
        <3>4. /\ (n + 1) - i + 1 + (d - 1) = n - i + 1 + d
              /\ n - i + 1 + d \in Nat /\ n - i + 1 + c \in Nat
              /\ n - i + 1 + d <= n - i + 1 + c
            BY <3>1
        <3>5. path[i - 1] \in Key /\ path[i] \in Key
            BY <3>1
        <3>6. Delegates(path[i - 1], path[i], n - i + 1 + d)
            BY <3>3, <3>4, <3>5, DelegatesLess
        <3> QED BY <3>2, <3>4, <3>6
    <2> QED BY <2>1, <2>2
<1>5. n + 1 \in 1 .. N + 1 /\ ot[long[0]] = Ultimate
    BY <1>2, <1>3
<1> QED BY <1>3, <1>4, <1>5 DEF Reached

(* The first one, by an ultimately trusted key.                            *)
LEMMA ReachedFirst ==
  ASSUME NEW j \in Key, NEW k \in Key, NEW d \in Nat, d # 0,
         NEW N \in Nat, ot[j] = Ultimate, Delegates(j, k, d)
  PROVE  Reached(k, d - 1, N + 1)
<1> DEFINE path == [i \in 0 .. 1 |-> IF i = 0 THEN j ELSE k]
<1>1. path \in [0 .. 1 -> Key] /\ path[0] = j /\ path[1] = k
    OBVIOUS
<1> HIDE DEF path
<1>2. ASSUME NEW i \in 1 .. 1 PROVE Delegates(path[i - 1], path[i], 1 - i + 1 + (d - 1))
    <2>1. i = 1 /\ i - 1 = 0 /\ 1 - i + 1 + (d - 1) = d
        OBVIOUS
    <2> QED BY <1>1, <2>1
<1>3. 1 \in 1 .. N + 1
    OBVIOUS
<1> QED BY <1>1, <1>2, <1>3 DEF Reached

LEMMA ReachedKept ==
  ASSUME web' = web, \A k \in Key : ot[k] = Ultimate => ot'[k] = Ultimate,
         NEW k, NEW e, NEW N \in Nat, Reached(k, e, N)
  PROVE  Reached(k, e, N)'
<1>1. PICK n \in 1 .. N : \E path \in [0 .. n -> Key] :
        /\ ot[path[0]] = Ultimate /\ path[n] = k
        /\ \A i \in 1 .. n : Delegates(path[i - 1], path[i], n - i + 1 + e)
    BY DEF Reached
<1>2. PICK path \in [0 .. n -> Key] :
        /\ ot[path[0]] = Ultimate /\ path[n] = k
        /\ \A i \in 1 .. n : Delegates(path[i - 1], path[i], n - i + 1 + e)
    BY <1>1
<1>3. ot'[path[0]] = Ultimate
    BY <1>2
<1>4. \A i \in 1 .. n : Delegates(path[i - 1], path[i], n - i + 1 + e)'
    BY <1>2 DEF Delegates
<1> QED BY <1>2, <1>3, <1>4 DEF Reached

LEMMA GrantedDepthBounds ==
  ASSUME NEW s \in Certificate, NEW item \in Items
  PROVE  /\ GrantedDepth(s, item) \in Nat /\ GrantedDepth(s, item) <= s.depth
         /\ item.ot = Ultimate \/ GrantedDepth(s, item) <= item.depth
<1>1. s.depth \in Nat /\ item.depth \in Nat
    BY DEF Certificate, Items
<1> QED BY <1>1 DEF GrantedDepth

(* What a certificate hands on, it may hand on.                            *)
LEMMA GrantedReached ==
  ASSUME TrustInv, pc = "scan", NEW k \in Key, NEW u \in Uids(k),
         NEW i \in Weighed(run.klist, u, run.start), NEW p \in Grants,
         Trusting(p) => Reached(k, p.depth, run.depth + 1)
  PROVE  LET new == Granted(p, web.sigs[u][i], run.klist[web.sigs[u][i].by])
         IN  /\ new \in Grants
             /\ Trusting(new) => Reached(k, new.depth, run.depth + 1)
<1> DEFINE s == web.sigs[u][i]
           item == run.klist[s.by]
           new == Granted(p, s, item)
           d == GrantedDepth(s, item)
<1>1. u \in Uid /\ Webs /\ run.klist \in PartialFunctions(Key, Items)
    BY UidsAssumption, KlistTypes DEF Uids, TrustInv, Types
<1>2. s \in Certificate /\ s.by \in DOMAIN run.klist /\ s.by \in Key /\ item \in Items
    BY <1>1, WeighedTypes
<1>3. i \in DOMAIN web.sigs[u]
    BY SignersDistinct
<1>4. run.depth \in Nat
    BY DEF TrustInv, Types, Runs
<1>5. /\ item.ot = Ultimate => ot[s.by] = Ultimate
      /\ Trusting(item) => Reached(s.by, item.depth, run.depth)
    BY <1>2 DEF TrustInv, ItemsReached
<1>6. s.depth \in Nat /\ item.depth \in Nat
    BY <1>2 DEF Certificate, Items
<1>7. d \in Nat /\ d <= s.depth /\ (item.ot = Ultimate \/ d <= item.depth)
    <2> HIDE DEF s, item
    <2> QED BY <1>2, GrantedDepthBounds
<1>8. Delegates(s.by, k, d)
    <2>1. s.by = web.sigs[u][i].by /\ web.sigs[u][i].depth >= d
        <3> HIDE DEF d
        <3> QED BY <1>6, <1>7
    <2> HIDE DEF s, d
    <2> QED BY <1>3, <2>1 DEF Delegates
<1>9. new \in Grants
    BY <1>2, GrantedTypes
<1> SUFFICES ASSUME Trusting(new) PROVE Reached(k, new.depth, run.depth + 1)
    BY <1>9
<1>10. CASE ~Pgp \/ s.depth = 0 \/ d = 0
    BY <1>10 DEF Granted
<1>11. CASE Pgp /\ s.depth # 0 /\ d # 0
    <2>1. new.depth = d - 1
        BY <1>11 DEF Granted
    <2> HIDE DEF new, d, s, item
    <2>2. CASE item.ot = Ultimate
        BY <1>2, <1>4, <1>5, <1>7, <1>8, <1>11, <2>1, <2>2, ReachedFirst DEF item, s
    <2>3. CASE item.ot # Ultimate
        <3>1. d <= item.depth /\ item.depth # 0
            BY <1>6, <1>7, <1>11, <2>3
        <3>2. Reached(s.by, item.depth, run.depth)
            BY <1>5, <3>1 DEF Trusting
        <3> QED BY <1>1, <1>2, <1>4, <1>6, <1>7, <1>8, <1>11, <2>1, <3>1, <3>2, ReachedOn
    <2> QED BY <2>2, <2>3
<1> QED BY <1>10, <1>11

LEMMA EvaluatedReached ==
  ASSUME TrustInv, pc = "scan", NEW k \in Key
  PROVE  Trusting(Evaluated(run.klist, k, run.start).pk) =>
           Reached(k, Evaluated(run.klist, k, run.start).pk.depth, run.depth + 1)
<1> DEFINE G == {p \in Grants : Trusting(p) => Reached(k, p.depth, run.depth + 1)}
<1>1. NoTrust \in G
    BY DEF NoTrust, Grants, Trusting
<1>2. ASSUME NEW u \in Uids(k) PROVE Steadily(G, run.klist, u, run.start)
    <2> SUFFICES ASSUME NEW p \in G, NEW i \in Weighed(run.klist, u, run.start)
                 PROVE  Granted(p, web.sigs[u][i], run.klist[web.sigs[u][i].by]) \in G
        BY DEF Steadily
    <2> QED BY GrantedReached
<1>3. Webs
    BY DEF TrustInv, Types
<1>4. Evaluated(run.klist, k, run.start).pk \in G
    <2> HIDE DEF G
    <2> QED BY <1>1, <1>2, <1>3, EvaluatedStays
<1> QED BY <1>4

(* Steps that change neither the certificates nor what is ultimately       *)
(* trusted, and leave what a check has in its hands, or drop it.           *)
LEMMA TrustKept ==
  ASSUME TrustInv, Types', web' = web, utk' \subseteq {k \in Key : ot'[k] = Ultimate},
         \A k \in Key : ot[k] = Ultimate <=> ot'[k] = Ultimate
  PROVE  /\ OwnKeys'
         /\ \A k, e : \A N \in Nat : Reached(k, e, N) => Reached(k, e, N)'
         /\ minot' = minot => MinReached'
         /\ pc' \notin {"assign", "scan"} => ItemsReached'
         /\ pc' # "store" => FoundReached'
         /\ ot' = ot /\ run' = run /\ pc' = pc => ItemsReached' /\ FoundReached'
<1>1. \A k, e : \A N \in Nat : Reached(k, e, N) => Reached(k, e, N)'
    BY ReachedKept
<1>2. OwnKeys'
    BY AssignableAssumption DEF OwnKeys, TrustInv
<1>3. MaxDepth \in Nat /\ run.depth \in Nat /\ run.depth + 1 \in Nat
    BY NeededAssumption DEF TrustInv, Types, Runs
<1>4. minot' = minot => MinReached'
    BY <1>1, <1>3 DEF TrustInv, MinReached
<1>5. pc' \notin {"assign", "scan"} => ItemsReached'
    BY DEF ItemsReached
<1>6. pc' # "store" => FoundReached'
    BY DEF FoundReached
<1>7. ASSUME ot' = ot, run' = run, pc' = pc PROVE ItemsReached' /\ FoundReached'
    <2>1. ASSUME pc \in {"assign", "scan"}, NEW k \in DOMAIN run.klist,
                 Trusting(run.klist[k])
          PROVE  Reached(k, run.klist[k].depth, run.depth)'
        <3>1. Reached(k, run.klist[k].depth, run.depth)
            BY <2>1 DEF TrustInv, ItemsReached
        <3>2. Reached(k, run.klist[k].depth, run.depth) =>
                Reached(k, run.klist[k].depth, run.depth)'
            BY <1>3, <1>7, ReachedKept
        <3> QED BY <3>1, <3>2
    <2>2. ItemsReached'
        BY <1>7, <2>1 DEF TrustInv, ItemsReached
    <2>3. ASSUME pc = "store", NEW k \in DOMAIN run.found, Trusting(run.found[k].pk)
          PROVE  Reached(k, run.found[k].pk.depth, run.depth + 1)'
        <3>1. Reached(k, run.found[k].pk.depth, run.depth + 1)
            BY <2>3 DEF TrustInv, FoundReached
        <3>2. Reached(k, run.found[k].pk.depth, run.depth + 1) =>
                Reached(k, run.found[k].pk.depth, run.depth + 1)'
            BY <1>3, <1>7, ReachedKept
        <3> QED BY <3>1, <3>2
    <2>4. FoundReached'
        BY <1>7, <2>3 DEF FoundReached
    <2> QED BY <2>2, <2>4
<1> QED BY <1>1, <1>2, <1>4, <1>5, <1>6, <1>7

LEMMA TrustInit == OwnKeysStay /\ Init => TrustInv
<1> SUFFICES ASSUME OwnKeysStay, Init PROVE TrustInv
    OBVIOUS
<1>1. Types
    BY TypesInit
<1>2. OwnKeys
    BY DEF OwnKeysStay, Init, OwnKeys
<1>3. ItemsReached /\ FoundReached
    BY DEF Init, ItemsReached, FoundReached
<1>4. MinReached
    BY DEF Init, MinReached, Unknown
<1> QED BY <1>1, <1>2, <1>3, <1>4 DEF TrustInv

LEMMA TrustBegin ==
  ASSUME TrustInv, Types', NEW ask \in BOOLEAN, Begin(ask)
  PROVE  TrustInv'
<1>1. /\ web' = web /\ ot' = ot /\ utk' = utk /\ minot' = [k \in Key |-> Unknown]
      /\ pc' \in {"finish", "assign"}
    BY DEF Begin
<1>2. utk' \subseteq {k \in Key : ot'[k] = Ultimate}
    BY <1>1 DEF TrustInv, OwnKeys, Types
<1>3. OwnKeys' /\ FoundReached'
    BY <1>1, <1>2, TrustKept
<1>4. MinReached'
    BY <1>1 DEF MinReached
<1>5. run'.klist = [k \in utk |-> Item(Ultimate, Unknown, NoTrust)]
    BY DEF Begin, NoRun
<1>6. /\ Item(Ultimate, Unknown, NoTrust).ot = Ultimate
      /\ ~Trusting(Item(Ultimate, Unknown, NoTrust))
    BY DEF Item, NoTrust, Trusting
<1>7. \A k \in utk : ot[k] = Ultimate
    BY DEF TrustInv, OwnKeys
<1>8. ItemsReached'
    BY <1>1, <1>5, <1>6, <1>7 DEF ItemsReached
<1> QED BY <1>3, <1>4, <1>8 DEF TrustInv

(* The answers to gpg's questions: they are asked only about keys without  *)
(* an ownertrust, and min_ownertrust goes to keys that trust has reached.  *)
LEMMA TrustAssigning ==
  ASSUME OwnKeysStay, TrustInv, Types', pc = "assign", web' = web, utk' = utk,
         NEW K \in SUBSET DOMAIN run.klist,
         NEW A \in SUBSET Asked, NEW answer \in [A -> {0} \cup Assignable],
         Assigning(K, answer)
  PROVE  /\ \A k \in Key : ot[k] = Ultimate <=> ot'[k] = Ultimate
         /\ utk' \subseteq {k \in Key : ot'[k] = Ultimate}
         /\ MinReached'
<1>1. \A k \in Asked : k \in DOMAIN run.klist /\ ot[k] = Unknown
    BY DEF Asked, TrustInv, ItemsReached
<1>2. ot' = [k \in Key |-> IF k \in DOMAIN answer /\ answer[k] # 0
                             THEN answer[k] ELSE ot[k]]
    BY DEF Assigning
<1>3. \A k \in DOMAIN answer : k \in Asked /\ answer[k] # Ultimate
    BY DEF OwnKeysStay, Ultimate
<1>4. Unknown # Ultimate
    BY DEF Unknown, Ultimate
<1>5. \A k \in Key : ot[k] = Ultimate <=> ot'[k] = Ultimate
    BY <1>1, <1>2, <1>3, <1>4
<1>6. utk' \subseteq {k \in Key : ot'[k] = Ultimate}
    BY <1>5 DEF TrustInv, OwnKeys, Types
<1>7. ASSUME NEW k \in Key, minot'[k] # Unknown PROVE Reached(k, 0, MaxDepth)
    <2>1. MaxDepth \in Nat /\ run.depth \in Nat /\ run.depth <= MaxDepth /\ Webs
        BY NeededAssumption DEF TrustInv, Types, Runs
    <2>2. minot' = [j \in Key |-> IF j \in K THEN MinOf(run.klist[j]) ELSE minot[j]]
        BY DEF Assigning
    <2>3. CASE k \notin K
        BY <1>7, <2>2, <2>3 DEF TrustInv, MinReached
    <2>4. CASE k \in K
        <3>1. MinOf(run.klist[k]) # Unknown
            BY <1>7, <2>2, <2>4
        <3>2. run.klist[k] \in Items
            BY <2>4, KlistTypes DEF TrustInv
        <3>3. run.klist[k].value # 0
            BY <3>1, <3>2 DEF MinOf, Items
        <3>4. Reached(k, run.klist[k].depth, run.depth)
            BY <2>4, <3>3 DEF TrustInv, ItemsReached, Trusting
        <3>5. run.klist[k].depth \in Nat /\ 0 <= run.klist[k].depth
            BY <3>2 DEF Items
        <3> QED BY <2>1, <3>4, <3>5, ReachedLess
    <2> QED BY <2>3, <2>4
<1>8. MaxDepth \in Nat
    BY NeededAssumption
<1>9. MinReached'
    BY <1>5, <1>7, <1>8, ReachedKept DEF MinReached
<1> QED BY <1>5, <1>6, <1>9

LEMMA TrustAssign == OwnKeysStay /\ TrustInv /\ Types' /\ Assign => TrustInv'
<1> SUFFICES ASSUME OwnKeysStay, TrustInv, Types', Assign PROVE TrustInv'
    OBVIOUS
<1>1. PICK answer \in [Asked -> {0} \cup Assignable] :
         /\ Assigning(DOMAIN run.klist, answer)
         /\ run' = [run EXCEPT !.klist = [k \in DOMAIN @ |-> Trusted(k, answer)]]
    BY DEF Assign
<1>2. pc = "assign" /\ pc' = "scan" /\ web' = web /\ utk' = utk
    BY DEF Assign
<1>3. /\ \A k \in Key : ot[k] = Ultimate <=> ot'[k] = Ultimate
      /\ utk' \subseteq {k \in Key : ot'[k] = Ultimate}
      /\ MinReached'
    BY <1>1, <1>2, TrustAssigning
<1>4. /\ OwnKeys' /\ FoundReached'
      /\ \A k, e : \A N \in Nat : Reached(k, e, N) => Reached(k, e, N)'
    BY <1>2, <1>3, TrustKept
<1>5. /\ run'.klist = [k \in DOMAIN run.klist |-> Trusted(k, answer)]
      /\ run'.depth = run.depth /\ run.depth \in Nat
    BY <1>1 DEF TrustInv, Types, Runs
<1>6. ASSUME NEW k \in DOMAIN run.klist
      PROVE  /\ Trusted(k, answer).ot = Ultimate => ot'[k] = Ultimate
             /\ Trusted(k, answer).depth = run.klist[k].depth
             /\ Trusted(k, answer).value = run.klist[k].value
    <2>1. run.klist[k] \in Items /\ k \in Key
        BY KlistTypes DEF TrustInv
    <2>2. MinOf(run.klist[k]) \in MinTrust
        BY <2>1, MinTypes
    <2>3. k \in Asked => answer[k] # Ultimate
        BY <1>1 DEF OwnKeysStay, Ultimate
    <2>4. run.klist[k].ot = Ultimate => ot'[k] = Ultimate
        BY <1>2, <1>3, <2>1 DEF TrustInv, ItemsReached
    <2> DEFINE mine == IF k \notin Asked THEN run.klist[k].ot
                       ELSE IF answer[k] # 0 THEN answer[k]
                       ELSE MaxOf(Undefined, MinOf(run.klist[k]))
    <2>5. Trusted(k, answer) = [run.klist[k] EXCEPT !.ot = MaxOf(mine, MinOf(run.klist[k]))]
        BY DEF Trusted
    <2>6. MaxOf(mine, MinOf(run.klist[k])) = Ultimate => mine = Ultimate
        BY <2>2 DEF MaxOf, MinTrust, Unknown, Marginal, Fully, Ultimate
    <2>7. mine = Ultimate => run.klist[k].ot = Ultimate
        BY <2>2, <2>3 DEF MaxOf, MinTrust, Unknown, Undefined, Marginal, Fully, Ultimate
    <2> HIDE DEF mine
    <2>8. /\ Trusted(k, answer).ot = MaxOf(mine, MinOf(run.klist[k]))
          /\ Trusted(k, answer).depth = run.klist[k].depth
          /\ Trusted(k, answer).value = run.klist[k].value
        BY <2>1, <2>5 DEF Items
    <2> QED BY <2>4, <2>6, <2>7, <2>8
<1>7. ASSUME NEW k \in DOMAIN run.klist, Trusting(run'.klist[k])
      PROVE  Reached(k, run.klist[k].depth, run.depth)'
    <2>1. Trusting(run.klist[k])
        BY <1>5, <1>6, <1>7 DEF Trusting
    <2>2. Reached(k, run.klist[k].depth, run.depth)
        BY <1>2, <2>1 DEF TrustInv, ItemsReached
    <2>3. PICK e, N : e = run.klist[k].depth /\ N = run.depth
        OBVIOUS
    <2>4. N \in Nat /\ Reached(k, e, N)
        BY <1>5, <2>2, <2>3
    <2>5. Reached(k, e, N)'
        BY <1>4, <2>4
    <2>6. e = run'.klist[k].depth /\ N = run'.depth
        BY <1>5, <1>6, <2>3
    <2> QED BY <2>5, <2>6
<1>8. ItemsReached'
    BY <1>2, <1>5, <1>6, <1>7 DEF ItemsReached
<1> QED BY <1>3, <1>4, <1>8 DEF TrustInv

LEMMA ScanFound ==
  ASSUME Types, Scan
  PROVE  /\ run'.depth = run.depth /\ run'.used = run.used /\ run'.klist = run.klist
         /\ run'.left = DOMAIN run'.found /\ run.seen \subseteq run'.seen
         /\ \A k \in DOMAIN run'.found :
              /\ k \in Key \ run.seen
              /\ run'.found[k] = Evaluated(run.klist, k, run.start)
<1> DEFINE open == {k \in Key \ run.seen : ~Expired(k, now)}
           Found == {j \in open : SignedUids(run.klist, j, run.start) # {}}
           found == [k \in Found |-> Evaluated(run.klist, k, run.start)]
           seen == run.seen \cup {k \in Key : Expired(k, now)}
                    \cup {k \in DOMAIN found : \A u \in Uids(k) :
                            /\ u \in DOMAIN found[k].counts
                            /\ Status(found[k].counts[u]) = Fully}
           ends == {run.expire} \cup UNION {EndsOf(run.klist, k, run.start) : k \in open}
<1>1. run' = [run EXCEPT !.found = found, !.left = DOMAIN found, !.seen = seen,
                         !.expire = Soonest(ends)]
    BY ScanMakes
<1>2. /\ \A k \in DOMAIN found : /\ k \in Key \ run.seen
                                 /\ found[k] = Evaluated(run.klist, k, run.start)
      /\ run.seen \subseteq seen
    OBVIOUS
<1> HIDE DEF found, seen, ends
<1>3. /\ run'.depth = run.depth /\ run'.used = run.used /\ run'.klist = run.klist
      /\ run'.left = DOMAIN found /\ run'.found = found /\ run'.seen = seen
    BY <1>1 DEF Types, Runs
<1> QED BY <1>2, <1>3

LEMMA TrustScan == TrustInv /\ Types' /\ Scan => TrustInv'
<1> SUFFICES ASSUME TrustInv, Types', Scan PROVE TrustInv'
    OBVIOUS
<1>1. /\ pc = "scan" /\ pc' = "store" /\ web' = web /\ ot' = ot /\ minot' = minot
      /\ utk' = utk
    BY DEF Scan, db, process
<1>2. utk' \subseteq {k \in Key : ot'[k] = Ultimate}
    BY <1>1 DEF TrustInv, OwnKeys, Types
<1>3. /\ OwnKeys' /\ MinReached' /\ ItemsReached'
      /\ \A k, e : \A N \in Nat : Reached(k, e, N) => Reached(k, e, N)'
    BY <1>1, <1>2, TrustKept
<1>4. /\ run'.depth = run.depth /\ run.depth + 1 \in Nat
      /\ \A k \in DOMAIN run'.found :
           k \in Key /\ run'.found[k] = Evaluated(run.klist, k, run.start)
    <2>1. run.depth \in Nat
        BY DEF TrustInv, Types, Runs
    <2> QED BY <2>1, ScanFound DEF TrustInv
<1>5. ASSUME NEW k \in DOMAIN run'.found, Trusting(run'.found[k].pk)
      PROVE  Reached(k, run.found[k].pk.depth, run.depth + 1)'
    <2> DEFINE pk == Evaluated(run.klist, k, run.start).pk
    <2>1. run'.found[k].pk = pk /\ k \in Key
        BY <1>4
    <2>2. Reached(k, pk.depth, run.depth + 1)
        BY <1>1, <1>5, <2>1, EvaluatedReached
    <2> HIDE DEF pk
    <2>3. PICK e, N : e = pk.depth /\ N = run.depth + 1
        OBVIOUS
    <2>4. N \in Nat /\ Reached(k, e, N)
        BY <1>4, <2>2, <2>3
    <2>5. Reached(k, e, N)'
        BY <1>3, <2>4
    <2>6. e = run'.found[k].pk.depth /\ N = run'.depth + 1
        BY <1>4, <2>1, <2>3
    <2> QED BY <2>5, <2>6
<1>6. FoundReached'
    BY <1>1, <1>5 DEF FoundReached
<1> QED BY <1>3, <1>6 DEF TrustInv

LEMMA ExtendMakes ==
  ASSUME Types, Extend
  PROVE  /\ run'.klist = [k \in Joining |-> Item(ot[k], minot[k], run.found[k].pk)]
         /\ run'.used = run.used \cup Joining /\ run'.seen = run.seen
         /\ pc' = "assign" => run'.depth = run.depth + 1
         /\ run.depth + 1 \in Nat
<1> DEFINE kl == [k \in Joining |-> Item(ot[k], minot[k], run.found[k].pk)]
           depth == IF LastRound(run.depth) \/ Joining = {} THEN run.depth ELSE run.depth + 1
<1>1. run' = [run EXCEPT !.klist = kl, !.used = @ \cup Joining, !.found = <<>>,
                         !.depth = depth]
    BY DEF Extend
<1>2. pc' = "assign" => depth = run.depth + 1
    BY DEF Extend
<1>3. run.depth \in Nat
    BY DEF Types, Runs
<1> HIDE DEF kl, depth
<1>4. run'.klist = kl /\ run'.used = run.used \cup Joining /\ run'.seen = run.seen
      /\ run'.depth = depth
    BY <1>1 DEF Types, Runs
<1> QED BY <1>2, <1>3, <1>4 DEF kl

LEMMA TrustExtend == TrustInv /\ Types' /\ Extend => TrustInv'
<1> SUFFICES ASSUME TrustInv, Types', Extend PROVE TrustInv'
    OBVIOUS
<1>1. /\ pc = "store" /\ pc' \in {"finish", "assign"} /\ web' = web /\ ot' = ot
      /\ minot' = minot /\ utk' = utk
    BY DEF Extend, db, process
<1>2. utk' \subseteq {k \in Key : ot'[k] = Ultimate}
    BY <1>1 DEF TrustInv, OwnKeys, Types
<1>3. /\ OwnKeys' /\ MinReached' /\ FoundReached'
      /\ pc' = "finish" => ItemsReached'
      /\ \A k, e : \A N \in Nat : Reached(k, e, N) => Reached(k, e, N)'
    BY <1>1, <1>2, TrustKept
<1>4. /\ run'.klist = [k \in Joining |-> Item(ot[k], minot[k], run.found[k].pk)]
      /\ pc' = "assign" => run'.depth = run.depth + 1
      /\ run.depth + 1 \in Nat
    BY ExtendMakes DEF TrustInv
<1>5. ASSUME NEW k \in Joining
      PROVE  /\ run'.klist[k].ot = ot[k]
             /\ run'.klist[k].depth = run.found[k].pk.depth
             /\ Trusting(run'.klist[k]) <=> Trusting(run.found[k].pk)
             /\ k \in DOMAIN run.found
    BY <1>4, JoiningTypes DEF Item, Trusting, TrustInv
<1>6. ASSUME pc' = "assign", NEW k \in Joining, Trusting(run'.klist[k])
      PROVE  Reached(k, run.klist[k].depth, run.depth)'
    <2>1. Reached(k, run.found[k].pk.depth, run.depth + 1)
        BY <1>1, <1>5, <1>6 DEF TrustInv, FoundReached
    <2>2. PICK e, N : e = run.found[k].pk.depth /\ N = run.depth + 1
        OBVIOUS
    <2>3. N \in Nat /\ Reached(k, e, N)
        BY <1>4, <2>1, <2>2
    <2>4. Reached(k, e, N)'
        BY <1>3, <2>3
    <2>5. e = run'.klist[k].depth /\ N = run'.depth
        BY <1>4, <1>5, <1>6, <2>2
    <2> QED BY <2>4, <2>5
<1>7. pc' = "assign" => ItemsReached'
    <2>1. DOMAIN run'.klist = Joining
        BY <1>4
    <2> QED BY <1>1, <1>5, <1>6, <2>1 DEF ItemsReached
<1> QED BY <1>1, <1>3, <1>7 DEF TrustInv

LEMMA TrustNext == OwnKeysStay /\ TrustInv /\ [Next]_vars => TrustInv'
<1> SUFFICES ASSUME OwnKeysStay, TrustInv, [Next]_vars PROVE TrustInv'
    OBVIOUS
<1>0. Types'
    BY TypesNext DEF TrustInv
<1>a. utk \subseteq {k \in Key : ot[k] = Ultimate}
    BY DEF TrustInv, OwnKeys, Types
<1>1. CASE /\ web' = web /\ ot' = ot /\ minot' = minot /\ run' = run /\ pc' = pc
           /\ utk' = utk
    BY <1>0, <1>a, <1>1, TrustKept DEF TrustInv
<1>2. ASSUME web' = web, ot' = ot, minot' = minot, utk' \subseteq {k \in Key : ot[k] = Ultimate},
             pc' \notin {"assign", "scan", "store"}
      PROVE  TrustInv'
    BY <1>0, <1>2, TrustKept DEF TrustInv
<1>3. CASE Tick
    BY <1>1, <1>3 DEF Tick, db, process
<1>4. CASE Start
    BY <1>2, <1>4 DEF Start, db, process
<1>5. CASE End
    BY <1>2, <1>5 DEF End, db, process
<1>6. ASSUME NEW k \in Rateable, NEW value \in Assignable, SetOwnertrust(k, value)
      PROVE  TrustInv'
    <2>1. /\ web' = web /\ minot' = minot /\ utk' = utk /\ pc' = "idle"
          /\ ot' = [ot EXCEPT ![k] = value] /\ pc = "idle"
        BY <1>6 DEF SetOwnertrust
    <2>2. value # Ultimate /\ ot[k] # Ultimate /\ ot \in [Key -> Trust]
        BY DEF OwnKeysStay, TrustInv, OwnKeys, Types
    <2>3. \A j \in Key : ot[j] = Ultimate <=> ot'[j] = Ultimate
        BY <2>1, <2>2
    <2>4. utk' \subseteq {j \in Key : ot'[j] = Ultimate}
        BY <1>a, <2>1, <2>3
    <2> QED BY <1>0, <2>1, <2>3, <2>4, TrustKept DEF TrustInv
<1>7. ASSUME NEW ask \in BOOLEAN, Begin(ask) PROVE TrustInv'
    BY <1>0, <1>7, TrustBegin
<1>8. CASE Stale
    <2>1. PICK noauto \in NoAutoCheck :
            IF (Due \/ pending) /\ ~noauto
              THEN Begin(FALSE)
              ELSE /\ pending' = (pending \/ Due)
                   /\ UNCHANGED <<web, now, db, pc, utk, run, cut, sets>>
        BY <1>8 DEF Stale
    <2>2. CASE Begin(FALSE)
        BY <1>7, <2>2
    <2>3. CASE UNCHANGED <<web, now, db, pc, utk, run, cut, sets>>
        BY <1>1, <2>3 DEF db
    <2> QED BY <2>1, <2>2, <2>3
<1>9. CASE CheckOrUpdate
    BY <1>7, <1>9, AssignableAssumption DEF CheckOrUpdate
<1>10. CASE Forced
    BY <1>7, <1>10, AssignableAssumption DEF Forced
<1>11. CASE Assign
    BY <1>0, <1>11, TrustAssign
<1>12. CASE Quit
    <2>0. PICK q \in Asked : \E K \in SUBSET (DOMAIN run.klist \ {q}) :
            \E answer \in [K \cap Asked -> {0} \cup Assignable] : Assigning(K \cup {q}, answer)
        BY <1>12 DEF Quit
    <2> PICK K \in SUBSET (DOMAIN run.klist \ {q}) :
            \E answer \in [K \cap Asked -> {0} \cup Assignable] : Assigning(K \cup {q}, answer)
        BY <2>0
    <2>1. PICK answer \in [K \cap Asked -> {0} \cup Assignable] : Assigning(K \cup {q}, answer)
        OBVIOUS
    <2>2. K \cup {q} \in SUBSET DOMAIN run.klist /\ K \cap Asked \in SUBSET Asked
        BY DEF Asked
    <2>3. pc = "assign" /\ pc' = "idle" /\ web' = web /\ utk' = utk
        BY <1>12 DEF Quit
    <2>4. /\ \A k \in Key : ot[k] = Ultimate <=> ot'[k] = Ultimate
          /\ utk' \subseteq {k \in Key : ot'[k] = Ultimate}
          /\ MinReached'
        BY <1>0, <2>1, <2>2, <2>3, TrustAssigning
    <2> QED BY <1>0, <2>3, <2>4, TrustKept DEF TrustInv
<1>13. CASE Scan
    BY <1>0, <1>13, TrustScan
<1>14. CASE ScanFails
    BY <1>2, <1>14, <1>a DEF ScanFails, db, process
<1>15. CASE Store
    <2>1. /\ web' = web /\ ot' = ot /\ minot' = minot /\ utk' = utk
          /\ pc = "store" /\ pc' = "store"
          /\ run'.found = run.found /\ run'.depth = run.depth
        BY <1>15 DEF Store, process, TrustInv, Types, Runs
    <2>2. OwnKeys' /\ MinReached' /\ ItemsReached'
        BY <1>0, <1>a, <2>1, TrustKept
    <2>3. ASSUME NEW k \in DOMAIN run'.found, Trusting(run'.found[k].pk)
          PROVE  Reached(k, run.found[k].pk.depth, run.depth + 1)'
        <3>1. Reached(k, run.found[k].pk.depth, run.depth + 1)
            BY <2>1, <2>3 DEF TrustInv, FoundReached
        <3>2. PICK e, N : e = run.found[k].pk.depth /\ N = run.depth + 1
            OBVIOUS
        <3>3. N \in Nat /\ Reached(k, e, N)
            BY <3>1, <3>2 DEF TrustInv, Types, Runs
        <3>4. Reached(k, e, N)'
            BY <2>1, <3>3, ReachedKept
        <3>5. e = run'.found[k].pk.depth /\ N = run'.depth + 1
            BY <2>1, <3>2
        <3> QED BY <3>4, <3>5
    <2>4. FoundReached'
        BY <2>3 DEF FoundReached
    <2> QED BY <1>0, <2>2, <2>4 DEF TrustInv
<1>16. CASE Extend
    BY <1>0, <1>16, TrustExtend
<1>17. CASE Finish
    BY <1>2, <1>17, <1>a DEF Finish
<1>18. CASE UNCHANGED vars
    BY <1>1, <1>18 DEF vars, db, process
<1> QED BY <1>3, <1>4, <1>5, <1>6, <1>8, <1>9, <1>10, <1>11, <1>12, <1>13, <1>14,
           <1>15, <1>16, <1>17, <1>18 DEF Next

(* A key gets a min_ownertrust only at the end of a chain of trust         *)
(* signatures that begins at an ultimately trusted key and is as long as   *)
(* each of them allows.                                                    *)
THEOREM DelegatedAlways == ASSUME OwnKeysStay PROVE Spec => []Delegated
<1>1. TrustInv => Delegated
    <2> SUFFICES ASSUME TrustInv, NEW k \in Key, minot[k] # Unknown
                 PROVE  \E n \in 1 .. MaxDepth : \E path \in [0 .. n -> Key] :
                          /\ ot[path[0]] = Ultimate /\ path[n] = k
                          /\ \A i \in 1 .. n : Delegates(path[i - 1], path[i], n - i + 1)
        BY DEF Delegated
    <2>1. PICK n \in 1 .. MaxDepth : \E path \in [0 .. n -> Key] :
            /\ ot[path[0]] = Ultimate /\ path[n] = k
            /\ \A i \in 1 .. n : Delegates(path[i - 1], path[i], n - i + 1 + 0)
        BY DEF TrustInv, MinReached, Reached
    <2>2. PICK path \in [0 .. n -> Key] :
            /\ ot[path[0]] = Ultimate /\ path[n] = k
            /\ \A i \in 1 .. n : Delegates(path[i - 1], path[i], n - i + 1 + 0)
        BY <2>1
    <2>3. ASSUME NEW i \in 1 .. n PROVE Delegates(path[i - 1], path[i], n - i + 1)
        <3>1. n - i + 1 + 0 = n - i + 1
            BY NeededAssumption
        <3> QED BY <2>2, <3>1
    <2>4. ot[path[0]] = Ultimate /\ path[n] = k
        BY <2>2
    <2> QED BY <2>3, <2>4
<1>2. Init => TrustInv
    BY TrustInit
<1>3. TrustInv /\ [Next]_vars => TrustInv'
    BY TrustNext
<1> QED BY <1>1, <1>2, <1>3, PTL DEF Spec

-----------------------------------------------------------------------------
(* The counts of certificates are a byte wide; with few enough keys they   *)
(* do not wrap.                                                            *)
FewKeys == IsFiniteSet(Key) /\ Completes + Cardinality(Key) < CountMod

(* The signers whose certificates the stored counts may hold.              *)
Counted == IF pc = "store" THEN run.used ELSE run.used \ DOMAIN run.klist
AtMost(c, K) ==
  c.full <= Completes + Cardinality(K) /\ c.marginal <= Completes + Cardinality(K)
InRounds == pc \in {"assign", "scan", "store"}
OwnSeen == InRounds => utk \subseteq run.seen
CountsKept ==
  InRounds => \A u \in Uid :
    /\ AtMost(valid[u], Counted)
    /\ \/ valid[u].value = 0
       \/ valid[u].value = Status(valid[u])
       \/ KeyOf(u) \in utk
FoundGrown ==
  pc = "store" => \A k \in run.left : \A u \in DOMAIN run.found[k].counts :
    /\ u \in Uids(k)
    /\ AtMost(run.found[k].counts[u], run.used)
    /\ Status(run.found[k].counts[u]) >= valid[u].value
CountInv == Types /\ OwnSeen /\ CountsKept /\ FoundGrown

LEMMA KeyOfUid ==
  ASSUME IsFiniteSet(Key), NEW k \in Key, NEW u \in Uids(k)
  PROVE  u \in Uid /\ KeyOf(u) = k
<1> DEFINE K == {j \in Key : \E i \in DOMAIN UidsOf[j] : UidsOf[j][i] = u}
<1>1. u \in Uid /\ k \in K
    BY UidsAssumption DEF Uids
<1>2. Cardinality(K) = 1
    BY <1>1, UidsAssumption
<1>3. IsFiniteSet(K)
    BY FS_Subset
<1> HIDE DEF K
<1>4. \E x : K = {x}
    BY <1>2, <1>3, FS_Singleton
<1>5. K = {k}
    BY <1>1, <1>4
<1>6. KeyOf(u) \in K
    BY <1>5 DEF KeyOf, K
<1> QED BY <1>1, <1>5, <1>6

LEMMA Sizes ==
  ASSUME IsFiniteSet(Key), NEW K \in SUBSET Key
  PROVE  IsFiniteSet(K) /\ Cardinality(K) \in Nat /\ Cardinality(K) <= Cardinality(Key)
         /\ Cardinality(Key) \in Nat
BY FS_Subset, FS_CardinalityType

(* The certificates of one round add no more than there are signers, and   *)
(* take nothing away.                                                      *)
LEMMA CountsGrow ==
  ASSUME Webs, IsFiniteSet(Key), NEW klist, DOMAIN klist \in SUBSET Key,
         NEW u \in Uid, NEW t, Stored(u) \in Tallies,
         NEW m \in Nat, Completes <= m, Stored(u).full <= m, Stored(u).marginal <= m
  PROVE  LET c == Counts(klist, u, t)
         IN  /\ c.full <= m + Cardinality(DOMAIN klist)
             /\ c.marginal <= m + Cardinality(DOMAIN klist)
             /\ c.full >= Stored(u).full \/ c.full >= Completes
             /\ c.marginal >= Stored(u).marginal
<1>a. PICK g : Counting(klist, u, t, g)
    BY CountsTallying
<1> DEFINE N == Len(web.sigs[u])
           use == Weighed(klist, u, t)
           by(i) == web.sigs[u][i].by
           S(n) == {by(i) : i \in {j \in use : j <= n}}
           Good(n, c) == /\ c \in Tallies
                         /\ c.full <= m + Cardinality(S(n))
                         /\ c.marginal <= m + Cardinality(S(n))
                         /\ c.full >= Stored(u).full \/ c.full >= Completes
                         /\ c.marginal >= Stored(u).marginal
<1>1. N \in Nat /\ DOMAIN web.sigs[u] = 1 .. N
    BY DEF Webs
<1>2. /\ Counts(klist, u, t) = g[1 .. N]
      /\ g[1 .. 0] = Stored(u)
      /\ \A n \in Nat : n + 1 <= N =>
           g[1 .. n + 1] = Tallied(klist, u, t, g[1 .. n], n + 1)
    BY <1>a DEF Counting
<1>3. /\ \A i \in use : i \in 1 .. N /\ by(i) \in DOMAIN klist
      /\ \A i, j \in use : by(i) = by(j) => i = j
    BY <1>1, SignersDistinct
<1>4. ASSUME NEW n \in Nat
      PROVE  /\ S(n) \in SUBSET DOMAIN klist /\ S(n) \in SUBSET Key
             /\ IsFiniteSet(S(n)) /\ Cardinality(S(n)) \in Nat
    <2>1. S(n) \in SUBSET DOMAIN klist
        BY <1>3
    <2> HIDE DEF S
    <2> QED BY <2>1, Sizes
<1>5. ASSUME NEW n \in Nat, n + 1 \in use
      PROVE  Cardinality(S(n + 1)) = Cardinality(S(n)) + 1
    <2>1. S(n + 1) = S(n) \cup {by(n + 1)}
        <3>1. {j \in use : j <= n + 1} = {j \in use : j <= n} \cup {n + 1}
            BY <1>3, <1>5
        <3> HIDE DEF use, by
        <3> QED BY <3>1
    <2>2. by(n + 1) \notin S(n)
        <3> SUFFICES ASSUME NEW i \in use, i <= n, by(i) = by(n + 1) PROVE FALSE
            OBVIOUS
        <3>1. i = n + 1
            BY <1>3, <1>5
        <3> QED BY <3>1
    <2> HIDE DEF S, by, use
    <2>3. IsFiniteSet(S(n))
        BY <1>4
    <2> QED BY <2>1, <2>2, <2>3, FS_AddElement
<1>6. ASSUME NEW n \in Nat, n + 1 \notin use
      PROVE  S(n + 1) = S(n)
    <2>1. {j \in use : j <= n + 1} = {j \in use : j <= n}
        BY <1>3, <1>6
    <2> HIDE DEF use, by
    <2> QED BY <2>1
<1>7. Good(0, g[1 .. 0])
    <2>1. Cardinality(S(0)) \in Nat
        BY <1>4
    <2> HIDE DEF S
    <2> QED BY <1>2, <2>1 DEF Tallies
<1>8. ASSUME NEW n \in Nat, n + 1 <= N, Good(n, g[1 .. n])
      PROVE  Good(n + 1, g[1 .. n + 1])
    <2> DEFINE c == g[1 .. n]
               d == g[1 .. n + 1]
    <2>1. d = Tallied(klist, u, t, c, n + 1)
        BY <1>2, <1>8
    <2>2. Cardinality(S(n)) \in Nat /\ Cardinality(S(n + 1)) \in Nat
        <3>1. n + 1 \in Nat
            OBVIOUS
        <3> HIDE DEF S
        <3> QED BY <1>4, <3>1
    <2>3. CASE n + 1 \notin use
        <3>1. d = c
            BY <2>1, <2>3 DEF Tallied
        <3>2. S(n + 1) = S(n)
            BY <1>6, <2>3
        <3> HIDE DEF S
        <3> QED BY <1>8, <3>1, <3>2
    <2>4. CASE n + 1 \in use
        <3>1. PICK trust : d = Count(c, trust)
            BY <2>1, <2>4 DEF Tallied
        <3>2. Cardinality(S(n + 1)) = Cardinality(S(n)) + 1
            BY <1>5, <2>4
        <3> HIDE DEF S, c, d, use, by
        <3>3. c \in Tallies /\ Stored(u).full \in Nat /\ Stored(u).marginal \in Nat
            BY <1>8 DEF c, Tallies
        <3>4. /\ d \in Tallies
              /\ d.full <= c.full + 1 \/ d.full = Completes
              /\ d.full >= c.full \/ d.full >= Completes
              /\ d.marginal \in c.marginal .. c.marginal + 1
            BY <3>1, <3>3, CountTallies
        <3>5. /\ c.full \in Nat /\ c.marginal \in Nat /\ d.full \in Nat
              /\ d.marginal \in Nat /\ Completes \in Nat
            BY <3>3, <3>4, NeededAssumption DEF Tallies
        <3>6. /\ c.full <= m + Cardinality(S(n)) /\ c.marginal <= m + Cardinality(S(n))
              /\ c.full >= Stored(u).full \/ c.full >= Completes
              /\ c.marginal >= Stored(u).marginal
            BY <1>8 DEF c
        <3>7. Good(n + 1, d)
            BY <2>2, <3>2, <3>3, <3>4, <3>5, <3>6
        <3> QED BY <3>7 DEF d
    <2> QED BY <2>3, <2>4
<1>9. Good(N, g[1 .. N])
    <2> DEFINE T == {n \in Nat : n <= N => Good(n, g[1 .. n])}
    <2> HIDE DEF Good
    <2>1. 0 \in T
        BY <1>7
    <2>2. ASSUME NEW n \in T PROVE n + 1 \in T
        <3> HIDE DEF N
        <3> QED BY <1>1, <1>8
    <2> HIDE DEF T
    <2>3. T \in SUBSET Nat
        BY DEF T
    <2>4. N \in T
        BY <1>1, <2>1, <2>2, <2>3, Climb
    <2> QED BY <1>1, <2>4 DEF T
<1>10. Cardinality(S(N)) <= Cardinality(DOMAIN klist) /\ Cardinality(S(N)) \in Nat
       /\ Cardinality(DOMAIN klist) \in Nat
    <2>1. IsFiniteSet(DOMAIN klist) /\ Cardinality(DOMAIN klist) \in Nat
        BY Sizes
    <2>2. S(N) \in SUBSET DOMAIN klist /\ Cardinality(S(N)) \in Nat
        BY <1>1, <1>4
    <2> HIDE DEF S, N
    <2> QED BY <2>1, <2>2, FS_Subset
<1> DEFINE C == Counts(klist, u, t)
<1>11. Good(N, C)
    BY <1>2, <1>9
<1> HIDE DEF S, N, C
<1>12. /\ C.full <= m + Cardinality(DOMAIN klist)
       /\ C.marginal <= m + Cardinality(DOMAIN klist)
       /\ C.full >= Stored(u).full \/ C.full >= Completes
       /\ C.marginal >= Stored(u).marginal
    BY <1>10, <1>11 DEF Tallies
<1> QED BY <1>12 DEF C

LEMMA StatusGrows ==
  ASSUME NEW c \in Tallies, NEW d \in Tallies,
         d.full >= c.full \/ d.full >= Completes, d.marginal >= c.marginal
  PROVE  Status(d) >= Status(c)
<1>1. /\ c.full \in Nat /\ c.marginal \in Nat /\ d.full \in Nat /\ d.marginal \in Nat
      /\ Completes \in Nat \ {0} /\ Marginals \in Nat \ {0}
    BY NeededAssumption DEF Tallies
<1>2. c.full >= Completes \/ c.marginal >= Marginals =>
        d.full >= Completes \/ d.marginal >= Marginals
    BY <1>1
<1>3. c.full > 0 \/ c.marginal > 0 => d.full > 0 \/ d.marginal > 0
    BY <1>1
<1> QED BY <1>2, <1>3 DEF Status, Undefined, Marginal, Fully

LEMMA NoWrap ==
  ASSUME NEW m \in Nat, NEW x \in Nat, x < m
  PROVE  x % m = x
OBVIOUS

LEMMA CountedSizes ==
  ASSUME FewKeys, Types
  PROVE  /\ Counted \in SUBSET Key /\ Cardinality(Counted) \in Nat
         /\ run.used \in SUBSET Key /\ Cardinality(run.used) \in Nat
         /\ DOMAIN run.klist \in SUBSET Key
         /\ Completes \in Nat /\ Completes + Cardinality(run.used) < CountMod
<1>1. run.used \in SUBSET Key
    BY DEF Types, Runs
<1>2. Counted \in SUBSET Key
    BY <1>1 DEF Counted
<1>3. /\ Cardinality(run.used) \in Nat /\ Cardinality(Counted) \in Nat
      /\ Cardinality(Key) \in Nat /\ Cardinality(run.used) <= Cardinality(Key)
    BY <1>1, <1>2, Sizes DEF FewKeys
<1>4. Completes + Cardinality(run.used) < CountMod
    BY <1>3, NeededAssumption, WidthAssumption DEF FewKeys
<1> QED BY <1>1, <1>2, <1>3, <1>4, KlistTypes, NeededAssumption

(* The signers of this round come on top of those before.                  *)
LEMMA RoundSizes ==
  ASSUME FewKeys, Types
  PROVE  Cardinality(run.used) =
           Cardinality(run.used \ DOMAIN run.klist) + Cardinality(DOMAIN run.klist)
<1>1. run.used \in SUBSET Key /\ DOMAIN run.klist \subseteq run.used
    BY DEF Types, Runs
<1>2. IsFiniteSet(run.used) /\ Cardinality(run.used) \in Nat
    BY <1>1, Sizes DEF FewKeys
<1>3. Cardinality(run.used \ DOMAIN run.klist) =
        Cardinality(run.used) - Cardinality(run.used \cap DOMAIN run.klist)
    BY <1>2, FS_Difference
<1>4. run.used \cap DOMAIN run.klist = DOMAIN run.klist
    BY <1>1
<1>5. Cardinality(DOMAIN run.klist) \in Nat
    BY <1>1, Sizes DEF FewKeys
<1> QED BY <1>2, <1>3, <1>4, <1>5

LEMMA EvaluatedGrown ==
  ASSUME FewKeys, CountInv, pc = "scan", NEW k \in Key \ run.seen,
         NEW u \in DOMAIN Evaluated(run.klist, k, run.start).counts
  PROVE  /\ u \in Uids(k)
         /\ AtMost(Evaluated(run.klist, k, run.start).counts[u], run.used)
         /\ Status(Evaluated(run.klist, k, run.start).counts[u]) >= valid[u].value
<1> DEFINE K == run.used \ DOMAIN run.klist
           m == Completes + Cardinality(K)
           c == Counts(run.klist, u, run.start)
<1>1. /\ u \in Uids(k)
      /\ Evaluated(run.klist, k, run.start).counts[u] = c
    BY DEF Evaluated, SignedUids
<1>2. u \in Uid /\ KeyOf(u) = k
    BY <1>1, KeyOfUid DEF FewKeys
<1>3. Webs /\ Types /\ valid[u] \in Records
    BY <1>2 DEF CountInv, Types
<1>4. Stored(u) \in Tallies
    BY <1>2, ValidTallies DEF CountInv, Types
<1>5. AtMost(valid[u], K)
    BY <1>2 DEF CountInv, CountsKept, InRounds, Counted
<1>6. Cardinality(K) \in Nat /\ DOMAIN run.klist \in SUBSET Key /\ Completes \in Nat
    <2>1. K = Counted
        BY DEF Counted
    <2> HIDE DEF K
    <2> QED BY <1>3, <2>1, CountedSizes
<1>7. m \in Nat /\ Completes <= m /\ Stored(u).full <= m /\ Stored(u).marginal <= m
    <2> HIDE DEF K
    <2> QED BY <1>5, <1>6 DEF AtMost, Stored
<1>8. /\ c.full <= m + Cardinality(DOMAIN run.klist)
      /\ c.marginal <= m + Cardinality(DOMAIN run.klist)
      /\ c.full >= Stored(u).full \/ c.full >= Completes
      /\ c.marginal >= Stored(u).marginal
    <2> HIDE DEF m
    <2> QED BY <1>2, <1>3, <1>4, <1>6, <1>7, CountsGrow DEF FewKeys
<1>9. c \in Tallies
    BY <1>2, <1>3, <1>4, CountsTypes
<1>10. m + Cardinality(DOMAIN run.klist) = Completes + Cardinality(run.used)
    <2>1. Cardinality(DOMAIN run.klist) \in Nat
        BY <1>6, Sizes DEF FewKeys
    <2> QED BY <1>3, <1>6, <2>1, RoundSizes
<1>11. AtMost(c, run.used)
    <2> HIDE DEF m, c
    <2> QED BY <1>8, <1>10 DEF AtMost
<1>12. valid[u].value = 0 \/ valid[u].value = Status(Stored(u))
    <2>1. KeyOf(u) \notin utk
        BY <1>2 DEF CountInv, OwnSeen, InRounds
    <2>2. Status(valid[u]) = Status(Stored(u))
        BY DEF Status, Stored
    <2> QED BY <1>2, <2>1, <2>2 DEF CountInv, CountsKept, InRounds
<1>13. Status(c) >= valid[u].value
    <2>1. Status(c) >= Status(Stored(u))
        <3> HIDE DEF c
        <3> QED BY <1>4, <1>8, <1>9, StatusGrows
    <2>2. Status(c) \in {Undefined, Marginal, Fully}
        <3> HIDE DEF c
        <3> QED BY <1>9, StoredTypes
    <2> HIDE DEF c
    <2> QED BY <1>12, <2>1, <2>2 DEF Undefined, Marginal, Fully
<1> QED BY <1>1, <1>11, <1>13

LEMMA CountInit == Init => CountInv
BY TypesInit DEF Init, CountInv, OwnSeen, CountsKept, FoundGrown, InRounds

LEMMA CountBegin ==
  ASSUME FewKeys, CountInv, Types', NEW ask \in BOOLEAN, Begin(ask)
  PROVE  CountInv'
<1>1. /\ pc' \in {"finish", "assign"} /\ utk' = utk
      /\ run'.used = utk /\ run'.seen = utk /\ DOMAIN run'.klist = utk
    BY DEF Begin, NoRun
<1>2. OwnSeen' /\ FoundGrown'
    BY <1>1 DEF OwnSeen, FoundGrown
<1>3. Counted' = {} \/ pc' = "finish"
    BY <1>1 DEF Counted
<1>4. ASSUME NEW u \in Uid
      PROVE  /\ valid'[u].full = 0 /\ valid'[u].marginal = 0
             /\ valid'[u].value = 0 \/ KeyOf(u) \in utk
    BY DEF Begin, Cleared, NoRecord
<1>5. CountsKept'
    <2> SUFFICES ASSUME pc' # "finish", NEW u \in Uid
                 PROVE  /\ AtMost(valid[u], Counted)'
                        /\ \/ valid'[u].value = 0
                           \/ valid'[u].value = Status(valid'[u])
                           \/ KeyOf(u) \in utk'
        BY DEF CountsKept, InRounds
    <2>1. Cardinality(Counted') = 0
        BY <1>3, FS_EmptySet
    <2>2. AtMost(valid[u], Counted)'
        BY <1>4, <2>1, NeededAssumption DEF AtMost
    <2> QED BY <1>1, <1>4, <2>2
<1> QED BY <1>2, <1>5 DEF CountInv

LEMMA CountScan ==
  ASSUME FewKeys, CountInv, Types', Scan
  PROVE  CountInv'
<1>1. Types /\ pc = "scan" /\ pc' = "store" /\ valid' = valid /\ utk' = utk
    BY DEF CountInv, Scan, db, process
<1>2. /\ run'.used = run.used /\ run.seen \subseteq run'.seen
      /\ run'.left = DOMAIN run'.found
      /\ \A k \in DOMAIN run'.found :
           /\ k \in Key \ run.seen
           /\ run'.found[k] = Evaluated(run.klist, k, run.start)
    BY <1>1, ScanFound
<1>3. OwnSeen'
    BY <1>1, <1>2 DEF CountInv, OwnSeen, InRounds
<1>4. Cardinality(Counted) <= Cardinality(run.used) /\ Counted' = run.used
    <2>1. Counted \subseteq run.used /\ Counted' = run.used
        BY <1>1, <1>2 DEF Counted
    <2>2. IsFiniteSet(run.used)
        BY <1>1, CountedSizes, Sizes DEF FewKeys
    <2> QED BY <2>1, <2>2, FS_Subset
<1>5. /\ Cardinality(Counted) \in Nat /\ Cardinality(run.used) \in Nat
      /\ Completes \in Nat
    BY <1>1, CountedSizes
<1>6. CountsKept'
    <2> SUFFICES ASSUME NEW u \in Uid
                 PROVE  /\ AtMost(valid[u], Counted)'
                        /\ \/ valid'[u].value = 0
                           \/ valid'[u].value = Status(valid'[u])
                           \/ KeyOf(u) \in utk'
        BY DEF CountsKept
    <2>1. /\ AtMost(valid[u], Counted)
          /\ \/ valid[u].value = 0
             \/ valid[u].value = Status(valid[u])
             \/ KeyOf(u) \in utk
        BY <1>1 DEF CountInv, CountsKept, InRounds
    <2>2. valid[u].full \in Nat /\ valid[u].marginal \in Nat
        BY <1>1, WidthAssumption DEF Types, Records
    <2>3. AtMost(valid[u], Counted)'
        BY <1>1, <1>4, <1>5, <2>1, <2>2 DEF AtMost
    <2> QED BY <1>1, <2>1, <2>3
<1>7. FoundGrown'
    <2> SUFFICES ASSUME NEW k \in DOMAIN run'.found,
                        NEW u \in DOMAIN run'.found[k].counts
                 PROVE  /\ u \in Uids(k)
                        /\ AtMost(run.found[k].counts[u], run.used)'
                        /\ Status(run'.found[k].counts[u]) >= valid'[u].value
        BY <1>2 DEF FoundGrown
    <2>1. /\ k \in Key \ run.seen
          /\ run'.found[k] = Evaluated(run.klist, k, run.start)
        BY <1>2
    <2>2. /\ u \in Uids(k)
          /\ AtMost(Evaluated(run.klist, k, run.start).counts[u], run.used)
          /\ Status(Evaluated(run.klist, k, run.start).counts[u]) >= valid[u].value
        BY <1>1, <2>1, EvaluatedGrown
    <2> QED BY <1>1, <1>2, <2>1, <2>2 DEF AtMost
<1> QED BY <1>3, <1>6, <1>7 DEF CountInv

(* What is stored for a key replaces only its own user ids, by counts that *)
(* fit and by no smaller a validity.                                       *)
LEMMA StoreGrows ==
  ASSUME FewKeys, CountInv, Store
  PROVE  \E k \in run.left :
           /\ run'.left = run.left \ {k} /\ run'.found = run.found
           /\ run'.used = run.used /\ run'.seen = run.seen
           /\ \A u \in Uid \ DOMAIN run.found[k].counts : valid'[u] = valid[u]
           /\ \A u \in DOMAIN run.found[k].counts :
                /\ u \in Uids(k)
                /\ valid'[u].value = Status(valid'[u])
                /\ AtMost(valid'[u], run.used)
                /\ valid'[u].value >= valid[u].value
                /\ valid'[u].full = run.found[k].counts[u].full
                /\ valid'[u].marginal = run.found[k].counts[u].marginal
<1>1. PICK k \in run.left :
         /\ valid' = [u \in Uid |-> IF u \in DOMAIN run.found[k].counts
                                      THEN StoredCounts(run.found[k].counts[u])
                                      ELSE valid[u]]
         /\ run' = [run EXCEPT !.left = @ \ {k}]
    BY DEF Store
<1>2. /\ run'.left = run.left \ {k} /\ run'.found = run.found
      /\ run'.used = run.used /\ run'.seen = run.seen
    BY <1>1 DEF CountInv, Types, Runs
<1>3. k \in DOMAIN run.found /\ pc = "store" /\ Types
    BY DEF CountInv, Types, Store
<1>4. ASSUME NEW u \in DOMAIN run.found[k].counts
      PROVE  /\ u \in Uids(k)
             /\ valid'[u].value = Status(valid'[u])
             /\ AtMost(valid'[u], run.used)
             /\ valid'[u].value >= valid[u].value
             /\ valid'[u].full = run.found[k].counts[u].full
             /\ valid'[u].marginal = run.found[k].counts[u].marginal
    <2> DEFINE c == run.found[k].counts[u]
    <2>1. u \in Uid /\ c \in Tallies
        BY <1>3, FoundTypes
    <2>2. u \in Uids(k) /\ AtMost(c, run.used) /\ Status(c) >= valid[u].value
        BY <1>3 DEF CountInv, FoundGrown
    <2>3. valid'[u] = StoredCounts(c)
        BY <1>1, <2>1
    <2> HIDE DEF c
    <2>4. Completes + Cardinality(run.used) < CountMod /\ Completes \in Nat
          /\ Cardinality(run.used) \in Nat /\ CountMod \in Nat
        BY <1>3, CountedSizes, WidthAssumption
    <2>5. c.full % CountMod = c.full /\ c.marginal % CountMod = c.marginal
        <3>1. c.full \in Nat /\ c.full < CountMod /\ c.marginal \in Nat /\ c.marginal < CountMod
            BY <2>1, <2>2, <2>4 DEF AtMost, Tallies
        <3> QED BY <2>4, <3>1, NoWrap
    <2>6. /\ valid'[u].value = Status(c) /\ valid'[u].full = c.full
          /\ valid'[u].marginal = c.marginal
        BY <2>3, <2>5 DEF StoredCounts
    <2>7. Status(valid'[u]) = Status(c)
        BY <2>6 DEF Status
    <2> QED BY <2>2, <2>6, <2>7 DEF AtMost, c
<1>5. \A u \in Uid \ DOMAIN run.found[k].counts : valid'[u] = valid[u]
    BY <1>1
<1> QED BY <1>2, <1>4, <1>5

LEMMA CountStore ==
  ASSUME FewKeys, CountInv, Types', Store
  PROVE  CountInv'
<1>1. PICK k \in run.left :
           /\ run'.left = run.left \ {k} /\ run'.found = run.found
           /\ run'.used = run.used /\ run'.seen = run.seen
           /\ \A u \in Uid \ DOMAIN run.found[k].counts : valid'[u] = valid[u]
           /\ \A u \in DOMAIN run.found[k].counts :
                /\ u \in Uids(k)
                /\ valid'[u].value = Status(valid'[u])
                /\ AtMost(valid'[u], run.used)
                /\ valid'[u].value >= valid[u].value
    BY StoreGrows
<1>2. pc = "store" /\ pc' = "store" /\ utk' = utk
    BY DEF Store, process
<1>3. OwnSeen'
    BY <1>1, <1>2 DEF CountInv, OwnSeen, InRounds
<1>4. Counted = run.used /\ Counted' = run.used
    BY <1>1, <1>2 DEF Counted
<1>5. CountsKept'
    <2> SUFFICES ASSUME NEW u \in Uid
                 PROVE  /\ AtMost(valid[u], Counted)'
                        /\ \/ valid'[u].value = 0
                           \/ valid'[u].value = Status(valid'[u])
                           \/ KeyOf(u) \in utk'
        BY DEF CountsKept
    <2>1. CASE u \in DOMAIN run.found[k].counts
        BY <1>1, <1>4, <2>1 DEF AtMost
    <2>2. CASE u \notin DOMAIN run.found[k].counts
        <3>1. valid'[u] = valid[u]
            BY <1>1, <2>2
        <3>2. /\ AtMost(valid[u], Counted)
              /\ \/ valid[u].value = 0
                 \/ valid[u].value = Status(valid[u])
                 \/ KeyOf(u) \in utk
            BY <1>2 DEF CountInv, CountsKept, InRounds
        <3> QED BY <1>2, <1>4, <3>1, <3>2 DEF AtMost
    <2> QED BY <2>1, <2>2
<1>6. FoundGrown'
    <2> SUFFICES ASSUME NEW j \in run'.left, NEW u \in DOMAIN run'.found[j].counts
                 PROVE  /\ u \in Uids(j)
                        /\ AtMost(run.found[j].counts[u], run.used)'
                        /\ Status(run'.found[j].counts[u]) >= valid'[u].value
        BY DEF FoundGrown
    <2>1. j \in run.left /\ j # k
        BY <1>1
    <2>2. /\ u \in Uids(j)
          /\ AtMost(run.found[j].counts[u], run.used)
          /\ Status(run.found[j].counts[u]) >= valid[u].value
        BY <1>1, <1>2, <2>1 DEF CountInv, FoundGrown
    <2>3. j \in Key /\ k \in Key
        BY <2>1 DEF CountInv, Types, Runs
    <2>4. u \in Uid /\ KeyOf(u) = j
        BY <2>2, <2>3, KeyOfUid DEF FewKeys
    <2>5. u \notin DOMAIN run.found[k].counts
        <3> SUFFICES ASSUME u \in DOMAIN run.found[k].counts PROVE FALSE
            OBVIOUS
        <3>1. u \in Uids(k)
            BY <1>1
        <3>2. KeyOf(u) = k
            BY <2>3, <3>1, KeyOfUid DEF FewKeys
        <3> QED BY <2>1, <2>4, <3>2
    <2>6. valid'[u] = valid[u]
        BY <1>1, <2>4, <2>5
    <2> QED BY <1>1, <2>2, <2>6 DEF AtMost
<1> QED BY <1>3, <1>5, <1>6 DEF CountInv

LEMMA CountNext == FewKeys /\ CountInv /\ [Next]_vars => CountInv'
<1> SUFFICES ASSUME FewKeys, CountInv, [Next]_vars PROVE CountInv'
    OBVIOUS
<1>0. Types'
    BY TypesNext DEF CountInv
<1>1. CASE run' = run /\ valid' = valid /\ pc' = pc /\ utk' = utk
    BY <1>0, <1>1 DEF CountInv, OwnSeen, CountsKept, FoundGrown, InRounds, Counted, AtMost
<1>2. CASE pc' \notin {"assign", "scan", "store"}
    BY <1>0, <1>2 DEF CountInv, OwnSeen, CountsKept, FoundGrown, InRounds
<1>3. CASE Tick
    BY <1>1, <1>3 DEF Tick, db, process
<1>4. CASE Start
    BY <1>2, <1>4 DEF Start
<1>5. CASE End
    BY <1>2, <1>5 DEF End
<1>6. ASSUME NEW k \in Rateable, NEW value \in Assignable, SetOwnertrust(k, value)
      PROVE  CountInv'
    BY <1>1, <1>6 DEF SetOwnertrust
<1>7. ASSUME NEW ask \in BOOLEAN, Begin(ask) PROVE CountInv'
    BY <1>0, <1>7, CountBegin
<1>8. CASE Stale
    <2>1. PICK noauto \in NoAutoCheck :
            IF (Due \/ pending) /\ ~noauto
              THEN Begin(FALSE)
              ELSE /\ pending' = (pending \/ Due)
                   /\ UNCHANGED <<web, now, db, pc, utk, run, cut, sets>>
        BY <1>8 DEF Stale
    <2>2. CASE Begin(FALSE)
        BY <1>7, <2>2
    <2>3. CASE UNCHANGED <<web, now, db, pc, utk, run, cut, sets>>
        BY <1>1, <2>3 DEF db
    <2> QED BY <2>1, <2>2, <2>3
<1>9. CASE CheckOrUpdate
    BY <1>7, <1>9, AssignableAssumption DEF CheckOrUpdate
<1>10. CASE Forced
    BY <1>7, <1>10, AssignableAssumption DEF Forced
<1>11. CASE Assign
    <2>1. PICK answer \in [Asked -> {0} \cup Assignable] :
            run' = [run EXCEPT !.klist = [k \in DOMAIN @ |-> Trusted(k, answer)]]
        BY <1>11 DEF Assign
    <2>2. /\ run'.used = run.used /\ run'.seen = run.seen
          /\ DOMAIN run'.klist = DOMAIN run.klist
        BY <2>1 DEF CountInv, Types, Runs
    <2>3. pc = "assign" /\ pc' = "scan" /\ valid' = valid /\ utk' = utk
        BY <1>11 DEF Assign
    <2>4. Counted' = Counted
        BY <2>2, <2>3 DEF Counted
    <2>5. CountsKept'
        BY <2>3, <2>4 DEF CountInv, CountsKept, InRounds, AtMost
    <2>6. OwnSeen' /\ FoundGrown'
        BY <2>2, <2>3 DEF CountInv, OwnSeen, FoundGrown, InRounds
    <2> QED BY <1>0, <2>5, <2>6 DEF CountInv
<1>12. CASE Quit
    BY <1>2, <1>12 DEF Quit
<1>13. CASE Scan
    BY <1>0, <1>13, CountScan
<1>14. CASE ScanFails
    BY <1>2, <1>14 DEF ScanFails
<1>15. CASE Store
    BY <1>0, <1>15, CountStore
<1>16. CASE Extend
    <2>1. pc = "store" /\ pc' \in {"finish", "assign"} /\ valid' = valid /\ utk' = utk
        BY <1>16 DEF Extend, db, process
    <2>2. /\ DOMAIN run'.klist = Joining /\ run'.used = run.used \cup Joining
          /\ run'.seen = run.seen
        BY <1>16, ExtendMakes DEF CountInv
    <2>3. Joining \cap run.used = {}
        BY JoiningTypes DEF CountInv
    <2>4. pc' = "assign" => Counted' = Counted
        BY <2>1, <2>2, <2>3 DEF Counted
    <2>5. pc' = "assign" => CountsKept' /\ OwnSeen' /\ FoundGrown'
        BY <2>1, <2>2, <2>4
           DEF CountInv, CountsKept, OwnSeen, FoundGrown, InRounds, AtMost
    <2> QED BY <1>0, <1>2, <2>1, <2>5 DEF CountInv
<1>17. CASE Finish
    BY <1>2, <1>17 DEF Finish
<1>18. CASE UNCHANGED vars
    BY <1>1, <1>18 DEF vars, db, process
<1> QED BY <1>3, <1>4, <1>5, <1>6, <1>8, <1>9, <1>10, <1>11, <1>12, <1>13, <1>14,
           <1>15, <1>16, <1>17, <1>18 DEF Next

(* Within a check no user id loses validity: what a round stores is made   *)
(* of all that was counted before and of new signers only.                 *)
THEOREM GrowingAlways == ASSUME FewKeys PROVE Spec => Growing
<1>1. CountInv /\ [Next]_vars =>
        [Checking /\ Checking' => \A u \in Uid : valid'[u].value >= valid[u].value]_vars
    <2> SUFFICES ASSUME CountInv, Next, Checking, Checking', NEW u \in Uid
                 PROVE  valid'[u].value >= valid[u].value
        OBVIOUS
    <2>0. valid[u].value \in Nat
        BY DEF CountInv, Types, Records
    <2>1. CASE valid' = valid
        BY <2>0, <2>1
    <2>2. CASE Store
        <3>1. PICK k \in run.left :
                /\ \A v \in Uid \ DOMAIN run.found[k].counts : valid'[v] = valid[v]
                /\ \A v \in DOMAIN run.found[k].counts : valid'[v].value >= valid[v].value
            BY <2>2, StoreGrows
        <3>2. valid'[u] = valid[u] \/ valid'[u].value >= valid[u].value
            BY <3>1
        <3> QED BY <2>0, <3>2
    <2>3. ASSUME NEW k \in Rateable, NEW value \in Assignable, SetOwnertrust(k, value)
          PROVE  valid' = valid
        BY <2>3 DEF SetOwnertrust
    <2>4. ~Start /\ ~Stale /\ ~CheckOrUpdate /\ ~Forced
        BY DEF Checking, Start, Stale, CheckOrUpdate, Forced
    <2>5. Tick \/ End \/ Assign \/ Quit \/ Scan \/ ScanFails \/ Extend \/ Finish
            => valid' = valid
        BY DEF Tick, End, Assign, Quit, Scan, ScanFails, Extend, Finish, db
    <2> QED BY <2>1, <2>2, <2>3, <2>4, <2>5 DEF Next
<1>2. Init => CountInv
    BY CountInit
<1>3. CountInv /\ [Next]_vars => CountInv'
    BY CountNext
<1> QED BY <1>1, <1>2, <1>3, PTL DEF Spec, Growing

-----------------------------------------------------------------------------
(* The best certificate of a signer stays the best while it lasts.         *)
Later(sigs, by, t, i, j) ==
  IF sigs[j].by = by /\ (i = 0 \/ Supersedes(sigs[j], sigs[i], t)) THEN j ELSE i
Comparing(sigs, by, t, g) ==
  g = [s \in SUBSET DOMAIN [i \in DOMAIN sigs |-> i] |->
         IF s = {} THEN 0
         ELSE Later(sigs, by, t, g[s \ {Max(s)}], [i \in DOMAIN sigs |-> i][Max(s)])]
Choosing(sigs, by, t, g) ==
  /\ Chosen(sigs, by, t) = g[1 .. Len(sigs)]
  /\ g[1 .. 0] = 0
  /\ \A n \in Nat : n + 1 <= Len(sigs) =>
       g[1 .. n + 1] = Later(sigs, by, t, g[1 .. n], n + 1)

LEMMA ChosenComparing ==
  ASSUME NEW sigs \in Seq(Certificate), NEW by, NEW t
  PROVE  \E g : Choosing(sigs, by, t, g)
<1> DEFINE N == Len(sigs)
           X == 0 .. N
           F == [p \in X \X (1 .. N) |-> Later(sigs, by, t, p[1], p[2])]
           ids == [i \in DOMAIN sigs |-> i]
<1>1. N \in Nat /\ DOMAIN sigs = 1 .. N
    OBVIOUS
<1>2. DOMAIN ids = 1 .. N /\ \A i \in 1 .. N : ids[i] = i
    BY <1>1
<1>3. ASSUME NEW i \in X, NEW j \in 1 .. N PROVE Later(sigs, by, t, i, j) \in X
    BY <1>1 DEF Later
<1>4. F \in [X \X (1 .. N) -> X]
    <2> HIDE DEF N, X
    <2> QED BY <1>3
<1>5. \A i \in X, j \in 1 .. N : F[<<i, j>>] = Later(sigs, by, t, i, j)
    OBVIOUS
<1>6. PICK h \in [SUBSET (1 .. N) -> X] : Folded(N, 0, F, h)
    <2>1. 0 \in X
        BY <1>1
    <2> HIDE DEF N, X, F
    <2> QED BY <1>1, <1>4, <2>1, FoldedExists
<1>7. ASSUME NEW s \in SUBSET (1 .. N), s # {}
      PROVE  Max(s) \in 1 .. N /\ s \ {Max(s)} \in SUBSET (1 .. N)
    BY <1>1, <1>7, MaxIn
<1>8. \A s \in SUBSET (1 .. N) :
        h[s] = IF s = {} THEN 0 ELSE Later(sigs, by, t, h[s \ {Max(s)}], ids[Max(s)])
    <2> HIDE DEF N, X, F, ids
    <2> SUFFICES ASSUME NEW s \in SUBSET (1 .. N), s # {}
                 PROVE  h[s] = Later(sigs, by, t, h[s \ {Max(s)}], ids[Max(s)])
        BY <1>6 DEF Folded
    <2>1. h[s] = F[<<h[s \ {Max(s)}], Max(s)>>]
        BY <1>6 DEF Folded
    <2>2. h[s \ {Max(s)}] \in X /\ Max(s) \in 1 .. N
        BY <1>6, <1>7
    <2>3. ids[Max(s)] = Max(s)
        BY <1>2, <2>2
    <2> QED BY <1>5, <2>1, <2>2, <2>3
<1>9. \E g : Comparing(sigs, by, t, g)
    <2>1. h = [s \in SUBSET DOMAIN ids |->
                 IF s = {} THEN 0
                 ELSE Later(sigs, by, t, h[s \ {Max(s)}], ids[Max(s)])]
        <3> HIDE DEF N, X, F, ids
        <3> QED BY <1>2, <1>6, <1>8
    <2>2. Comparing(sigs, by, t, h)
        BY <2>1 DEF Comparing
    <2> QED BY <2>2
<1> DEFINE g == CHOOSE g : Comparing(sigs, by, t, g)
<1>10. Comparing(sigs, by, t, g)
    BY <1>9
<1>11. Chosen(sigs, by, t) = g[DOMAIN ids]
    BY DEF Chosen, FoldLeftDomain, FoldLeft, MapThenFoldSet, Comparing, Later
<1> HIDE DEF g
<1>12. \A s \in SUBSET (1 .. N) :
        g[s] = IF s = {} THEN 0 ELSE Later(sigs, by, t, g[s \ {Max(s)}], ids[Max(s)])
    <2>1. g = [s \in SUBSET DOMAIN ids |->
                 IF s = {} THEN 0
                 ELSE Later(sigs, by, t, g[s \ {Max(s)}], ids[Max(s)])]
        BY <1>10 DEF Comparing
    <2> HIDE DEF N, X, F, ids
    <2> QED BY <1>2, <2>1
<1> HIDE DEF N, X, F, ids
<1>13. g[1 .. 0] = 0
    <2>1. 1 .. 0 \in SUBSET (1 .. N) /\ 1 .. 0 = {}
        OBVIOUS
    <2> QED BY <1>12, <2>1
<1>14. ASSUME NEW n \in Nat, n + 1 <= N
       PROVE  g[1 .. n + 1] = Later(sigs, by, t, g[1 .. n], n + 1)
    <2>1. 1 .. n + 1 \in SUBSET (1 .. N) /\ n + 1 \in 1 .. N
        BY <1>1, <1>14
    <2>2. 1 .. n + 1 # {} /\ Max(1 .. n + 1) = n + 1 /\ (1 .. n + 1) \ {n + 1} = 1 .. n
        BY LastOfAll
    <2>3. g[1 .. n + 1] = Later(sigs, by, t, g[(1 .. n + 1) \ {Max(1 .. n + 1)}],
                                ids[Max(1 .. n + 1)])
        BY <1>12, <2>1, <2>2
    <2>4. ids[n + 1] = n + 1
        BY <1>2, <2>1
    <2> QED BY <2>2, <2>3, <2>4
<1>15. Choosing(sigs, by, t, g)
    BY <1>2, <1>11, <1>13, <1>14 DEF N, Choosing
<1> QED BY <1>15

LEMMA CertificateTypes ==
  ASSUME NEW sigs \in Seq(Certificate), NEW i \in DOMAIN sigs
  PROVE  /\ sigs[i].made \in Nat /\ sigs[i].ends \in Nat /\ i \in Nat
         /\ \A t : Lasting(sigs[i], t) \in BOOLEAN
<1>1. sigs[i] \in Certificate /\ i \in Nat
    OBVIOUS
<1>2. \A t : Lasting(sigs[i], t) \in BOOLEAN
    BY DEF Lasting
<1> QED BY <1>1, <1>2 DEF Certificate

(* The comparison in order leads to the best of the certificates seen.     *)
LEMMA BeatsOn ==
  ASSUME NEW sigs \in Seq(Certificate), NEW t,
         NEW i \in DOMAIN sigs, NEW j \in DOMAIN sigs
  PROVE  /\ Beats(sigs, i, i, t)
         /\ i <= j => Supersedes(sigs[j], sigs[i], t) \/ Beats(sigs, i, j, t)
         /\ i <= j /\ Supersedes(sigs[j], sigs[i], t) => Beats(sigs, j, i, t)
         /\ \A k \in DOMAIN sigs :
              Beats(sigs, i, j, t) /\ Beats(sigs, j, k, t) => Beats(sigs, i, k, t)
<1> DEFINE L(k) == Lasting(sigs[k], t)
           m(k) == sigs[k].made
<1>1. \A k \in DOMAIN sigs : L(k) \in BOOLEAN /\ m(k) \in Nat /\ k \in Nat
    BY CertificateTypes
<1>2. \A k, n : Beats(sigs, k, n, t) <=>
        \/ L(k) /\ ~L(n)
        \/ L(k) = L(n) /\ (m(k) > m(n) \/ (m(k) = m(n) /\ k >= n))
    BY DEF Beats
<1>3. Supersedes(sigs[j], sigs[i], t) <=>
        IF L(j) = L(i) THEN m(j) >= m(i) ELSE L(j)
    BY DEF Supersedes
<1> HIDE DEF L, m
<1>4. Beats(sigs, i, i, t)
    BY <1>1, <1>2
<1>5. i <= j => Supersedes(sigs[j], sigs[i], t) \/ Beats(sigs, i, j, t)
    BY <1>1, <1>2, <1>3
<1>6. i <= j /\ Supersedes(sigs[j], sigs[i], t) => Beats(sigs, j, i, t)
    BY <1>1, <1>2, <1>3
<1>7. ASSUME NEW k \in DOMAIN sigs, Beats(sigs, i, j, t), Beats(sigs, j, k, t)
      PROVE  Beats(sigs, i, k, t)
    BY <1>1, <1>2, <1>7
<1> QED BY <1>4, <1>5, <1>6, <1>7

LEMMA ChosenBeats ==
  ASSUME NEW sigs \in Seq(Certificate), NEW by, NEW t, Chosen(sigs, by, t) # 0
  PROVE  \A j \in DOMAIN sigs : sigs[j].by = by => Beats(sigs, Chosen(sigs, by, t), j, t)
<1>0. PICK g : Choosing(sigs, by, t, g)
    BY ChosenComparing
<1> DEFINE N == Len(sigs)
           Best(n, c) == /\ c = 0 \/ (c \in DOMAIN sigs /\ c <= n)
                         /\ \A j \in DOMAIN sigs : j <= n /\ sigs[j].by = by =>
                              c # 0 /\ Beats(sigs, c, j, t)
           T == {n \in Nat : n <= N => Best(n, g[1 .. n])}
<1>1. N \in Nat /\ DOMAIN sigs = 1 .. N
    OBVIOUS
<1>2. /\ Chosen(sigs, by, t) = g[1 .. N]
      /\ g[1 .. 0] = 0
      /\ \A n \in Nat : n + 1 <= N => g[1 .. n + 1] = Later(sigs, by, t, g[1 .. n], n + 1)
    BY <1>0 DEF Choosing
<1>3. 0 \in T
    <2>1. Best(0, 0)
        BY <1>1
    <2> HIDE DEF Best
    <2> QED BY <1>2, <2>1
<1>4. ASSUME NEW n \in Nat, n + 1 <= N, Best(n, g[1 .. n])
      PROVE  Best(n + 1, g[1 .. n + 1])
    <2> DEFINE c == g[1 .. n]
               d == g[1 .. n + 1]
               m == n + 1
    <2>1. d = Later(sigs, by, t, c, m)
        BY <1>2, <1>4
    <2>2. m \in DOMAIN sigs /\ n < m /\ \A j \in DOMAIN sigs : j <= m <=> j <= n \/ j = m
        BY <1>1, <1>4
    <2>3. /\ c = 0 \/ (c \in DOMAIN sigs /\ c <= n)
          /\ \A j \in DOMAIN sigs : j <= n /\ sigs[j].by = by =>
               c # 0 /\ Beats(sigs, c, j, t)
        BY <1>4
    <2>4. DOMAIN sigs \subseteq Nat \ {0}
        BY <1>1
    <2> HIDE DEF c, d, m, N
    <2>5. CASE sigs[m].by # by
        <3>1. d = c
            BY <2>1, <2>5 DEF Later
        <3>2. c = 0 \/ (c \in DOMAIN sigs /\ c <= m)
            BY <2>2, <2>3, <2>4
        <3>3. Best(m, d)
            BY <2>2, <2>3, <2>5, <3>1, <3>2
        <3> QED BY <3>3 DEF d, m
    <2>6. CASE sigs[m].by = by /\ c = 0
        <3>1. d = m
            BY <2>1, <2>6 DEF Later
        <3>2. Beats(sigs, m, m, t)
            BY <2>2, BeatsOn
        <3>3. Best(m, d)
            BY <2>2, <2>3, <2>4, <2>6, <3>1, <3>2
        <3> QED BY <3>3 DEF d, m
    <2>7. CASE sigs[m].by = by /\ c # 0 /\ Supersedes(sigs[m], sigs[c], t)
        <3>1. d = m
            BY <2>1, <2>7 DEF Later
        <3>2. c \in DOMAIN sigs /\ c <= m
            BY <2>2, <2>3, <2>4, <2>7
        <3>3. Beats(sigs, m, m, t) /\ Beats(sigs, m, c, t)
            BY <2>2, <2>7, <3>2, BeatsOn
        <3>4. \A j \in DOMAIN sigs : Beats(sigs, c, j, t) => Beats(sigs, m, j, t)
            BY <2>2, <3>2, <3>3, BeatsOn
        <3>5. Best(m, d)
            BY <2>2, <2>3, <2>4, <3>1, <3>3, <3>4
        <3> QED BY <3>5 DEF d, m
    <2>8. CASE sigs[m].by = by /\ c # 0 /\ ~Supersedes(sigs[m], sigs[c], t)
        <3>1. d = c
            BY <2>1, <2>8 DEF Later
        <3>2. c \in DOMAIN sigs /\ c <= m
            BY <2>2, <2>3, <2>4, <2>8
        <3>3. Beats(sigs, c, m, t)
            BY <2>2, <2>8, <3>2, BeatsOn
        <3>4. Best(m, d)
            BY <2>2, <2>3, <2>8, <3>1, <3>2, <3>3
        <3> QED BY <3>4 DEF d, m
    <2> QED BY <2>5, <2>6, <2>7, <2>8
<1>5. Best(N, g[1 .. N])
    <2> HIDE DEF Best
    <2>1. ASSUME NEW n \in T PROVE n + 1 \in T
        <3> HIDE DEF N
        <3> QED BY <1>1, <1>4
    <2> HIDE DEF T
    <2>2. T \in SUBSET Nat
        BY DEF T
    <2>3. N \in T
        BY <1>1, <1>3, <2>1, <2>2, Climb
    <2> QED BY <1>1, <2>3 DEF T
<1>6. \A j \in DOMAIN sigs : sigs[j].by = by => Beats(sigs, g[1 .. N], j, t)
    <2>1. \A j \in DOMAIN sigs : j <= N
        BY <1>1
    <2> HIDE DEF N
    <2> QED BY <1>5, <2>1
<1> HIDE DEF N
<1> QED BY <1>2, <1>6

(* The signers whose certificates count, as Certifiers defines it, for a   *)
(* web w.                                                                  *)
Good(sigs, i, t) ==
  /\ \A j \in DOMAIN sigs : sigs[j].by = sigs[i].by => Beats(sigs, i, j, t)
  /\ ~sigs[i].rev /\ Unexpired(sigs[i], t)
CertifiersOf(w, u, t) ==
  {w.sigs[u][i].by : i \in {j \in DOMAIN w.sigs[u] : Good(w.sigs[u], j, t)}}

LEMMA CertifiersIs == \A u, t : Certifiers(u, t) = CertifiersOf(web, u, t)
BY DEF Certifiers, CertifiersOf, Good

(* A certificate that was counted at a moment s counts at a later one too, *)
(* unless it has ended: others of its signer can only have ended as well.  *)
LEMMA BeatsLater ==
  ASSUME NEW sigs \in Seq(Certificate), NEW i \in DOMAIN sigs, NEW j \in DOMAIN sigs,
         NEW s \in Nat, NEW t \in Nat, s <= t, Unexpired(sigs[i], t),
         Beats(sigs, i, j, s)
  PROVE  Beats(sigs, i, j, t)
<1> DEFINE L(k, x) == Lasting(sigs[k], x)
           m(k) == sigs[k].made
<1>1. \A k \in DOMAIN sigs, x \in Nat : L(k, x) \in BOOLEAN /\ m(k) \in Nat /\ k \in Nat
    BY CertificateTypes
<1>2. \A x \in Nat : Beats(sigs, i, j, x) <=>
        \/ L(i, x) /\ ~L(j, x)
        \/ L(i, x) = L(j, x) /\ (m(i) > m(j) \/ (m(i) = m(j) /\ i >= j))
    BY DEF Beats
<1>3. sigs[i].ends \in Nat /\ sigs[j].ends \in Nat
    BY CertificateTypes
<1>4. Unexpired(sigs[i], s) /\ (Unexpired(sigs[j], t) => Unexpired(sigs[j], s))
    BY <1>3 DEF Unexpired
<1>5. (L(i, t) <=> L(i, s)) /\ (L(j, t) => L(j, s))
    BY <1>4 DEF Lasting
<1> HIDE DEF L, m
<1> QED BY <1>1, <1>2, <1>5

Unended(end, t) == end = 0 \/ t < end
LEMMA UsableCertifies ==
  ASSUME Webs, NEW u \in Uid, NEW signers, NEW s \in Nat, NEW t \in Nat, s <= t,
         NEW i \in Usable(u, signers, s), Unended(web.sigs[u][i].ends, t)
  PROVE  web.sigs[u][i].by \in CertifiersOf(web, u, t)
<1> DEFINE sigs == web.sigs[u]
           by == sigs[i].by
<1>1. sigs \in Seq(Certificate)
    BY DEF Webs
<1>2. i \in DOMAIN sigs /\ ~sigs[i].rev /\ i = Chosen(sigs, by, s)
    BY DEF Usable
<1>3. sigs[i].ends \in Nat /\ i # 0
    BY <1>1, <1>2, CertificateTypes
<1>4. Unexpired(sigs[i], t)
    BY <1>3 DEF Unexpired, Unended
<1>5. \A j \in DOMAIN sigs : sigs[j].by = by => Beats(sigs, i, j, s)
    <2> HIDE DEF sigs, by
    <2> QED BY <1>1, <1>2, <1>3, ChosenBeats
<1>6. \A j \in DOMAIN sigs : sigs[j].by = by => Beats(sigs, i, j, t)
    <2> HIDE DEF sigs, by
    <2> QED BY <1>1, <1>2, <1>4, <1>5, BeatsLater
<1>7. Good(sigs, i, t)
    BY <1>2, <1>4, <1>6 DEF Good
<1> QED BY <1>2, <1>7 DEF CertifiersOf

-----------------------------------------------------------------------------
(* A round adds to the counts of a user id no more than the number of its  *)
(* signers with that ownertrust, unless one of the own keys has signed.    *)
Voters(klist, u, t, trust) ==
  {web.sigs[u][i].by :
     i \in {j \in Weighed(klist, u, t) : klist[web.sigs[u][j].by].ot = trust}}

LEMMA CountAdds ==
  ASSUME NEW c \in Tallies, NEW trust, trust # Ultimate
  PROVE  /\ Count(c, trust).full = c.full + (IF trust = Fully THEN 1 ELSE 0)
         /\ Count(c, trust).marginal = c.marginal + (IF trust = Marginal THEN 1 ELSE 0)
<1>1. c.full \in Nat /\ c.marginal \in Nat
    BY DEF Tallies
<1>2. CASE trust = Fully
    BY <1>1, <1>2 DEF Count, Tallies, Ultimate, Fully, Marginal
<1>3. CASE trust = Marginal
    BY <1>1, <1>3 DEF Count, Tallies, Ultimate, Fully, Marginal
<1>4. CASE trust \notin {Fully, Marginal}
    BY <1>1, <1>4 DEF Count, Tallies
<1> QED BY <1>2, <1>3, <1>4

LEMMA CountsVoted ==
  ASSUME Webs, IsFiniteSet(Key), NEW klist, DOMAIN klist \in SUBSET Key,
         NEW u \in Uid, NEW t, Stored(u) \in Tallies,
         Voters(klist, u, t, Ultimate) = {}
  PROVE  LET c == Counts(klist, u, t)
         IN  /\ c.full <= Stored(u).full + Cardinality(Voters(klist, u, t, Fully))
             /\ c.marginal <= Stored(u).marginal + Cardinality(Voters(klist, u, t, Marginal))
<1>a. PICK g : Counting(klist, u, t, g)
    BY CountsTallying
<1> DEFINE N == Len(web.sigs[u])
           use == Weighed(klist, u, t)
           by(i) == web.sigs[u][i].by
           trust(i) == klist[by(i)].ot
           S(x, n) == {by(i) : i \in {j \in use : trust(j) = x /\ j <= n}}
           one(x, i) == IF i \in use /\ trust(i) = x THEN 1 ELSE 0
           Right(n, c) == /\ c \in Tallies
                          /\ c.full <= Stored(u).full + Cardinality(S(Fully, n))
                          /\ c.marginal <= Stored(u).marginal + Cardinality(S(Marginal, n))
<1>1. N \in Nat /\ DOMAIN web.sigs[u] = 1 .. N
    BY DEF Webs
<1>2. /\ Counts(klist, u, t) = g[1 .. N]
      /\ g[1 .. 0] = Stored(u)
      /\ \A n \in Nat : n + 1 <= N =>
           g[1 .. n + 1] = Tallied(klist, u, t, g[1 .. n], n + 1)
    BY <1>a DEF Counting
<1>3. /\ \A i \in use : i \in 1 .. N /\ by(i) \in DOMAIN klist
      /\ \A i, j \in use : by(i) = by(j) => i = j
    BY <1>1, SignersDistinct
<1>4. \A i \in use : trust(i) # Ultimate
    BY DEF Voters
<1>5. ASSUME NEW x, NEW n \in Nat
      PROVE  IsFiniteSet(S(x, n)) /\ Cardinality(S(x, n)) \in Nat
    <2>1. S(x, n) \in SUBSET Key
        BY <1>3
    <2> HIDE DEF S
    <2> QED BY <2>1, Sizes
<1>6. ASSUME NEW x, NEW n \in Nat
      PROVE  Cardinality(S(x, n + 1)) = Cardinality(S(x, n)) + one(x, n + 1)
    <2>1. CASE n + 1 \in use /\ trust(n + 1) = x
        <3>1. {j \in use : trust(j) = x /\ j <= n + 1}
                = {j \in use : trust(j) = x /\ j <= n} \cup {n + 1}
            <4> HIDE DEF use, trust
            <4> QED BY <1>3, <2>1
        <3>2. S(x, n + 1) = S(x, n) \cup {by(n + 1)}
            <4> HIDE DEF use, by, trust
            <4> QED BY <3>1
        <3>3. by(n + 1) \notin S(x, n)
            <4> SUFFICES ASSUME NEW i \in use, i <= n, by(i) = by(n + 1) PROVE FALSE
                OBVIOUS
            <4>1. i = n + 1
                BY <1>3, <2>1
            <4> QED BY <4>1
        <3> HIDE DEF S, by, use, trust
        <3>4. IsFiniteSet(S(x, n))
            BY <1>5
        <3> QED BY <2>1, <3>2, <3>3, <3>4, FS_AddElement
    <2>2. CASE ~(n + 1 \in use /\ trust(n + 1) = x)
        <3>1. {j \in use : trust(j) = x /\ j <= n + 1} = {j \in use : trust(j) = x /\ j <= n}
            <4> HIDE DEF use, trust
            <4> QED BY <1>3, <2>2
        <3>2. S(x, n + 1) = S(x, n)
            <4> HIDE DEF use, by, trust
            <4> QED BY <3>1
        <3>3. Cardinality(S(x, n)) \in Nat
            BY <1>5
        <3> HIDE DEF S, use, trust
        <3> QED BY <2>2, <3>2, <3>3
    <2> QED BY <2>1, <2>2
<1>7. Right(0, g[1 .. 0])
    <2>1. Cardinality(S(Fully, 0)) \in Nat /\ Cardinality(S(Marginal, 0)) \in Nat
        <3> HIDE DEF S
        <3> QED BY <1>5
    <2> HIDE DEF S
    <2> QED BY <1>2, <2>1 DEF Tallies
<1>8. ASSUME NEW n \in Nat, n + 1 <= N, Right(n, g[1 .. n])
      PROVE  Right(n + 1, g[1 .. n + 1])
    <2> DEFINE c == g[1 .. n]
               d == g[1 .. n + 1]
    <2>1. d = Tallied(klist, u, t, c, n + 1)
        BY <1>2, <1>8
    <2>2. \A x : Cardinality(S(x, n)) \in Nat
                 /\ Cardinality(S(x, n + 1)) = Cardinality(S(x, n)) + one(x, n + 1)
        <3> HIDE DEF S, one
        <3> QED BY <1>5, <1>6
    <2>3. c \in Tallies /\ c.full \in Nat /\ c.marginal \in Nat
          /\ Stored(u).full \in Nat /\ Stored(u).marginal \in Nat
        BY <1>8 DEF Tallies
    <2>4. d \in Tallies /\ d.full = c.full + one(Fully, n + 1)
          /\ d.marginal = c.marginal + one(Marginal, n + 1)
        <3>1. CASE n + 1 \notin use
            <4>1. d = c
                BY <2>1, <3>1 DEF Tallied
            <4> HIDE DEF c, d, use, trust
            <4> QED BY <2>3, <3>1, <4>1
        <3>2. CASE n + 1 \in use
            <4>1. d = Count(c, trust(n + 1))
                BY <2>1, <3>2 DEF Tallied
            <4>2. trust(n + 1) # Ultimate
                BY <1>4, <3>2
            <4> HIDE DEF c, d, use, trust
            <4>3. d \in Tallies
                BY <2>3, <4>1, CountTallies
            <4> QED BY <2>3, <3>2, <4>1, <4>2, <4>3, CountAdds
        <3> QED BY <3>1, <3>2
    <2>5. /\ c.full <= Stored(u).full + Cardinality(S(Fully, n))
          /\ c.marginal <= Stored(u).marginal + Cardinality(S(Marginal, n))
        BY <1>8
    <2>6. one(Fully, n + 1) \in Nat /\ one(Marginal, n + 1) \in Nat
        <3> HIDE DEF use, trust
        <3> QED OBVIOUS
    <2> HIDE DEF S, c, d, one
    <2>7. Right(n + 1, d)
        BY <2>2, <2>3, <2>4, <2>5, <2>6
    <2> QED BY <2>7 DEF d
<1>9. Right(N, g[1 .. N])
    <2> DEFINE T == {n \in Nat : n <= N => Right(n, g[1 .. n])}
    <2> HIDE DEF Right
    <2>1. 0 \in T
        BY <1>7
    <2>2. ASSUME NEW n \in T PROVE n + 1 \in T
        <3> HIDE DEF N
        <3> QED BY <1>1, <1>8
    <2> HIDE DEF T
    <2>3. T \in SUBSET Nat
        BY DEF T
    <2>4. N \in T
        BY <1>1, <2>1, <2>2, <2>3, Climb
    <2> QED BY <1>1, <2>4 DEF T
<1>10. ASSUME NEW x PROVE S(x, N) = Voters(klist, u, t, x)
    <2>1. {j \in use : trust(j) = x /\ j <= N} = {j \in use : trust(j) = x}
        <3>1. \A j \in use : j <= N
            BY <1>1, <1>3
        <3> HIDE DEF use, trust, N
        <3> QED BY <3>1
    <2>2. S(x, N) = {by(i) : i \in {j \in use : trust(j) = x}}
        <3> HIDE DEF by, use, trust, N
        <3> QED BY <2>1
    <2> QED BY <2>2 DEF Voters
<1> DEFINE C == Counts(klist, u, t)
<1>11. Right(N, C)
    BY <1>2, <1>9
<1> HIDE DEF S, N, C
<1>12. /\ C.full <= Stored(u).full + Cardinality(Voters(klist, u, t, Fully))
       /\ C.marginal <= Stored(u).marginal + Cardinality(Voters(klist, u, t, Marginal))
    BY <1>10, <1>11
<1> QED BY <1>12 DEF C

-----------------------------------------------------------------------------
(* Validity as a function of the web w and the ownertrust o, which never   *)
(* loses when ownertrust is given to keys that had none.                   *)
RatedBy(o, K, value) == {k \in K : o[k] = value}
EnoughBy(o, K) ==
  \/ RatedBy(o, K, Ultimate) # {}
  \/ Cardinality(RatedBy(o, K, Fully)) >= Completes
  \/ Cardinality(RatedBy(o, K, Marginal)) >= Marginals
LiveAt(w, u, t) == w.uidends[u] = 0 \/ w.uidends[u] > t
ExpiredAt(w, k, t) == w.keyends[k] # 0 /\ w.keyends[k] < t
Introduced(w, o, t, K) ==
  {k \in Key : /\ ~ExpiredAt(w, k, t)
               /\ \E u \in Uids(k) :
                    LiveAt(w, u, t) /\ EnoughBy(o, CertifiersOf(w, u, t) \cap K)}
LevelsOf(w, o, t, N, f) ==
  f = [d \in 0 .. N |->
         IF d = 0 THEN RatedBy(o, Key, Ultimate)
         ELSE f[d - 1] \cup Introduced(w, o, t, f[d - 1])]
WithinOf(w, o, t) == CHOOSE f : LevelsOf(w, o, t, MaxDepth - 1, f)
IntroducersOf(w, o, t) == WithinOf(w, o, t)[MaxDepth - 1]
ValidityOf(w, o, t, u) ==
  LET K == CertifiersOf(w, u, t) \cap IntroducersOf(w, o, t)
  IN  IF o[KeyOf(u)] = Ultimate THEN Ultimate
      ELSE IF ExpiredAt(w, KeyOf(u), t) \/ ~LiveAt(w, u, t) \/ K = {} THEN Unknown
      ELSE IF EnoughBy(o, K) THEN Fully
      ELSE IF RatedBy(o, K, Fully) \cup RatedBy(o, K, Marginal) # {} THEN Marginal
      ELSE Undefined

LEMMA IntroducersIs ==
  ASSUME NEW t
  PROVE  Introducers(t) = IntroducersOf(web, ot, t)
BY DEF Introducers, IntroducersOf, WithinOf, LevelsOf, Introduced, EnoughBy,
   Enough, RatedBy, Rated, LiveAt, Live, ExpiredAt, Expired, Certifiers, CertifiersOf, Good

LEMMA ValidIs ==
  ASSUME NEW t, NEW u \in Uid
  PROVE  Valid(t)[u] = ValidityOf(web, ot, t, u)
<1>1. Valid(t)[u] = Validity(t, Introducers(t), u)
    BY DEF Valid
<1>2. Certifiers(u, t) = CertifiersOf(web, u, t) /\ Introducers(t) = IntroducersOf(web, ot, t)
    BY CertifiersIs, IntroducersIs
<1>3. Validity(t, IntroducersOf(web, ot, t), u) = ValidityOf(web, ot, t, u)
    BY <1>2 DEF Validity, ValidityOf, EnoughBy, Enough, RatedBy, Rated, LiveAt, Live,
       ExpiredAt, Expired
<1> QED BY <1>1, <1>2, <1>3

Weighty == {Marginal, Fully, Ultimate}
Grown(o, p) == \A k \in Key, value \in Weighty : o[k] = value => p[k] = value

LEMMA RatedMore ==
  ASSUME IsFiniteSet(Key), NEW L \in SUBSET Key, NEW K \in SUBSET L,
         NEW o, NEW p, Grown(o, p), NEW value \in Weighty
  PROVE  /\ RatedBy(o, K, value) \subseteq RatedBy(p, L, value)
         /\ Cardinality(RatedBy(o, K, value)) \in Nat
         /\ Cardinality(RatedBy(p, L, value)) \in Nat
         /\ Cardinality(RatedBy(o, K, value)) <= Cardinality(RatedBy(p, L, value))
<1> DEFINE A == RatedBy(o, K, value)
           B == RatedBy(p, L, value)
<1>1. A \subseteq B /\ B \in SUBSET Key /\ A \in SUBSET Key
    BY DEF RatedBy, Grown
<1> HIDE DEF A, B
<1>2. IsFiniteSet(B) /\ Cardinality(A) \in Nat /\ Cardinality(B) \in Nat
    BY <1>1, Sizes
<1>3. Cardinality(A) <= Cardinality(B)
    BY <1>1, <1>2, FS_Subset
<1> QED BY <1>1, <1>2, <1>3 DEF A, B

LEMMA EnoughMore ==
  ASSUME IsFiniteSet(Key), NEW L \in SUBSET Key, NEW K \in SUBSET L,
         NEW o, NEW p, Grown(o, p), EnoughBy(o, K)
  PROVE  EnoughBy(p, L)
<1>1. Completes \in Nat /\ Marginals \in Nat
    BY NeededAssumption
<1>2. CASE RatedBy(o, K, Ultimate) # {}
    <2>1. Ultimate \in Weighty
        BY DEF Weighty
    <2>2. RatedBy(o, K, Ultimate) \subseteq RatedBy(p, L, Ultimate)
        BY <2>1, RatedMore
    <2> QED BY <1>2, <2>2 DEF EnoughBy
<1>3. CASE Cardinality(RatedBy(o, K, Fully)) >= Completes
    <2>1. Fully \in Weighty
        BY DEF Weighty
    <2> DEFINE a == Cardinality(RatedBy(o, K, Fully))
               b == Cardinality(RatedBy(p, L, Fully))
    <2>2. a \in Nat /\ b \in Nat /\ a <= b
        BY <2>1, RatedMore
    <2>3. b >= Completes
        <3> HIDE DEF a, b
        <3>1. a >= Completes
            BY <1>3 DEF a
        <3> QED BY <1>1, <2>2, <3>1
    <2> QED BY <2>3 DEF EnoughBy
<1>4. CASE Cardinality(RatedBy(o, K, Marginal)) >= Marginals
    <2>1. Marginal \in Weighty
        BY DEF Weighty
    <2> DEFINE a == Cardinality(RatedBy(o, K, Marginal))
               b == Cardinality(RatedBy(p, L, Marginal))
    <2>2. a \in Nat /\ b \in Nat /\ a <= b
        BY <2>1, RatedMore
    <2>3. b >= Marginals
        <3> HIDE DEF a, b
        <3>1. a >= Marginals
            BY <1>4 DEF a
        <3> QED BY <1>1, <2>2, <3>1
    <2> QED BY <2>3 DEF EnoughBy
<1> QED BY <1>2, <1>3, <1>4 DEF EnoughBy

-----------------------------------------------------------------------------
(* Counts that signers in K account for.                                   *)
Backed(o, c, K) ==
  \/ RatedBy(o, K, Ultimate) # {}
  \/ /\ c.full <= Cardinality(RatedBy(o, K, Fully))
     /\ c.marginal <= Cardinality(RatedBy(o, K, Marginal))

LEMMA BackedMore ==
  ASSUME IsFiniteSet(Key), NEW L \in SUBSET Key, NEW K \in SUBSET L,
         NEW o, NEW p, Grown(o, p), NEW c, c.full \in Nat, c.marginal \in Nat,
         Backed(o, c, K)
  PROVE  Backed(p, c, L)
<1>1. Fully \in Weighty /\ Marginal \in Weighty /\ Ultimate \in Weighty
    BY DEF Weighty
<1>2. CASE RatedBy(o, K, Ultimate) # {}
    <2>1. RatedBy(o, K, Ultimate) \subseteq RatedBy(p, L, Ultimate)
        BY <1>1, RatedMore
    <2> QED BY <1>2, <2>1 DEF Backed
<1>3. CASE RatedBy(o, K, Ultimate) = {}
    <2> DEFINE a == Cardinality(RatedBy(o, K, Fully))
               b == Cardinality(RatedBy(p, L, Fully))
               x == Cardinality(RatedBy(o, K, Marginal))
               y == Cardinality(RatedBy(p, L, Marginal))
    <2>1. a \in Nat /\ b \in Nat /\ a <= b
        BY <1>1, RatedMore
    <2>2. x \in Nat /\ y \in Nat /\ x <= y
        BY <1>1, RatedMore
    <2>3. c.full <= a /\ c.marginal <= x
        BY <1>3 DEF Backed
    <2>4. c.full <= b /\ c.marginal <= y
        <3> HIDE DEF a, b, x, y
        <3> QED BY <2>1, <2>2, <2>3
    <2> QED BY <2>4 DEF Backed
<1> QED BY <1>2, <1>3

(* The status that such counts give is no more than what the signers do.   *)
LEMMA BackedStatus ==
  ASSUME IsFiniteSet(Key), NEW K \in SUBSET Key, NEW o,
         NEW c, c.full \in Nat, c.marginal \in Nat, Backed(o, c, K)
  PROVE  /\ Status(c) \in {Undefined, Marginal, Fully}
         /\ Status(c) = Fully => EnoughBy(o, K)
         /\ Status(c) = Marginal =>
              EnoughBy(o, K) \/ RatedBy(o, K, Fully) \cup RatedBy(o, K, Marginal) # {}
<1>1. Completes \in Nat \ {0} /\ Marginals \in Nat \ {0}
    BY NeededAssumption
<1>2. Status(c) \in {Undefined, Marginal, Fully}
    BY DEF Status
<1>3. /\ Status(c) = Fully => c.full >= Completes \/ c.marginal >= Marginals
      /\ Status(c) = Marginal => c.full > 0 \/ c.marginal > 0
    BY DEF Status, Undefined, Marginal, Fully
<1>4. CASE RatedBy(o, K, Ultimate) # {}
    BY <1>2, <1>4 DEF EnoughBy
<1>5. CASE RatedBy(o, K, Ultimate) = {}
    <2> DEFINE A == RatedBy(o, K, Fully)
               B == RatedBy(o, K, Marginal)
    <2>1. A \in SUBSET Key /\ B \in SUBSET Key
        BY DEF RatedBy
    <2>2. c.full <= Cardinality(A) /\ c.marginal <= Cardinality(B)
        BY <1>5 DEF Backed
    <2>3. EnoughBy(o, K) <=> Cardinality(A) >= Completes \/ Cardinality(B) >= Marginals
        BY <1>5 DEF EnoughBy
    <2> HIDE DEF A, B
    <2>4. Cardinality(A) \in Nat /\ Cardinality(B) \in Nat
        BY <2>1, Sizes
    <2>5. (A = {} => Cardinality(A) = 0) /\ (B = {} => Cardinality(B) = 0)
        BY FS_EmptySet
    <2>6. Status(c) = Fully => EnoughBy(o, K)
        BY <1>1, <1>3, <2>2, <2>3, <2>4
    <2>7. Status(c) = Marginal => A \cup B # {}
        <3> SUFFICES ASSUME A = {}, B = {} PROVE Status(c) # Marginal
            OBVIOUS
        <3>1. c.full <= 0 /\ c.marginal <= 0
            BY <2>2, <2>5
        <3> QED BY <1>3, <3>1
    <2> QED BY <1>2, <2>6, <2>7 DEF A, B
<1> QED BY <1>4, <1>5

-----------------------------------------------------------------------------
(* The keys within d links of the own ones.                                *)
LEMMA LevelsExist ==
  ASSUME NEW w, NEW o, NEW t, NEW N \in Nat
  PROVE  \E f \in [0 .. N -> SUBSET Key] : LevelsOf(w, o, t, N, f)
<1> DEFINE base == RatedBy(o, Key, Ultimate)
           More(K) == K \cup Introduced(w, o, t, K)
           Is(i, f) == f = [d \in 0 .. i |-> IF d = 0 THEN base ELSE More(f[d - 1])]
           T == {i \in Nat : \E f \in [0 .. i -> SUBSET Key] : Is(i, f)}
<1>0. base \in SUBSET Key /\ \A K \in SUBSET Key : More(K) \in SUBSET Key
    BY DEF RatedBy, Introduced
<1> HIDE DEF base, More
<1>1. 0 \in T
    <2> DEFINE f == [d \in 0 .. 0 |-> base]
    <2>1. f \in [0 .. 0 -> SUBSET Key]
        BY <1>0
    <2>2. f = [d \in 0 .. 0 |-> IF d = 0 THEN base ELSE More(f[d - 1])]
        OBVIOUS
    <2> HIDE DEF f
    <2>3. Is(0, f)
        BY <2>2
    <2> QED BY <2>1, <2>3
<1>2. ASSUME NEW i \in T PROVE i + 1 \in T
    <2>1. PICK f \in [0 .. i -> SUBSET Key] : Is(i, f)
        OBVIOUS
    <2>2. i \in Nat /\ \A d \in 0 .. i : f[d] = IF d = 0 THEN base ELSE More(f[d - 1])
        BY <2>1
    <2> DEFINE g == [d \in 0 .. i + 1 |-> IF d <= i THEN f[d] ELSE More(f[i])]
    <2>3. f[i] \in SUBSET Key /\ More(f[i]) \in SUBSET Key
        BY <1>0, <2>2
    <2>4. g \in [0 .. i + 1 -> SUBSET Key]
        BY <2>2, <2>3
    <2>5. \A d \in 0 .. i + 1 : g[d] = IF d <= i THEN f[d] ELSE More(f[i])
        OBVIOUS
    <2> HIDE DEF g
    <2>6. ASSUME NEW d \in 0 .. i + 1
          PROVE  g[d] = IF d = 0 THEN base ELSE More(g[d - 1])
        <3>1. CASE d = 0
            BY <2>2, <2>5, <3>1
        <3>2. CASE d # 0 /\ d <= i
            <4>1. d - 1 \in 0 .. i + 1 /\ d - 1 <= i /\ d \in 0 .. i
                BY <2>2, <3>2
            <4>2. g[d] = f[d] /\ g[d - 1] = f[d - 1]
                BY <2>5, <3>2, <4>1
            <4> QED BY <2>2, <3>2, <4>1, <4>2
        <3>3. CASE d = i + 1
            <4>1. d # 0 /\ ~(d <= i) /\ d - 1 = i /\ i \in 0 .. i + 1 /\ i <= i
                BY <2>2, <3>3
            <4>2. g[d] = More(f[i]) /\ g[i] = f[i]
                BY <2>5, <4>1
            <4> QED BY <4>1, <4>2
        <3> QED BY <2>2, <3>1, <3>2, <3>3
    <2>7. Is(i + 1, g)
        BY <2>4, <2>6
    <2> QED BY <2>2, <2>4, <2>7
<1>3. N \in T
    <2> HIDE DEF T
    <2>1. T \in SUBSET Nat
        BY DEF T
    <2> QED BY <1>1, <1>2, <2>1, Climb
<1>4. PICK f \in [0 .. N -> SUBSET Key] : Is(N, f)
    BY <1>3
<1>5. LevelsOf(w, o, t, N, f)
    BY <1>4 DEF LevelsOf, base, More
<1> QED BY <1>5

LEMMA WithinFacts ==
  ASSUME NEW w, NEW o, NEW t
  PROVE  /\ MaxDepth - 1 \in Nat
         /\ \A d \in 0 .. MaxDepth - 1 : WithinOf(w, o, t)[d] \in SUBSET Key
         /\ WithinOf(w, o, t)[0] = RatedBy(o, Key, Ultimate)
         /\ \A d \in Nat : d + 1 \in 0 .. MaxDepth - 1 =>
              WithinOf(w, o, t)[d + 1] =
                WithinOf(w, o, t)[d] \cup Introduced(w, o, t, WithinOf(w, o, t)[d])
<1> DEFINE N == MaxDepth - 1
           f == WithinOf(w, o, t)
<1>1. N \in Nat
    BY NeededAssumption
<1>2. \E g : LevelsOf(w, o, t, N, g)
    <2> HIDE DEF N
    <2> QED BY <1>1, LevelsExist
<1>3. LevelsOf(w, o, t, N, f)
    BY <1>2 DEF WithinOf
<1> HIDE DEF f, N
<1>4. \A d \in 0 .. N : f[d] = IF d = 0 THEN RatedBy(o, Key, Ultimate)
                               ELSE f[d - 1] \cup Introduced(w, o, t, f[d - 1])
    BY <1>3 DEF LevelsOf
<1>5. f[0] = RatedBy(o, Key, Ultimate)
    <2>1. 0 \in 0 .. N
        BY <1>1
    <2> QED BY <1>4, <2>1
<1>6. ASSUME NEW d \in Nat, d + 1 \in 0 .. N
      PROVE  f[d + 1] = f[d] \cup Introduced(w, o, t, f[d])
    <2>1. d + 1 # 0 /\ (d + 1) - 1 = d
        OBVIOUS
    <2>2. f[d + 1] = f[(d + 1) - 1] \cup Introduced(w, o, t, f[(d + 1) - 1])
        BY <1>4, <1>6, <2>1
    <2> QED BY <2>1, <2>2
<1> DEFINE T == {d \in Nat : d <= N => f[d] \in SUBSET Key}
<1>7. 0 \in T
    BY <1>5 DEF RatedBy
<1>8. ASSUME NEW d \in T PROVE d + 1 \in T
    <2> SUFFICES ASSUME d + 1 <= N PROVE f[d + 1] \in SUBSET Key
        OBVIOUS
    <2>1. d \in Nat /\ d + 1 \in 0 .. N /\ f[d] \in SUBSET Key
        BY <1>1
    <2>2. Introduced(w, o, t, f[d]) \in SUBSET Key
        BY DEF Introduced
    <2> QED BY <1>6, <2>1, <2>2
<1>9. Nat \subseteq T
    <2> HIDE DEF T
    <2>1. T \in SUBSET Nat
        BY DEF T
    <2> QED BY <1>7, <1>8, <2>1, Climb
<1>10. \A d \in 0 .. N : f[d] \in SUBSET Key
    BY <1>1, <1>9
<1> QED BY <1>1, <1>5, <1>6, <1>10 DEF f, N

(* More ownertrust introduces no fewer keys.                               *)
LEMMA IntroducedMore ==
  ASSUME IsFiniteSet(Key), NEW w, NEW o, NEW p, NEW t, Grown(o, p),
         NEW L \in SUBSET Key, NEW K \in SUBSET L
  PROVE  Introduced(w, o, t, K) \subseteq Introduced(w, p, t, L)
<1> SUFFICES ASSUME NEW k \in Introduced(w, o, t, K) PROVE k \in Introduced(w, p, t, L)
    OBVIOUS
<1>1. PICK u \in Uids(k) : LiveAt(w, u, t) /\ EnoughBy(o, CertifiersOf(w, u, t) \cap K)
    BY DEF Introduced
<1>2. k \in Key /\ ~ExpiredAt(w, k, t)
    BY DEF Introduced
<1> DEFINE A == CertifiersOf(w, u, t) \cap K
           B == CertifiersOf(w, u, t) \cap L
<1>3. B \in SUBSET Key /\ A \in SUBSET B /\ EnoughBy(o, A)
    BY <1>1
<1> HIDE DEF A, B
<1>4. EnoughBy(p, B)
    BY <1>3, EnoughMore
<1> QED BY <1>1, <1>2, <1>4 DEF B, Introduced

LEMMA WithinMore ==
  ASSUME IsFiniteSet(Key), NEW w, NEW o, NEW p, NEW t, Grown(o, p)
  PROVE  \A d \in 0 .. MaxDepth - 1 : WithinOf(w, o, t)[d] \subseteq WithinOf(w, p, t)[d]
<1> DEFINE N == MaxDepth - 1
           f == WithinOf(w, o, t)
           g == WithinOf(w, p, t)
           T == {d \in Nat : d <= N => f[d] \subseteq g[d]}
<1>1. /\ N \in Nat /\ \A d \in 0 .. N : f[d] \in SUBSET Key /\ g[d] \in SUBSET Key
      /\ f[0] = RatedBy(o, Key, Ultimate) /\ g[0] = RatedBy(p, Key, Ultimate)
      /\ \A d \in Nat : d + 1 \in 0 .. N =>
           /\ f[d + 1] = f[d] \cup Introduced(w, o, t, f[d])
           /\ g[d + 1] = g[d] \cup Introduced(w, p, t, g[d])
    BY WithinFacts
<1>2. 0 \in T
    <2>1. RatedBy(o, Key, Ultimate) \subseteq RatedBy(p, Key, Ultimate)
        BY DEF RatedBy, Grown, Weighty
    <2> HIDE DEF f, g
    <2> QED BY <1>1, <2>1
<1>3. ASSUME NEW d \in T PROVE d + 1 \in T
    <2> SUFFICES ASSUME d + 1 <= N PROVE f[d + 1] \subseteq g[d + 1]
        OBVIOUS
    <2> HIDE DEF f, g
    <2>1. d \in Nat /\ d \in 0 .. N /\ d + 1 \in 0 .. N /\ f[d] \subseteq g[d]
        BY <1>1
    <2>2. Introduced(w, o, t, f[d]) \subseteq Introduced(w, p, t, g[d])
        BY <1>1, <2>1, IntroducedMore
    <2> QED BY <1>1, <2>1, <2>2
<1>4. Nat \subseteq T
    <2> HIDE DEF T
    <2>1. T \in SUBSET Nat
        BY DEF T
    <2> QED BY <1>2, <1>3, <2>1, Climb
<1> HIDE DEF f, g
<1>5. \A d \in 0 .. N : f[d] \subseteq g[d]
    BY <1>1, <1>4
<1> QED BY <1>5 DEF f, g

LEMMA WithinRises ==
  ASSUME NEW w, NEW o, NEW t, NEW d \in 0 .. MaxDepth - 1
  PROVE  WithinOf(w, o, t)[d] \subseteq IntroducersOf(w, o, t)
<1> DEFINE N == MaxDepth - 1
           f == WithinOf(w, o, t)
           T == {n \in Nat : d + n <= N => f[d] \subseteq f[d + n]}
<1>1. N \in Nat /\ \A n \in Nat : n + 1 \in 0 .. N => f[n] \subseteq f[n + 1]
    BY WithinFacts
<1> HIDE DEF f
<1>2. 0 \in T
    BY <1>1
<1>3. ASSUME NEW n \in T PROVE n + 1 \in T
    <2> SUFFICES ASSUME d + (n + 1) <= N PROVE f[d] \subseteq f[d + (n + 1)]
        OBVIOUS
    <2>1. n \in Nat /\ d + n \in Nat /\ d + n <= N /\ (d + n) + 1 \in 0 .. N
          /\ (d + n) + 1 = d + (n + 1)
        BY <1>1
    <2>2. f[d] \subseteq f[d + n]
        BY <2>1
    <2>3. f[d + n] \subseteq f[(d + n) + 1]
        BY <1>1, <2>1
    <2> QED BY <2>1, <2>2, <2>3
<1>4. N - d \in T
    <2> HIDE DEF T
    <2>1. T \in SUBSET Nat
        BY DEF T
    <2>2. Nat \subseteq T
        BY <1>2, <1>3, <2>1, Climb
    <2>3. N - d \in Nat
        BY <1>1
    <2> QED BY <2>2, <2>3
<1>5. d + (N - d) = N /\ N <= N
    BY <1>1
<1>6. f[d] \subseteq f[N]
    BY <1>4, <1>5
<1> QED BY <1>6 DEF f, IntroducersOf

LEMMA IntroducersMore ==
  ASSUME IsFiniteSet(Key), NEW w, NEW o, NEW p, NEW t, Grown(o, p)
  PROVE  /\ IntroducersOf(w, p, t) \in SUBSET Key
         /\ IntroducersOf(w, o, t) \subseteq IntroducersOf(w, p, t)
<1>1. MaxDepth - 1 \in 0 .. MaxDepth - 1
    BY NeededAssumption
<1>2. WithinOf(w, p, t)[MaxDepth - 1] \in SUBSET Key
    BY <1>1, WithinFacts
<1>3. WithinOf(w, o, t)[MaxDepth - 1] \subseteq WithinOf(w, p, t)[MaxDepth - 1]
    BY <1>1, WithinMore
<1> QED BY <1>2, <1>3 DEF IntroducersOf

-----------------------------------------------------------------------------
(* What a check has found so far holds at every moment up to the one at    *)
(* which the next check will be due.                                       *)
Endures(t) == t \in Nat /\ t >= now /\ Unended(run.expire, t)
Votes(u, t, K) == CertifiersOf(web, u, t) \cap K
SignedBy(u, t, K) ==
  LiveAt(web, u, t) /\ ~ExpiredAt(web, KeyOf(u), t) /\ Votes(u, t, K) # {}
Bounded(t) == \A u \in Uid : valid[u].value <= ValidityOf(web, ot, t, u)

RoundTimes ==
  Checking => run.start <= now /\ (run.expire = 0 \/ run.start <= run.expire)
Ungranted ==
  /\ pc \in {"assign", "scan"} => \A k \in DOMAIN run.klist : run.klist[k].value = 0
  /\ pc = "store" => \A k \in DOMAIN run.found : run.found[k].pk.value = 0
RatingsRead ==
  pc = "scan" => \A k \in DOMAIN run.klist :
    run.klist[k].ot \in Weighty => ot[k] = run.klist[k].ot
UsedWithin ==
  InRounds => \A t : Endures(t) => run.used \subseteq WithinOf(web, ot, t)[run.depth]
RecordsBacked ==
  InRounds => \A t, u : u \in Uid /\ Endures(t) =>
    /\ Backed(ot, valid[u], Votes(u, t, Counted))
    /\ valid[u].value = 0 \/ KeyOf(u) \in utk \/ SignedBy(u, t, Counted)
ResultsBacked ==
  pc = "store" => \A k \in DOMAIN run.found : \A u \in DOMAIN run.found[k].counts :
    /\ u \in Uids(k)
    /\ \A t : Endures(t) => /\ Backed(ot, run.found[k].counts[u], Votes(u, t, run.used))
                            /\ SignedBy(u, t, run.used)
FinishBounded == pc = "finish" => \A t : Endures(t) => Bounded(t)
DoneBounded ==
  ~Checking /\ ~cut =>
    \A t : t \in Nat /\ t >= now /\ Unended(nextcheck, t) => Bounded(t)
RoundsSound == RoundTimes /\ Ungranted /\ RatingsRead /\ UsedWithin
               /\ RecordsBacked /\ ResultsBacked /\ FinishBounded
BoundInv == CountInv /\ TrustInv /\ (Plain => RoundsSound /\ DoneBounded)

LEMMA RecordFields ==
  ASSUME Types, NEW u \in Uid
  PROVE  valid[u].full \in Nat /\ valid[u].marginal \in Nat /\ valid[u].value \in 0 .. Ultimate
BY WidthAssumption, NeededAssumption DEF Types, Records, Ultimate

LEMMA ValidityValue ==
  ASSUME NEW w, NEW o, NEW t, NEW u
  PROVE  ValidityOf(w, o, t, u) \in 0 .. Ultimate
BY DEF ValidityOf, Unknown, Undefined, Marginal, Fully, Ultimate

(* What ends at none of the moments of a set goes on until the soonest.    *)
LEMMA SoonestFacts ==
  ASSUME NEW S \in SUBSET Nat
  PROVE  /\ Soonest(S) \in S \cup {0}
         /\ \A t \in Nat : Unended(Soonest(S), t) => \A x \in S : Unended(x, t)
<1> DEFINE ends == S \ {0}
<1>1. CASE ends = {}
    BY <1>1 DEF Soonest, Unended
<1>2. CASE ends # {}
    <2>1. \E x \in ends : \A y \in ends : x <= y
        BY <1>2, Least
    <2>2. Soonest(S) \in ends /\ \A y \in ends : Soonest(S) <= y
        BY <1>2, <2>1 DEF Soonest
    <2> DEFINE e == Soonest(S)
    <2>3. e \in S /\ e \in Nat /\ e # 0 /\ \A y \in S : y = 0 \/ e <= y
        BY <2>2
    <2> HIDE DEF e
    <2>4. \A t \in Nat : Unended(e, t) => \A x \in S : Unended(x, t)
        BY <2>3 DEF Unended
    <2> QED BY <2>3, <2>4 DEF e
<1> QED BY <1>1, <1>2

LEMMA GrownSame == \A o : Grown(o, o)
BY DEF Grown

(* Steps that leave the check and what is stored alone.                    *)
LEMMA RoundsKept ==
  ASSUME Types, RoundsSound, web' = web, ot' = ot, valid' = valid, run' = run, pc' = pc,
         utk' = utk, now' \in Nat, now' >= now
  PROVE  RoundsSound'
<1>0. now \in Nat /\ run.start \in Nat
    BY DEF Types, Runs
<1>1. ASSUME NEW t, Endures(t)' PROVE Endures(t)
    BY <1>0, <1>1 DEF Endures
<1>2. /\ \A u, t, K : Votes(u, t, K)' = Votes(u, t, K)
      /\ \A u, t, K : SignedBy(u, t, K)' <=> SignedBy(u, t, K)
      /\ \A t : Bounded(t)' <=> Bounded(t)
      /\ Counted' = Counted /\ (InRounds' <=> InRounds) /\ (Checking' <=> Checking)
    BY DEF Votes, SignedBy, Bounded, Counted, InRounds, Checking
<1>3. RoundTimes'
    BY <1>0, <1>2 DEF RoundsSound, RoundTimes
<1>4. Ungranted' /\ RatingsRead'
    BY DEF RoundsSound, Ungranted, RatingsRead
<1>5. UsedWithin'
    BY <1>1, <1>2 DEF RoundsSound, UsedWithin
<1>6. RecordsBacked'
    BY <1>1, <1>2 DEF RoundsSound, RecordsBacked
<1>7. ResultsBacked'
    BY <1>1, <1>2 DEF RoundsSound, ResultsBacked
<1>8. FinishBounded'
    BY <1>1, <1>2 DEF RoundsSound, FinishBounded
<1> QED BY <1>3, <1>4, <1>5, <1>6, <1>7, <1>8 DEF RoundsSound

LEMMA DoneKept ==
  ASSUME Types, DoneBounded, web' = web, ot' = ot, valid' = valid, nextcheck' = nextcheck,
         ~Checking' /\ ~cut' => ~Checking /\ ~cut, now' \in Nat, now' >= now
  PROVE  DoneBounded'
<1>1. now \in Nat
    BY DEF Types
<1>2. \A t : Bounded(t)' <=> Bounded(t)
    BY DEF Bounded
<1> QED BY <1>1, <1>2 DEF DoneBounded

LEMMA OutOfRounds ==
  ASSUME ~Checking'
  PROVE  RoundsSound'
BY DEF Checking, RoundsSound, RoundTimes, Ungranted, RatingsRead, UsedWithin,
   RecordsBacked, ResultsBacked, FinishBounded, InRounds

LEMMA StillChecking ==
  ASSUME Checking'
  PROVE  DoneBounded'
BY DEF DoneBounded

-----------------------------------------------------------------------------
LEMMA NothingBacked ==
  ASSUME IsFiniteSet(Key), NEW K \in SUBSET Key, NEW o, NEW c, c.full = 0, c.marginal = 0
  PROVE  Backed(o, c, K)
<1> DEFINE A == RatedBy(o, K, Fully)
           B == RatedBy(o, K, Marginal)
<1>1. A \in SUBSET Key /\ B \in SUBSET Key
    BY DEF RatedBy
<1>2. 0 <= Cardinality(A) /\ 0 <= Cardinality(B)
    <2> HIDE DEF A, B
    <2> QED BY <1>1, Sizes
<1> QED BY <1>2 DEF Backed

LEMMA BeginMakes ==
  ASSUME Types, NEW ask \in BOOLEAN, Begin(ask)
  PROVE  /\ web' = web /\ ot' = ot /\ utk' = utk /\ now' = now /\ nextcheck' = nextcheck
         /\ pc' = IF utk = {} THEN "finish" ELSE "assign"
         /\ \A u \in Uid : /\ valid'[u].full = 0 /\ valid'[u].marginal = 0
                           /\ valid'[u].value = 0 \/ KeyOf(u) \in utk
         /\ run'.start = now /\ run'.used = utk /\ run'.depth = 0
         /\ run'.klist = [k \in utk |-> Item(Ultimate, Unknown, NoTrust)]
         /\ run'.expire = 0 \/ now <= run'.expire
<1> DEFINE ends == {web.keyends[k] : k \in {j \in utk : ~Expired(j, now)}}
           kl == [k \in utk |-> Item(Ultimate, Unknown, NoTrust)]
<1>1. utk \in SUBSET Key /\ now \in Nat /\ Webs
    BY DEF Types
<1>2. ends \in SUBSET Nat /\ \A x \in ends : x = 0 \/ now <= x
    BY <1>1 DEF Webs, Expired
<1>3. run' = [NoRun EXCEPT !.start = now, !.used = utk, !.seen = utk, !.ask = ask,
                           !.klist = kl, !.expire = Soonest(ends)]
    BY DEF Begin
<1> HIDE DEF ends, kl
<1>4. Soonest(ends) = 0 \/ now <= Soonest(ends)
    BY <1>2, SoonestFacts
<1>5. /\ run'.start = now /\ run'.used = utk /\ run'.depth = 0 /\ run'.klist = kl
      /\ run'.expire = Soonest(ends)
    BY <1>3 DEF NoRun
<1>6. \A u \in Uid : /\ valid'[u].full = 0 /\ valid'[u].marginal = 0
                     /\ valid'[u].value = 0 \/ KeyOf(u) \in utk
    BY DEF Begin, Cleared, NoRecord
<1> QED BY <1>4, <1>5, <1>6 DEF Begin, kl

LEMMA RoundsBegin ==
  ASSUME IsFiniteSet(Key), Types, Types', OwnKeys, NEW ask \in BOOLEAN, Begin(ask)
  PROVE  RoundsSound' /\ Checking'
<1>1. /\ web' = web /\ ot' = ot /\ utk' = utk /\ now' = now /\ nextcheck' = nextcheck
      /\ pc' = IF utk = {} THEN "finish" ELSE "assign"
      /\ \A u \in Uid : /\ valid'[u].full = 0 /\ valid'[u].marginal = 0
                        /\ valid'[u].value = 0 \/ KeyOf(u) \in utk
      /\ run'.start = now /\ run'.used = utk /\ run'.depth = 0
      /\ run'.klist = [k \in utk |-> Item(Ultimate, Unknown, NoTrust)]
      /\ run'.expire = 0 \/ now <= run'.expire
    BY BeginMakes
<1>2. now \in Nat /\ utk \in SUBSET Key
    BY DEF Types
<1>3. RoundTimes' /\ Checking'
    BY <1>1, <1>2 DEF RoundTimes, Checking
<1>4. Ungranted' /\ RatingsRead' /\ ResultsBacked'
    BY <1>1 DEF Ungranted, RatingsRead, ResultsBacked, Item, NoTrust
<1>5. UsedWithin'
    <2>1. \A t : WithinOf(web, ot, t)[0] = RatedBy(ot, Key, Ultimate)
        BY WithinFacts
    <2>2. utk \subseteq RatedBy(ot, Key, Ultimate)
        BY <1>2 DEF OwnKeys, RatedBy
    <2> QED BY <1>1, <2>1, <2>2 DEF UsedWithin
<1>6. RecordsBacked'
    <2>1. pc' = "assign" => Counted' = {}
        BY <1>1 DEF Counted
    <2>2. ASSUME NEW u \in Uid, NEW t PROVE Backed(ot', valid'[u], Votes(u, t, {})')
        <3>1. Votes(u, t, {})' \in SUBSET Key
            BY DEF Votes
        <3>2. PICK K, o, c : K = Votes(u, t, {})' /\ o = ot' /\ c = valid'[u]
            OBVIOUS
        <3>3. K \in SUBSET Key /\ c.full = 0 /\ c.marginal = 0
            BY <1>1, <3>1, <3>2
        <3>4. Backed(o, c, K)
            BY <3>3, NothingBacked
        <3> QED BY <3>2, <3>4
    <2> QED BY <1>1, <2>1, <2>2 DEF RecordsBacked, InRounds
<1>7. FinishBounded'
    <2> SUFFICES ASSUME utk = {}, NEW t, NEW u \in Uid
                 PROVE  valid'[u].value <= ValidityOf(web', ot', t, u)
        BY <1>1 DEF FinishBounded, Bounded
    <2>1. valid'[u].value = 0
        BY <1>1
    <2>2. ValidityOf(web', ot', t, u) \in Nat
        BY ValidityValue DEF Ultimate
    <2> QED BY <2>1, <2>2
<1> QED BY <1>3, <1>4, <1>5, <1>6, <1>7 DEF RoundsSound

-----------------------------------------------------------------------------
(* An answer to a question gives ownertrust to a key that had none.        *)
LEMMA AssignMakes ==
  ASSUME TrustInv, Assign, Ungranted
  PROVE  /\ Grown(ot, ot')
         /\ DOMAIN run'.klist = DOMAIN run.klist /\ run'.used = run.used
         /\ run'.depth = run.depth /\ run'.start = run.start /\ run'.expire = run.expire
         /\ run'.found = run.found
         /\ \A k \in DOMAIN run.klist :
              /\ run'.klist[k].value = 0
              /\ run'.klist[k].ot \in Weighty => ot'[k] = run'.klist[k].ot
<1>1. PICK answer \in [Asked -> {0} \cup Assignable] :
         /\ Assigning(DOMAIN run.klist, answer)
         /\ run' = [run EXCEPT !.klist = [k \in DOMAIN @ |-> Trusted(k, answer)]]
    BY DEF Assign
<1>2. pc = "assign" /\ Types
    BY DEF Assign, TrustInv
<1>3. \A k \in Asked : k \in DOMAIN run.klist /\ ot[k] = Unknown
    BY <1>2 DEF Asked, TrustInv, ItemsReached
<1>4. ot' = [k \in Key |-> IF k \in DOMAIN answer /\ answer[k] # 0
                             THEN answer[k] ELSE ot[k]]
    BY <1>1 DEF Assigning
<1>5. Unknown \notin Weighty /\ Undefined \notin Weighty
    BY DEF Weighty, Unknown, Undefined, Marginal, Fully, Ultimate
<1>6. Grown(ot, ot')
    BY <1>1, <1>3, <1>4, <1>5 DEF Grown
<1>7. /\ run'.klist = [k \in DOMAIN run.klist |-> Trusted(k, answer)]
      /\ run'.used = run.used /\ run'.found = run.found
      /\ run'.depth = run.depth /\ run'.start = run.start /\ run'.expire = run.expire
    BY <1>1, <1>2 DEF Types, Runs
<1>8. ASSUME NEW k \in DOMAIN run.klist
      PROVE  /\ Trusted(k, answer).value = 0
             /\ Trusted(k, answer).ot \in Weighty => ot'[k] = Trusted(k, answer).ot
    <2>1. run.klist[k] \in Items /\ k \in Key
        BY <1>2, KlistTypes
    <2>2. run.klist[k].value = 0
        BY <1>2 DEF Ungranted
    <2>3. MinOf(run.klist[k]) = 0
        BY <2>2 DEF MinOf, Unknown
    <2> DEFINE mine == IF k \notin Asked THEN run.klist[k].ot
                       ELSE IF answer[k] # 0 THEN answer[k]
                       ELSE MaxOf(Undefined, MinOf(run.klist[k]))
    <2>4. Trusted(k, answer) = [run.klist[k] EXCEPT !.ot = MaxOf(mine, MinOf(run.klist[k]))]
        BY DEF Trusted
    <2>5. mine \in Nat /\ (mine \in Weighty => ot'[k] = mine)
        <3>1. CASE k \notin Asked
            <4>1. mine = ot[k] /\ ot'[k] = ot[k] /\ run.klist[k].ot \in Nat
                BY <1>1, <1>2, <1>4, <2>1, <3>1 DEF TrustInv, ItemsReached, Items, Trust
            <4> QED BY <3>1, <4>1
        <3>2. CASE k \in Asked /\ answer[k] # 0
            <4>1. mine = answer[k] /\ ot'[k] = answer[k]
                BY <1>1, <1>4, <2>1, <3>2
            <4>2. answer[k] \in Nat
                BY <1>1, <3>2, AssignableAssumption DEF Ultimate
            <4> QED BY <4>1, <4>2
        <3>3. CASE k \in Asked /\ answer[k] = 0
            <4>1. mine = Undefined
                BY <2>3, <3>3 DEF MaxOf, Undefined
            <4> QED BY <1>5, <4>1 DEF Undefined
        <3> QED BY <3>1, <3>2, <3>3
    <2> HIDE DEF mine
    <2>6. MaxOf(mine, MinOf(run.klist[k])) = mine
        BY <2>3, <2>5 DEF MaxOf
    <2>7. Trusted(k, answer).ot = mine /\ Trusted(k, answer).value = run.klist[k].value
        BY <2>1, <2>4, <2>6 DEF Items
    <2> QED BY <2>2, <2>5, <2>7
<1> QED BY <1>6, <1>7, <1>8

(* What ownertrust is given to may only add to what has been found.        *)
LEMMA RecordsGrown ==
  ASSUME IsFiniteSet(Key), NEW o, NEW p, Grown(o, p), NEW c, c.full \in Nat, c.marginal \in Nat,
         NEW K \in SUBSET Key, Backed(o, c, K)
  PROVE  Backed(p, c, K)
BY BackedMore

LEMMA RoundsAssign ==
  ASSUME IsFiniteSet(Key), TrustInv, Types', RoundsSound, Assign
  PROVE  RoundsSound'
<1>1. /\ Grown(ot, ot')
      /\ DOMAIN run'.klist = DOMAIN run.klist /\ run'.used = run.used
      /\ run'.depth = run.depth /\ run'.start = run.start /\ run'.expire = run.expire
      /\ \A k \in DOMAIN run.klist :
              /\ run'.klist[k].value = 0
              /\ run'.klist[k].ot \in Weighty => ot'[k] = run'.klist[k].ot
    BY AssignMakes DEF RoundsSound
<1>2. /\ pc = "assign" /\ pc' = "scan" /\ web' = web /\ valid' = valid /\ utk' = utk
      /\ now' = now /\ Types
    BY DEF Assign, TrustInv
<1>3. RoundTimes'
    BY <1>1, <1>2 DEF RoundsSound, RoundTimes, Checking
<1>4. Ungranted' /\ RatingsRead' /\ ResultsBacked' /\ FinishBounded'
    BY <1>1, <1>2 DEF Ungranted, RatingsRead, ResultsBacked, FinishBounded
<1>5. /\ Counted' = Counted /\ \A t : Endures(t)' <=> Endures(t)
      /\ InRounds /\ \A u, t : Votes(u, t, Counted)' = Votes(u, t, Counted)
      /\ \A u, t : SignedBy(u, t, Counted)' <=> SignedBy(u, t, Counted)
    BY <1>1, <1>2 DEF Counted, Endures, InRounds, Votes, SignedBy
<1>6. UsedWithin'
    <2> SUFFICES ASSUME NEW t, Endures(t)'
                 PROVE  run'.used \subseteq WithinOf(web', ot', t)[run'.depth]
        BY DEF UsedWithin
    <2>1. run.used \subseteq WithinOf(web, ot, t)[run.depth]
        BY <1>5 DEF RoundsSound, UsedWithin
    <2>2. run.depth \in 0 .. MaxDepth - 1
        BY <1>2 DEF Types, Runs
    <2>3. WithinOf(web, ot, t)[run.depth] \subseteq WithinOf(web, ot', t)[run.depth]
        BY <1>1, <2>2, WithinMore
    <2> QED BY <1>1, <1>2, <2>1, <2>3
<1>7. RecordsBacked'
    <2> SUFFICES ASSUME NEW u \in Uid, NEW t, Endures(t)'
                 PROVE  /\ Backed(ot', valid'[u], Votes(u, t, Counted)')
                        /\ \/ valid'[u].value = 0 \/ KeyOf(u) \in utk'
                           \/ SignedBy(u, t, Counted)'
        BY DEF RecordsBacked
    <2>1. /\ Backed(ot, valid[u], Votes(u, t, Counted))
          /\ valid[u].value = 0 \/ KeyOf(u) \in utk \/ SignedBy(u, t, Counted)
        BY <1>5 DEF RoundsSound, RecordsBacked
    <2>2. valid[u].full \in Nat /\ valid[u].marginal \in Nat
        BY <1>2, RecordFields
    <2>3. Votes(u, t, Counted) \in SUBSET Key
        BY <1>2 DEF Votes, Counted, Types, Runs
    <2>4. Backed(ot', valid[u], Votes(u, t, Counted))
        BY <1>1, <2>1, <2>2, <2>3, RecordsGrown
    <2> QED BY <1>2, <1>5, <2>1, <2>4
<1> QED BY <1>3, <1>4, <1>6, <1>7 DEF RoundsSound


-----------------------------------------------------------------------------
(* A scan looks at certificates that last at least to the next check.      *)
LEMMA EndsLater ==
  ASSUME Types, RoundTimes, pc = "scan", NEW k \in Key
  PROVE  \A x \in EndsOf(run.klist, k, run.start) : x = 0 \/ run.start <= x
<1>1. now \in Nat /\ run.start \in Nat /\ run.start <= now /\ Webs
    BY DEF Types, Runs, RoundTimes, Checking
<1>2. \A u \in Uids(k) : u \in Uid
    BY UidsAssumption DEF Uids
<1>3. ASSUME NEW u \in Uids(k), Live(u, now)
      PROVE  web.uidends[u] = 0 \/ run.start <= web.uidends[u]
    <2>1. web.uidends[u] \in Nat
        BY <1>1, <1>2 DEF Webs
    <2> QED BY <1>1, <1>3, <2>1 DEF Live
<1>4. ASSUME NEW u \in Uids(k), NEW i \in Usable(u, DOMAIN run.klist, run.start)
      PROVE  web.sigs[u][i].ends = 0 \/ run.start <= web.sigs[u][i].ends
    <2>1. i \in DOMAIN web.sigs[u] /\ Unexpired(web.sigs[u][i], run.start)
        BY DEF Usable
    <2>2. web.sigs[u] \in Seq(Certificate)
        BY <1>1, <1>2 DEF Webs
    <2>3. web.sigs[u][i].ends \in Nat
        BY <2>1, <2>2, CertificateTypes
    <2> QED BY <1>1, <2>1, <2>3 DEF Unexpired
<1>5. web.keyends[k] >= run.start => run.start <= web.keyends[k]
    BY <1>1 DEF Webs
<1> QED BY <1>3, <1>4, <1>5 DEF EndsOf

LEMMA ScanEnds ==
  ASSUME Types, RoundTimes, Scan
  PROVE  /\ run'.start = run.start
         /\ run'.expire = 0 \/ run.start <= run'.expire
         /\ \A t \in Nat : Unended(run'.expire, t) => Unended(run.expire, t)
         /\ \A k \in DOMAIN run'.found :
              /\ k \in Key /\ ~Expired(k, now) /\ SignedUids(run.klist, k, run.start) # {}
              /\ \A t \in Nat : Unended(run'.expire, t) =>
                   \A x \in EndsOf(run.klist, k, run.start) : Unended(x, t)
<1> DEFINE open == {k \in Key \ run.seen : ~Expired(k, now)}
           Found == {j \in open : SignedUids(run.klist, j, run.start) # {}}
           found == [k \in Found |-> Evaluated(run.klist, k, run.start)]
           seen == run.seen \cup {k \in Key : Expired(k, now)}
                    \cup {k \in DOMAIN found : \A u \in Uids(k) :
                            /\ u \in DOMAIN found[k].counts
                            /\ Status(found[k].counts[u]) = Fully}
           ends == {run.expire} \cup UNION {EndsOf(run.klist, k, run.start) : k \in open}
<1>1. run' = [run EXCEPT !.found = found, !.left = DOMAIN found, !.seen = seen,
                         !.expire = Soonest(ends)]
    BY ScanMakes
<1>2. pc = "scan" /\ run.expire \in Nat /\ run.start \in Nat
    BY DEF Scan, Types, Runs
<1>3. run.expire = 0 \/ run.start <= run.expire
    BY <1>2 DEF RoundTimes, Checking
<1>4. \A k \in open : /\ EndsOf(run.klist, k, run.start) \in SUBSET Nat
                      /\ \A x \in EndsOf(run.klist, k, run.start) : x = 0 \/ run.start <= x
    BY <1>2, EndsNat, EndsLater DEF Types
<1>5. \A k \in DOMAIN found : k \in open /\ SignedUids(run.klist, k, run.start) # {}
    OBVIOUS
<1>6. \A k \in open : k \in Key /\ ~Expired(k, now)
    OBVIOUS
<1> HIDE DEF found, seen, open
<1>7. ends \in SUBSET Nat /\ \A x \in ends : x = 0 \/ run.start <= x
    BY <1>2, <1>3, <1>4
<1>8. run.expire \in ends /\ \A k \in open : EndsOf(run.klist, k, run.start) \subseteq ends
    OBVIOUS
<1> HIDE DEF ends
<1> DEFINE e == Soonest(ends)
<1>9. e \in ends \cup {0} /\ \A t \in Nat : Unended(e, t) => \A x \in ends : Unended(x, t)
    BY <1>7, SoonestFacts
<1>10. run'.start = run.start /\ run'.expire = e /\ run'.found = found
    BY <1>1 DEF Types, Runs
<1> HIDE DEF e
<1>11. e = 0 \/ run.start <= e
    BY <1>7, <1>9
<1>12. \A t \in Nat : Unended(e, t) => Unended(run.expire, t)
    BY <1>8, <1>9
<1>13. ASSUME NEW k \in DOMAIN found, NEW t \in Nat, Unended(e, t),
              NEW x \in EndsOf(run.klist, k, run.start)
       PROVE  Unended(x, t)
    BY <1>5, <1>8, <1>9, <1>13
<1> QED BY <1>5, <1>6, <1>10, <1>11, <1>12, <1>13

LEMMA FoundLasts ==
  ASSUME Types, RoundTimes, pc = "scan", NEW k \in Key, ~Expired(k, now),
         NEW u \in SignedUids(run.klist, k, run.start), NEW t \in Nat, now <= t,
         \A x \in EndsOf(run.klist, k, run.start) : Unended(x, t)
  PROVE  /\ u \in Uids(k) /\ u \in Uid
         /\ LiveAt(web, u, t) /\ ~ExpiredAt(web, k, t)
         /\ Weighed(run.klist, u, run.start) # {}
         /\ \A i \in Weighed(run.klist, u, run.start) :
              /\ web.sigs[u][i].by \in DOMAIN run.klist
              /\ web.sigs[u][i].by \in CertifiersOf(web, u, t)
<1>1. now \in Nat /\ run.start \in Nat /\ run.start <= now /\ Webs
    BY DEF Types, Runs, RoundTimes, Checking
<1>2. /\ u \in Uids(k) /\ u \in Uid /\ Live(u, now)
      /\ Weighed(run.klist, u, run.start) # {}
    BY UidsAssumption DEF SignedUids, Uids
<1>3. LiveAt(web, u, t)
    <2>1. web.uidends[u] \in EndsOf(run.klist, k, run.start)
        BY <1>2 DEF EndsOf
    <2>2. web.uidends[u] \in Nat
        BY <1>1, <1>2 DEF Webs
    <2> QED BY <2>1, <2>2 DEF Unended, LiveAt
<1>4. ~ExpiredAt(web, k, t)
    <2>1. web.keyends[k] \in Nat
        BY <1>1 DEF Webs
    <2>2. CASE web.keyends[k] = 0
        BY <2>2 DEF ExpiredAt
    <2>3. CASE web.keyends[k] # 0
        <3>1. web.keyends[k] >= run.start
            BY <1>1, <2>1, <2>3 DEF Expired
        <3>2. web.keyends[k] \in EndsOf(run.klist, k, run.start)
            BY <3>1 DEF EndsOf
        <3> QED BY <2>1, <3>2 DEF Unended, ExpiredAt
    <2> QED BY <2>2, <2>3
<1>5. ASSUME NEW i \in Weighed(run.klist, u, run.start)
      PROVE  /\ web.sigs[u][i].by \in DOMAIN run.klist
             /\ web.sigs[u][i].by \in CertifiersOf(web, u, t)
    <2>1. i \in Usable(u, DOMAIN run.klist, run.start)
        BY DEF Weighed
    <2>2. web.sigs[u][i].ends \in EndsOf(run.klist, k, run.start)
        BY <1>2, <2>1 DEF EndsOf
    <2>3. Unended(web.sigs[u][i].ends, t)
        BY <2>2
    <2>4. run.start <= t
        BY <1>1
    <2>5. web.sigs[u][i].by \in CertifiersOf(web, u, t)
        BY <1>1, <1>2, <2>1, <2>3, <2>4, UsableCertifies
    <2> QED BY <2>5, SignersDistinct
<1> QED BY <1>2, <1>3, <1>4, <1>5

(* Signers of this round come on top of those of the rounds before.        *)
LEMMA Together ==
  ASSUME IsFiniteSet(Key), NEW A \in SUBSET Key, NEW V \in SUBSET Key, NEW B \in SUBSET Key,
         A \cap V = {}, A \subseteq B, V \subseteq B
  PROVE  /\ Cardinality(A) \in Nat /\ Cardinality(V) \in Nat /\ Cardinality(B) \in Nat
         /\ Cardinality(A) + Cardinality(V) <= Cardinality(B)
<1>1. IsFiniteSet(A) /\ IsFiniteSet(V) /\ IsFiniteSet(B)
      /\ Cardinality(A) \in Nat /\ Cardinality(V) \in Nat /\ Cardinality(B) \in Nat
    BY Sizes
<1>2. Cardinality(A \cup V) = Cardinality(A) + Cardinality(V) - Cardinality(A \cap V)
    BY <1>1, FS_Union
<1>3. Cardinality(A \cap V) = 0
    BY FS_EmptySet
<1>4. A \cup V \subseteq B
    OBVIOUS
<1>5. Cardinality(A \cup V) <= Cardinality(B)
    BY <1>1, <1>4, FS_Subset
<1> QED BY <1>1, <1>2, <1>3, <1>5

LEMMA BackedFound ==
  ASSUME IsFiniteSet(Key), Types, RatingsRead, pc = "scan", NEW u \in Uid,
         NEW A \in SUBSET Key, NEW B \in SUBSET Key, A \subseteq B,
         A \cap DOMAIN run.klist = {}, Backed(ot, valid[u], A),
         \A i \in Weighed(run.klist, u, run.start) :
           web.sigs[u][i].by \in DOMAIN run.klist /\ web.sigs[u][i].by \in B
  PROVE  Backed(ot, Counts(run.klist, u, run.start), B)
<1> DEFINE c == Counts(run.klist, u, run.start)
           V(x) == Voters(run.klist, u, run.start, x)
           R(K, x) == RatedBy(ot, K, x)
<1>1. /\ Webs /\ Stored(u) \in Tallies /\ DOMAIN run.klist \in SUBSET Key
      /\ Stored(u).full = valid[u].full /\ Stored(u).marginal = valid[u].marginal
      /\ valid[u].full \in Nat /\ valid[u].marginal \in Nat
    BY ValidTallies, KlistTypes, RecordFields DEF Types, Stored
<1>2. ASSUME NEW x \in Weighty
      PROVE  /\ V(x) \in SUBSET Key /\ V(x) \subseteq R(B, x) /\ R(A, x) \cap V(x) = {}
             /\ R(A, x) \subseteq R(B, x) /\ R(B, x) \in SUBSET Key /\ R(A, x) \in SUBSET Key
    <2>1. \A k \in V(x) : k \in DOMAIN run.klist /\ k \in B /\ ot[k] = x
        BY DEF Voters, RatingsRead
    <2> HIDE DEF V
    <2> QED BY <2>1 DEF RatedBy
<1>3. CASE R(B, Ultimate) # {}
    BY <1>3 DEF Backed
<1>4. CASE R(B, Ultimate) = {}
    <2>1. Ultimate \in Weighty /\ Fully \in Weighty /\ Marginal \in Weighty
        BY DEF Weighty
    <2>2. V(Ultimate) = {} /\ R(A, Ultimate) = {}
        <3> HIDE DEF V, R
        <3> QED BY <1>2, <1>4, <2>1
    <2>3. /\ c.full <= Stored(u).full + Cardinality(V(Fully))
          /\ c.marginal <= Stored(u).marginal + Cardinality(V(Marginal))
        BY <1>1, <2>2, CountsVoted
    <2>4. /\ valid[u].full <= Cardinality(R(A, Fully))
          /\ valid[u].marginal <= Cardinality(R(A, Marginal))
        BY <2>2 DEF Backed
    <2>5. ASSUME NEW x \in Weighty
          PROVE  /\ Cardinality(R(A, x)) \in Nat /\ Cardinality(V(x)) \in Nat
                 /\ Cardinality(R(B, x)) \in Nat
                 /\ Cardinality(R(A, x)) + Cardinality(V(x)) <= Cardinality(R(B, x))
        <3> HIDE DEF V, R
        <3> QED BY <1>2, Together
    <2>6. c \in Tallies
        BY <1>1, CountsTypes
    <2>7. c.full \in Nat /\ c.marginal \in Nat
        BY <2>6 DEF Tallies
    <2> HIDE DEF c, V, R
    <2>8. c.full <= Cardinality(R(B, Fully))
        BY <1>1, <2>1, <2>3, <2>4, <2>5, <2>7
    <2>9. c.marginal <= Cardinality(R(B, Marginal))
        BY <1>1, <2>1, <2>3, <2>4, <2>5, <2>7
    <2> QED BY <2>8, <2>9 DEF Backed, c, R
<1> QED BY <1>3, <1>4

(* Without trust signatures no key gets anything but its validity.         *)
LEMMA PlainGrants ==
  ASSUME Types, Plain, pc = "scan", NEW k \in Key
  PROVE  Evaluated(run.klist, k, run.start).pk.value = 0
<1> DEFINE G == {p \in Grants : p.value = 0}
<1>1. NoTrust \in G
    BY DEF NoTrust, Grants
<1>2. ASSUME NEW u \in Uids(k) PROVE Steadily(G, run.klist, u, run.start)
    <2> SUFFICES ASSUME NEW p \in G, NEW i \in Weighed(run.klist, u, run.start)
                 PROVE  Granted(p, web.sigs[u][i], run.klist[web.sigs[u][i].by]) \in G
        BY DEF Steadily
    <2>1. u \in Uid
        BY UidsAssumption DEF Uids
    <2>2. i \in DOMAIN web.sigs[u]
        BY SignersDistinct
    <2>3. ~Pgp \/ web.sigs[u][i].depth = 0
        BY <2>1, <2>2 DEF Plain
    <2> QED BY <2>3 DEF Granted
<1>3. Webs
    BY DEF Types
<1>4. Evaluated(run.klist, k, run.start).pk \in G
    <2> HIDE DEF G
    <2> QED BY <1>1, <1>2, <1>3, EvaluatedStays
<1> QED BY <1>4

LEMMA RoundsScan ==
  ASSUME IsFiniteSet(Key), Types, Types', Plain, RoundsSound, Scan
  PROVE  RoundsSound'
<1>1. /\ pc = "scan" /\ pc' = "store" /\ web' = web /\ ot' = ot /\ valid' = valid
      /\ utk' = utk /\ now' = now
    BY DEF Scan, db, process
<1>2. /\ run'.depth = run.depth /\ run'.used = run.used
      /\ \A k \in DOMAIN run'.found :
           k \in Key /\ run'.found[k] = Evaluated(run.klist, k, run.start)
    BY ScanFound
<1>3. RoundTimes
    BY DEF RoundsSound
<1>4. /\ run'.start = run.start
      /\ run'.expire = 0 \/ run.start <= run'.expire
      /\ \A t \in Nat : Unended(run'.expire, t) => Unended(run.expire, t)
      /\ \A k \in DOMAIN run'.found :
              /\ k \in Key /\ ~Expired(k, now) /\ SignedUids(run.klist, k, run.start) # {}
              /\ \A t \in Nat : Unended(run'.expire, t) =>
                   \A x \in EndsOf(run.klist, k, run.start) : Unended(x, t)
    BY <1>3, ScanEnds
<1>5. RoundTimes'
    BY <1>1, <1>3, <1>4 DEF RoundTimes, Checking
<1>6. ASSUME NEW t, Endures(t)'
      PROVE  t \in Nat /\ now <= t /\ Endures(t) /\ Unended(run'.expire, t)
    <2>1. now \in Nat
        BY DEF Types
    <2> QED BY <1>1, <1>4, <1>6, <2>1 DEF Endures
<1>7. Ungranted' /\ RatingsRead'
    BY <1>1, <1>2, PlainGrants DEF Ungranted, RatingsRead
<1>8. /\ \A u, t, K : Votes(u, t, K)' = Votes(u, t, K)
      /\ \A u, t, K : SignedBy(u, t, K)' <=> SignedBy(u, t, K)
      /\ InRounds /\ InRounds'
      /\ Counted = run.used \ DOMAIN run.klist /\ Counted' = run.used
      /\ run.used \in SUBSET Key
    BY <1>1, <1>2 DEF Votes, SignedBy, InRounds, Counted, Types, Runs
<1>9. UsedWithin'
    BY <1>1, <1>2, <1>6, <1>8 DEF RoundsSound, UsedWithin
<1>10. ASSUME NEW u \in Uid, NEW t, Endures(t)
       PROVE  /\ Backed(ot, valid[u], Votes(u, t, Counted))
              /\ valid[u].value = 0 \/ KeyOf(u) \in utk \/ SignedBy(u, t, Counted)
    BY <1>8, <1>10 DEF RoundsSound, RecordsBacked
<1>11. ASSUME NEW u, NEW t
       PROVE  /\ Votes(u, t, Counted) \in SUBSET Key /\ Votes(u, t, run.used) \in SUBSET Key
              /\ Votes(u, t, Counted) \subseteq Votes(u, t, run.used)
              /\ Votes(u, t, Counted) \cap DOMAIN run.klist = {}
              /\ SignedBy(u, t, Counted) => SignedBy(u, t, run.used)
    BY <1>8 DEF Votes, SignedBy
<1>12. RecordsBacked'
    <2> SUFFICES ASSUME NEW u \in Uid, NEW t, Endures(t)'
                 PROVE  /\ Backed(ot, valid[u], Votes(u, t, run.used))
                        /\ \/ valid[u].value = 0 \/ KeyOf(u) \in utk
                           \/ SignedBy(u, t, run.used)
        BY <1>1, <1>8 DEF RecordsBacked
    <2>1. Endures(t)
        BY <1>6
    <2>2. valid[u].full \in Nat /\ valid[u].marginal \in Nat
        BY RecordFields
    <2>3. Backed(ot, valid[u], Votes(u, t, run.used))
        BY <1>10, <1>11, <2>1, <2>2, GrownSame, BackedMore
    <2> QED BY <1>10, <1>11, <2>1, <2>3
<1>13. ResultsBacked'
    <2> SUFFICES ASSUME NEW k \in DOMAIN run'.found, NEW u \in DOMAIN run'.found[k].counts
                 PROVE  /\ u \in Uids(k)
                        /\ \A t : Endures(t)' =>
                             /\ Backed(ot, run'.found[k].counts[u], Votes(u, t, run.used))
                             /\ SignedBy(u, t, run.used)
        BY <1>1, <1>2, <1>8 DEF ResultsBacked
    <2>1. k \in Key /\ run'.found[k] = Evaluated(run.klist, k, run.start)
        BY <1>2
    <2>2. /\ u \in SignedUids(run.klist, k, run.start)
          /\ run'.found[k].counts[u] = Counts(run.klist, u, run.start)
        <3>1. u \in DOMAIN Evaluated(run.klist, k, run.start).counts
            BY <2>1
        <3>2. /\ u \in SignedUids(run.klist, k, run.start)
              /\ Evaluated(run.klist, k, run.start).counts[u] = Counts(run.klist, u, run.start)
            BY <3>1 DEF Evaluated
        <3> QED BY <2>1, <3>2
    <2>3. u \in Uids(k)
        BY <2>2 DEF SignedUids
    <2>4. ASSUME NEW t, Endures(t)'
          PROVE  /\ Backed(ot, Counts(run.klist, u, run.start), Votes(u, t, run.used))
                 /\ SignedBy(u, t, run.used)
        <3>1. t \in Nat /\ now <= t /\ Endures(t) /\ Unended(run'.expire, t)
            BY <1>6, <2>4
        <3>2. ~Expired(k, now) /\ \A x \in EndsOf(run.klist, k, run.start) : Unended(x, t)
            BY <1>4, <3>1
        <3>3. /\ u \in Uid /\ LiveAt(web, u, t) /\ ~ExpiredAt(web, k, t)
              /\ Weighed(run.klist, u, run.start) # {}
              /\ \A i \in Weighed(run.klist, u, run.start) :
                   /\ web.sigs[u][i].by \in DOMAIN run.klist
                   /\ web.sigs[u][i].by \in CertifiersOf(web, u, t)
            BY <1>1, <1>3, <2>1, <2>2, <3>1, <3>2, FoundLasts
        <3>4. DOMAIN run.klist \subseteq run.used
            BY DEF Types
        <3>5. \A i \in Weighed(run.klist, u, run.start) :
                 /\ web.sigs[u][i].by \in DOMAIN run.klist
                 /\ web.sigs[u][i].by \in Votes(u, t, run.used)
            BY <3>3, <3>4 DEF Votes
        <3>6. Backed(ot, valid[u], Votes(u, t, Counted))
            BY <1>10, <3>1, <3>3
        <3>7. Backed(ot, Counts(run.klist, u, run.start), Votes(u, t, run.used))
            <4>1. RatingsRead
                BY DEF RoundsSound
            <4> QED BY <1>1, <1>11, <3>3, <3>5, <3>6, <4>1, BackedFound
        <3>8. KeyOf(u) = k
            BY <2>1, <2>3, KeyOfUid
        <3>9. SignedBy(u, t, run.used)
            BY <3>3, <3>5, <3>8 DEF SignedBy
        <3> QED BY <3>7, <3>9
    <2> QED BY <2>2, <2>3, <2>4
<1>14. FinishBounded'
    BY <1>1 DEF FinishBounded
<1> QED BY <1>5, <1>7, <1>9, <1>12, <1>13, <1>14 DEF RoundsSound

-----------------------------------------------------------------------------
LEMMA StoreKeeps ==
  ASSUME Types, Store
  PROVE  /\ run'.start = run.start /\ run'.expire = run.expire /\ run'.depth = run.depth
         /\ run'.klist = run.klist /\ run'.used = run.used /\ run'.found = run.found
         /\ pc = "store" /\ pc' = "store" /\ web' = web /\ ot' = ot /\ utk' = utk
         /\ now' = now
<1>1. PICK k \in run.left : run' = [run EXCEPT !.left = @ \ {k}]
    BY DEF Store
<1> QED BY <1>1 DEF Store, Types, Runs, process

(* What a round stores is what it has found.                               *)
LEMMA RoundsStore ==
  ASSUME FewKeys, CountInv, Types', RoundsSound, Store
  PROVE  RoundsSound'
<1>1. Types
    BY DEF CountInv
<1>2. /\ run'.start = run.start /\ run'.expire = run.expire /\ run'.depth = run.depth
      /\ run'.klist = run.klist /\ run'.used = run.used /\ run'.found = run.found
      /\ pc = "store" /\ pc' = "store" /\ web' = web /\ ot' = ot /\ utk' = utk
      /\ now' = now
    BY <1>1, StoreKeeps
<1>3. /\ \A u, t, K : Votes(u, t, K)' = Votes(u, t, K)
      /\ \A u, t, K : SignedBy(u, t, K)' <=> SignedBy(u, t, K)
      /\ \A t : Endures(t)' <=> Endures(t)
      /\ InRounds /\ Counted = run.used /\ Counted' = run.used
    BY <1>2 DEF Votes, SignedBy, Endures, InRounds, Counted
<1>4. RoundTimes' /\ Ungranted' /\ RatingsRead'
    BY <1>2 DEF RoundsSound, RoundTimes, Ungranted, RatingsRead, Checking
<1>5. UsedWithin'
    BY <1>2, <1>3 DEF RoundsSound, UsedWithin
<1>6. PICK k \in run.left :
           /\ \A u \in Uid \ DOMAIN run.found[k].counts : valid'[u] = valid[u]
           /\ \A u \in DOMAIN run.found[k].counts :
                /\ valid'[u].full = run.found[k].counts[u].full
                /\ valid'[u].marginal = run.found[k].counts[u].marginal
    BY StoreGrows
<1>7. k \in DOMAIN run.found
    BY <1>1 DEF Types
<1>8. RecordsBacked'
    <2> SUFFICES ASSUME NEW u \in Uid, NEW t, Endures(t)
                 PROVE  /\ Backed(ot, valid'[u], Votes(u, t, run.used))
                        /\ \/ valid'[u].value = 0 \/ KeyOf(u) \in utk
                           \/ SignedBy(u, t, run.used)
        BY <1>2, <1>3 DEF RecordsBacked
    <2>1. CASE u \in DOMAIN run.found[k].counts
        <3>1. /\ Backed(ot, run.found[k].counts[u], Votes(u, t, run.used))
              /\ SignedBy(u, t, run.used)
            BY <1>2, <1>7, <2>1 DEF RoundsSound, ResultsBacked
        <3>2. Backed(ot, valid'[u], Votes(u, t, run.used))
            BY <1>6, <2>1, <3>1 DEF Backed
        <3> QED BY <3>1, <3>2
    <2>2. CASE u \notin DOMAIN run.found[k].counts
        <3>1. valid'[u] = valid[u]
            BY <1>6, <2>2
        <3> QED BY <1>3, <3>1 DEF RoundsSound, RecordsBacked
    <2> QED BY <2>1, <2>2
<1>9. ResultsBacked'
    BY <1>2, <1>3 DEF RoundsSound, ResultsBacked
<1>10. FinishBounded'
    BY <1>2 DEF FinishBounded
<1> QED BY <1>4, <1>5, <1>8, <1>9, <1>10 DEF RoundsSound

LEMMA ExtendKeeps ==
  ASSUME Types, Extend
  PROVE  /\ run'.start = run.start /\ run'.expire = run.expire
         /\ run'.used = run.used \cup Joining
         /\ DOMAIN run'.klist = Joining
         /\ \A k \in Joining : run'.klist[k].value = run.found[k].pk.value
         /\ pc = "store" /\ pc' \in {"finish", "assign"}
         /\ pc' = "assign" => run'.depth = run.depth + 1 /\ run.depth + 1 \in 0 .. MaxDepth - 1
         /\ web' = web /\ ot' = ot /\ utk' = utk /\ now' = now /\ valid' = valid
<1> DEFINE kl == [k \in Joining |-> Item(ot[k], minot[k], run.found[k].pk)]
           depth == IF LastRound(run.depth) \/ Joining = {} THEN run.depth ELSE run.depth + 1
<1>1. run' = [run EXCEPT !.klist = kl, !.used = @ \cup Joining, !.found = <<>>,
                         !.depth = depth]
    BY DEF Extend
<1>2. /\ pc = "store" /\ pc' \in {"finish", "assign"}
      /\ web' = web /\ ot' = ot /\ utk' = utk /\ now' = now /\ valid' = valid
    BY DEF Extend, db, process
<1>3. pc' = "assign" => depth = run.depth + 1 /\ ~LastRound(run.depth)
    BY DEF Extend
<1>4. run.depth \in 0 .. MaxDepth - 1 /\ MaxDepth \in Nat
    BY NeededAssumption DEF Types, Runs
<1>5. ~LastRound(run.depth) => run.depth + 1 \in 0 .. MaxDepth - 1
    BY <1>4 DEF LastRound
<1>6. DOMAIN kl = Joining /\ \A k \in Joining : kl[k].value = run.found[k].pk.value
    BY DEF Item
<1> HIDE DEF kl, depth
<1>7. /\ run'.start = run.start /\ run'.expire = run.expire /\ run'.klist = kl
      /\ run'.used = run.used \cup Joining /\ run'.depth = depth
    BY <1>1 DEF Types, Runs
<1> QED BY <1>2, <1>3, <1>5, <1>6, <1>7

(* The keys of the next round are introduced by those of the rounds before *)
(* it, now and as long as what has been found holds.                       *)
LEMMA JoiningIntroduced ==
  ASSUME FewKeys, Types, RoundsSound, pc = "store", NEW t, Endures(t)
  PROVE  Joining \subseteq Introduced(web, ot, t, WithinOf(web, ot, t)[run.depth])
<1> DEFINE W == WithinOf(web, ot, t)[run.depth]
<1>1. run.used \subseteq W
    BY DEF RoundsSound, UsedWithin, InRounds
<1>2. W \in SUBSET Key
    <2>1. run.depth \in 0 .. MaxDepth - 1
        BY DEF Types, Runs
    <2> QED BY <2>1, WithinFacts
<1> HIDE DEF W
<1> SUFFICES ASSUME NEW k \in Joining PROVE k \in Introduced(web, ot, t, W)
    BY DEF W
<1>3. k \in Key /\ k \in DOMAIN run.found
    BY JoiningTypes
<1>4. PICK u \in DOMAIN run.found[k].counts : Status(run.found[k].counts[u]) = Fully
    BY DEF Joining
<1> DEFINE c == run.found[k].counts[u]
           V == Votes(u, t, run.used)
<1>5. u \in Uids(k) /\ Backed(ot, c, V) /\ SignedBy(u, t, run.used)
    BY <1>3, <1>4 DEF RoundsSound, ResultsBacked
<1>6. c \in Tallies
    BY <1>3, FoundTypes
<1>7. V \in SUBSET Key /\ V \subseteq CertifiersOf(web, u, t) \cap W
      /\ CertifiersOf(web, u, t) \cap W \in SUBSET Key
    BY <1>1, <1>2 DEF Votes
<1>8. KeyOf(u) = k
    BY <1>3, <1>5, KeyOfUid DEF FewKeys
<1>9. LiveAt(web, u, t) /\ ~ExpiredAt(web, k, t)
    BY <1>5, <1>8 DEF SignedBy
<1>10. Status(c) = Fully
    BY <1>4
<1> HIDE DEF c, V
<1>11. EnoughBy(ot, V)
    BY <1>5, <1>6, <1>7, <1>10, BackedStatus DEF FewKeys, Tallies
<1>12. EnoughBy(ot, CertifiersOf(web, u, t) \cap W)
    <2> DEFINE L == CertifiersOf(web, u, t) \cap W
    <2>1. V \in SUBSET L /\ L \in SUBSET Key /\ Grown(ot, ot)
        BY <1>7, GrownSame
    <2> HIDE DEF L
    <2>2. EnoughBy(ot, L)
        BY <1>11, <2>1, EnoughMore DEF FewKeys
    <2> QED BY <2>2 DEF L
<1> QED BY <1>3, <1>5, <1>9, <1>12 DEF Introduced

(* The validity that counts give is no more than what their signers give.  *)
LEMMA StatusBounded ==
  ASSUME IsFiniteSet(Key), NEW t, NEW u \in Uid, NEW K \in SUBSET Key, K # {},
         K \subseteq CertifiersOf(web, u, t), K \subseteq IntroducersOf(web, ot, t),
         IntroducersOf(web, ot, t) \in SUBSET Key,
         LiveAt(web, u, t), ~ExpiredAt(web, KeyOf(u), t),
         NEW c, c.full \in Nat, c.marginal \in Nat, Backed(ot, c, K)
  PROVE  Status(c) <= ValidityOf(web, ot, t, u)
<1> DEFINE L == CertifiersOf(web, u, t) \cap IntroducersOf(web, ot, t)
           v == ValidityOf(web, ot, t, u)
<1>1. L \in SUBSET Key /\ K \in SUBSET L /\ L # {} /\ Grown(ot, ot)
    BY GrownSame
<1>2. v = IF ot[KeyOf(u)] = Ultimate THEN Ultimate
          ELSE IF EnoughBy(ot, L) THEN Fully
          ELSE IF RatedBy(ot, L, Fully) \cup RatedBy(ot, L, Marginal) # {} THEN Marginal
          ELSE Undefined
    BY <1>1 DEF ValidityOf
<1> HIDE DEF v, L
<1>3. /\ Status(c) \in {Undefined, Marginal, Fully}
      /\ Status(c) = Fully => EnoughBy(ot, K)
      /\ Status(c) = Marginal =>
           EnoughBy(ot, K) \/ RatedBy(ot, K, Fully) \cup RatedBy(ot, K, Marginal) # {}
    BY BackedStatus
<1>4. EnoughBy(ot, K) => EnoughBy(ot, L)
    BY <1>1, EnoughMore
<1>5. RatedBy(ot, K, Fully) \cup RatedBy(ot, K, Marginal) # {} =>
        RatedBy(ot, L, Fully) \cup RatedBy(ot, L, Marginal) # {}
    BY <1>1 DEF RatedBy
<1>6. v \in {Undefined, Marginal, Fully, Ultimate}
      /\ (Status(c) = Fully => v \in {Fully, Ultimate})
      /\ (Status(c) = Marginal => v \in {Marginal, Fully, Ultimate})
    BY <1>2, <1>3, <1>4, <1>5
<1>7. Status(c) <= v
    BY <1>3, <1>6 DEF Undefined, Marginal, Fully, Ultimate
<1> QED BY <1>7 DEF v

(* What is stored during a check is bounded by the web of trust, as long   *)
(* as what the check has found so far has not ended.                       *)
LEMMA RoundsBounded ==
  ASSUME FewKeys, CountInv, TrustInv, RoundsSound, InRounds, NEW t, Endures(t)
  PROVE  Bounded(t)
<1> SUFFICES ASSUME NEW u \in Uid PROVE valid[u].value <= ValidityOf(web, ot, t, u)
    BY DEF Bounded
<1>1. Types
    BY DEF CountInv
<1>2. valid[u].value \in 0 .. Ultimate /\ valid[u].full \in Nat /\ valid[u].marginal \in Nat
    BY <1>1, RecordFields
<1>3. ValidityOf(web, ot, t, u) \in 0 .. Ultimate
    BY ValidityValue
<1>4. CASE valid[u].value = 0
    BY <1>3, <1>4
<1>5. CASE KeyOf(u) \in utk
    <2>1. ot[KeyOf(u)] = Ultimate
        BY <1>5 DEF TrustInv, OwnKeys
    <2>2. ValidityOf(web, ot, t, u) = Ultimate
        BY <2>1 DEF ValidityOf
    <2> QED BY <1>2, <2>2 DEF Ultimate
<1>6. CASE valid[u].value # 0 /\ KeyOf(u) \notin utk
    <2> DEFINE K == Votes(u, t, Counted)
    <2>1. Backed(ot, valid[u], K) /\ SignedBy(u, t, Counted)
        BY <1>6 DEF RoundsSound, RecordsBacked
    <2>2. valid[u].value = Status(valid[u])
        BY <1>6 DEF CountInv, CountsKept
    <2>3. IntroducersOf(web, ot, t) \in SUBSET Key
        BY GrownSame, IntroducersMore DEF FewKeys
    <2>4. run.depth \in 0 .. MaxDepth - 1 /\ run.used \in SUBSET Key /\ Counted \subseteq run.used
        BY <1>1 DEF Types, Runs, Counted
    <2>5. run.used \subseteq IntroducersOf(web, ot, t)
        <3>1. run.used \subseteq WithinOf(web, ot, t)[run.depth]
            BY DEF RoundsSound, UsedWithin
        <3> QED BY <2>4, <3>1, WithinRises
    <2>6. /\ K \in SUBSET Key /\ K # {} /\ K \subseteq CertifiersOf(web, u, t)
          /\ K \subseteq IntroducersOf(web, ot, t)
          /\ LiveAt(web, u, t) /\ ~ExpiredAt(web, KeyOf(u), t)
        BY <2>1, <2>4, <2>5 DEF SignedBy, Votes
    <2> HIDE DEF K
    <2>7. PICK c : c = valid[u]
        OBVIOUS
    <2>8. c.full \in Nat /\ c.marginal \in Nat /\ Backed(ot, c, K)
        BY <1>2, <2>1, <2>7
    <2>9. Status(c) <= ValidityOf(web, ot, t, u)
        BY <2>3, <2>6, <2>8, StatusBounded DEF FewKeys
    <2> QED BY <2>2, <2>7, <2>9
<1> QED BY <1>4, <1>5, <1>6

LEMMA RoundsExtend ==
  ASSUME FewKeys, CountInv, TrustInv, Types', RoundsSound, Extend
  PROVE  RoundsSound'
<1>1. Types
    BY DEF CountInv
<1>2. /\ run'.start = run.start /\ run'.expire = run.expire
      /\ run'.used = run.used \cup Joining
      /\ DOMAIN run'.klist = Joining
      /\ \A k \in Joining : run'.klist[k].value = run.found[k].pk.value
      /\ pc = "store" /\ pc' \in {"finish", "assign"}
      /\ pc' = "assign" => run'.depth = run.depth + 1 /\ run.depth + 1 \in 0 .. MaxDepth - 1
      /\ web' = web /\ ot' = ot /\ utk' = utk /\ now' = now /\ valid' = valid
    BY <1>1, ExtendKeeps
<1>3. /\ \A u, t, K : Votes(u, t, K)' = Votes(u, t, K)
      /\ \A u, t, K : SignedBy(u, t, K)' <=> SignedBy(u, t, K)
      /\ \A t : Endures(t)' <=> Endures(t)
      /\ \A t : Bounded(t)' <=> Bounded(t)
      /\ InRounds /\ Counted = run.used
    BY <1>2 DEF Votes, SignedBy, Endures, Bounded, InRounds, Counted
<1>4. Joining \in SUBSET DOMAIN run.found /\ Joining \cap run.used = {}
    BY <1>1, JoiningTypes
<1>5. pc' = "assign" => Counted' = run.used
    BY <1>2, <1>4 DEF Counted
<1>6. RoundTimes'
    BY <1>2 DEF RoundsSound, RoundTimes, Checking
<1>7. Ungranted' /\ RatingsRead' /\ ResultsBacked'
    BY <1>2, <1>4 DEF RoundsSound, Ungranted, RatingsRead, ResultsBacked
<1>8. run.depth \in 0 .. MaxDepth - 1 /\ run.depth \in Nat /\ run.used \in SUBSET Key
    BY <1>1 DEF Types, Runs
<1>9. UsedWithin'
    <2> SUFFICES ASSUME pc' = "assign", NEW t, Endures(t)
                 PROVE  run.used \cup Joining \subseteq WithinOf(web, ot, t)[run.depth + 1]
        BY <1>2, <1>3 DEF UsedWithin, InRounds
    <2>1. run.used \subseteq WithinOf(web, ot, t)[run.depth]
        BY <1>3 DEF RoundsSound, UsedWithin
    <2>2. Joining \subseteq Introduced(web, ot, t, WithinOf(web, ot, t)[run.depth])
        BY <1>1, <1>2, JoiningIntroduced
    <2>3. WithinOf(web, ot, t)[run.depth + 1] =
            WithinOf(web, ot, t)[run.depth]
              \cup Introduced(web, ot, t, WithinOf(web, ot, t)[run.depth])
        BY <1>2, <1>8, WithinFacts
    <2> QED BY <2>1, <2>2, <2>3
<1>10. RecordsBacked'
    BY <1>2, <1>3, <1>5 DEF RoundsSound, RecordsBacked, InRounds
<1>11. FinishBounded'
    BY <1>3, RoundsBounded DEF FinishBounded
<1> QED BY <1>6, <1>7, <1>9, <1>10, <1>11 DEF RoundsSound

-----------------------------------------------------------------------------
LEMMA BoundFinish ==
  ASSUME Types, RoundsSound, Finish
  PROVE  RoundsSound' /\ DoneBounded'
<1>1. /\ pc = "finish" /\ pc' = "idle" /\ web' = web /\ ot' = ot /\ valid' = valid
      /\ now' = now /\ nextcheck' = IF run.expire < run.start THEN 0 ELSE run.expire
    BY DEF Finish
<1>2. ~Checking'
    BY <1>1 DEF Checking
<1>3. now \in Nat /\ run.start \in Nat /\ run.expire \in Nat
    BY DEF Types, Runs
<1>4. run.expire = 0 \/ run.start <= run.expire
    BY <1>1 DEF RoundsSound, RoundTimes, Checking
<1>5. ASSUME NEW t \in Nat, t >= now, Unended(nextcheck', t)
      PROVE  Bounded(t)
    <2>1. Unended(run.expire, t)
        BY <1>1, <1>3, <1>4, <1>5 DEF Unended
    <2>2. Endures(t)
        BY <1>5, <2>1 DEF Endures
    <2> QED BY <1>1, <2>2 DEF RoundsSound, FinishBounded
<1>6. DoneBounded'
    <2>1. \A t : Bounded(t)' <=> Bounded(t)
        BY <1>1 DEF Bounded
    <2> QED BY <1>1, <1>5, <2>1 DEF DoneBounded
<1> QED BY <1>2, <1>6, OutOfRounds

LEMMA BoundNext == FewKeys /\ OwnKeysStay /\ BoundInv /\ [Next]_vars => BoundInv'
<1> SUFFICES ASSUME FewKeys, OwnKeysStay, BoundInv, [Next]_vars PROVE BoundInv'
    OBVIOUS
<1>0. Types /\ CountInv /\ TrustInv /\ OwnKeys /\ IsFiniteSet(Key) /\ now \in Nat
    BY DEF BoundInv, CountInv, TrustInv, Types, FewKeys
<1>1. CountInv' /\ TrustInv' /\ Types'
    BY <1>0, CountNext, TrustNext DEF CountInv
<1>2. web' = web
    BY DEF Next, vars, db, process, Tick, Start, End, SetOwnertrust, Stale, CheckOrUpdate,
       Forced, Begin, Assign, Quit, Scan, ScanFails, Store, Extend, Finish
<1>3. Plain' => Plain
    BY <1>2 DEF Plain
<1> SUFFICES ASSUME Plain, RoundsSound, DoneBounded PROVE RoundsSound' /\ DoneBounded'
    BY <1>1, <1>3 DEF BoundInv
<1>4. CASE /\ ot' = ot /\ valid' = valid /\ run' = run /\ pc' = pc /\ utk' = utk
           /\ nextcheck' = nextcheck /\ cut' = cut /\ now' \in Nat /\ now' >= now
    <2>1. Checking' <=> Checking
        BY <1>4 DEF Checking
    <2>2. RoundsSound'
        BY <1>0, <1>2, <1>4, RoundsKept
    <2>3. DoneBounded'
        BY <1>0, <1>2, <1>4, <2>1, DoneKept
    <2> QED BY <2>2, <2>3
<1>5. ASSUME NEW ask \in BOOLEAN, Begin(ask) PROVE RoundsSound' /\ DoneBounded'
    BY <1>0, <1>1, <1>5, RoundsBegin, StillChecking
<1>6. CASE Tick
    BY <1>0, <1>4, <1>6 DEF Tick, db, process
<1>7. CASE Start
    <2>1. ~Checking /\ ~Checking'
        BY <1>7 DEF Start, Checking
    <2>2. DoneBounded'
        BY <1>0, <1>2, <1>7, <2>1, DoneKept DEF Start, db
    <2> QED BY <2>1, <2>2, OutOfRounds
<1>8. CASE End
    <2>1. ~Checking'
        BY <1>8 DEF End, Checking
    <2>2. ~cut' => ~Checking /\ ~cut
        BY <1>8 DEF End
    <2>3. DoneBounded'
        BY <1>0, <1>2, <1>8, <2>2, DoneKept DEF End, db
    <2> QED BY <2>1, <2>3, OutOfRounds
<1>9. ASSUME NEW k \in Rateable, NEW value \in Assignable, SetOwnertrust(k, value)
      PROVE  RoundsSound' /\ DoneBounded'
    <2>1. ~Checking'
        BY <1>9 DEF SetOwnertrust, Checking
    <2>2. nextcheck' = 1 /\ now' = now /\ now \in 2 .. Horizon
        BY <1>0, <1>9 DEF SetOwnertrust, Types
    <2>3. \A t \in Nat : t >= now' => ~Unended(nextcheck', t)
        BY <2>2, AssignableAssumption DEF Unended
    <2>4. DoneBounded'
        BY <2>3 DEF DoneBounded
    <2> QED BY <2>1, <2>4, OutOfRounds
<1>10. CASE Stale
    <2>1. PICK noauto \in NoAutoCheck :
            IF (Due \/ pending) /\ ~noauto
              THEN Begin(FALSE)
              ELSE /\ pending' = (pending \/ Due)
                   /\ UNCHANGED <<web, now, db, pc, utk, run, cut, sets>>
        BY <1>10 DEF Stale
    <2>2. CASE Begin(FALSE)
        BY <1>5, <2>2
    <2>3. CASE UNCHANGED <<web, now, db, pc, utk, run, cut, sets>>
        BY <1>0, <1>4, <2>3 DEF db
    <2> QED BY <2>1, <2>2, <2>3
<1>11. CASE CheckOrUpdate
    BY <1>5, <1>11, AssignableAssumption DEF CheckOrUpdate
<1>12. CASE Forced
    BY <1>5, <1>12, AssignableAssumption DEF Forced
<1>13. CASE Assign
    <2>1. Checking'
        BY <1>13 DEF Assign, Checking
    <2> QED BY <1>0, <1>1, <1>13, <2>1, RoundsAssign, StillChecking
<1>14. CASE Quit \/ ScanFails
    <2>1. ~Checking' /\ cut'
        BY <1>14 DEF Quit, ScanFails, Checking
    <2>2. DoneBounded'
        BY <2>1 DEF DoneBounded
    <2> QED BY <2>1, <2>2, OutOfRounds
<1>15. CASE Scan
    <2>1. Checking'
        BY <1>15 DEF Scan, Checking
    <2> QED BY <1>0, <1>1, <1>15, <2>1, RoundsScan, StillChecking
<1>16. CASE Store
    <2>1. Checking'
        BY <1>16 DEF Store, Checking
    <2> QED BY <1>0, <1>1, <1>16, <2>1, RoundsStore, StillChecking
<1>17. CASE Extend
    <2>1. Checking'
        BY <1>17 DEF Extend, Checking
    <2> QED BY <1>0, <1>1, <1>17, <2>1, RoundsExtend, StillChecking
<1>18. CASE Finish
    BY <1>0, <1>18, BoundFinish
<1>19. CASE UNCHANGED vars
    BY <1>0, <1>4, <1>19 DEF vars, db, process
<1> QED BY <1>6, <1>7, <1>8, <1>9, <1>10, <1>11, <1>12, <1>13, <1>14, <1>15, <1>16,
           <1>17, <1>18, <1>19 DEF Next

LEMMA BoundInit == OwnKeysStay /\ Init => BoundInv
<1> SUFFICES ASSUME OwnKeysStay, Init PROVE BoundInv
    OBVIOUS
<1>1. CountInv /\ TrustInv /\ Types
    BY CountInit, TrustInit DEF CountInv
<1>2. pc = "off" /\ nextcheck = 1 /\ now \in 2 .. Horizon
    BY <1>1 DEF Init, Types
<1>3. RoundsSound
    BY <1>2 DEF Checking, RoundsSound, RoundTimes, Ungranted, RatingsRead, UsedWithin,
       RecordsBacked, ResultsBacked, FinishBounded, InRounds
<1>4. \A t \in Nat : t >= now => ~Unended(nextcheck, t)
    BY <1>2, AssignableAssumption DEF Unended
<1>5. DoneBounded
    BY <1>4 DEF DoneBounded
<1> QED BY <1>1, <1>3, <1>5 DEF BoundInv

(* In the middle of a check: what it has stored so far is no more than     *)
(* what the web of trust gives, until something that it relies on ends.    *)
BoundedSoFar ==
  Checking /\ Unended(run.expire, now) /\ Plain =>
    \A u \in Uid : valid[u].value <= Valid(now)[u]

LEMMA NeverMoreFrom ==
  ASSUME Types, Bounded(now)
  PROVE  \E v \in {Valid(now)} : \A u \in Uid : valid[u].value <= v[u]
<1>1. \A u \in Uid : valid[u].value <= Valid(now)[u]
    BY ValidIs DEF Bounded
<1> QED BY <1>1

(* No user id gets a validity during a check that the certificates and the *)
(* ownertrust do not justify: the rounds count no signer twice, none that  *)
(* is not yet introduced, and none whose certificate has ended.            *)
THEOREM BoundedSoFarAlways == ASSUME FewKeys, OwnKeysStay PROVE Spec => []BoundedSoFar
<1>1. BoundInv => BoundedSoFar
    <2> SUFFICES ASSUME BoundInv, Checking, Unended(run.expire, now), Plain
                 PROVE  \A u \in Uid : valid[u].value <= Valid(now)[u]
        BY DEF BoundedSoFar
    <2>1. CountInv /\ TrustInv /\ RoundsSound /\ now \in Nat
        BY DEF BoundInv, CountInv, Types
    <2>2. Endures(now)
        BY <2>1 DEF Endures
    <2>3. InRounds \/ pc = "finish"
        BY DEF Checking, InRounds
    <2>4. Bounded(now)
        BY <2>1, <2>2, <2>3, RoundsBounded DEF RoundsSound, FinishBounded
    <2> QED BY <2>4, ValidIs DEF Bounded
<1>2. Init => BoundInv
    BY BoundInit
<1>3. BoundInv /\ [Next]_vars => BoundInv'
    BY BoundNext
<1> QED BY <1>1, <1>2, <1>3, PTL DEF Spec

LEMMA BoundNeverMore ==
  ASSUME BoundInv, ~Checking, ~cut
  PROVE  NeverMore
<1> SUFFICES ASSUME ~Due, Plain
             PROVE  \E v \in {Valid(now)} : \A u \in Uid : valid[u].value <= v[u]
    BY DEF NeverMore
<1>1. Types /\ DoneBounded
    BY DEF BoundInv, CountInv
<1>2. now \in Nat /\ nextcheck \in Nat
    BY <1>1 DEF Types
<1>3. Unended(nextcheck, now)
    BY <1>2 DEF Due, Unended
<1>4. Bounded(now)
    BY <1>1, <1>2, <1>3 DEF DoneBounded
<1> QED BY <1>1, <1>4, NeverMoreFrom

(* A check that was finished justifies what is stored until the next one   *)
(* is due, whenever the check was made and however it was asked for.       *)
THEOREM NeverMoreDone ==
  ASSUME FewKeys, OwnKeysStay PROVE Spec => [](~Checking /\ ~cut => NeverMore)
<1>1. BoundInv => (~Checking /\ ~cut => NeverMore)
    BY BoundNeverMore
<1>2. Init => BoundInv
    BY BoundInit
<1>3. BoundInv /\ [Next]_vars => BoundInv'
    BY BoundNext
<1> QED BY <1>1, <1>2, <1>3, PTL DEF Spec

(* Checks are made only when they are due, as gpg does by itself and in    *)
(* batch mode.  Then one that is not finished is still due.                *)
OnlyWhenDue == MaxForced = 0
StillDue == forced \in Nat /\ (Checking \/ cut \/ pending => Due)

LEMMA StillDueNext ==
  OnlyWhenDue /\ Types /\ StillDue /\ [Next]_vars => StillDue'
<1> SUFFICES ASSUME OnlyWhenDue, Types, StillDue, [Next]_vars PROVE StillDue'
    OBVIOUS
<1>1. now \in 2 .. Horizon /\ nextcheck \in Nat /\ now \in Nat /\ now >= 2
    BY AssignableAssumption DEF Types
<1>2. CASE /\ nextcheck' = nextcheck /\ now' \in Nat /\ now' >= now /\ forced' = forced
           /\ Checking' \/ cut' \/ pending' => Due
    BY <1>1, <1>2 DEF StillDue, Due
<1>3. ASSUME NEW ask, Begin(ask), Due, forced' = forced PROVE StillDue'
    BY <1>1, <1>3 DEF Begin, Due, StillDue
<1>4. ~Forced
    <2>1. ~(forced < MaxForced)
        BY DEF OnlyWhenDue, StillDue
    <2> QED BY <2>1 DEF Forced
<1>5. CASE Tick
    BY <1>1, <1>2, <1>5 DEF Tick, db, process, StillDue, Checking
<1>6. CASE Start
    BY <1>1, <1>2, <1>6 DEF Start, db, StillDue, Checking
<1>7. CASE End
    <2>1. ~Checking' /\ ~pending' /\ (cut' => cut \/ Checking)
        BY <1>7 DEF End, Checking
    <2>2. nextcheck' = nextcheck /\ now' = now /\ forced' = forced
        BY <1>7 DEF End, db
    <2> QED BY <1>1, <1>2, <2>1, <2>2 DEF StillDue
<1>8. ASSUME NEW k \in Rateable, NEW value \in Assignable, SetOwnertrust(k, value)
      PROVE  StillDue'
    BY <1>1, <1>8 DEF SetOwnertrust, StillDue, Due
<1>9. CASE Stale
    <2>1. PICK noauto \in NoAutoCheck :
            IF (Due \/ pending) /\ ~noauto
              THEN Begin(FALSE)
              ELSE /\ pending' = (pending \/ Due)
                   /\ UNCHANGED <<web, now, db, pc, utk, run, cut, sets>>
        BY <1>9 DEF Stale
    <2>2. forced' = forced
        BY <1>9 DEF Stale
    <2>3. CASE (Due \/ pending) /\ Begin(FALSE)
        BY <1>3, <2>2, <2>3 DEF StillDue
    <2>4. CASE /\ pending' = (pending \/ Due)
               /\ UNCHANGED <<web, now, db, pc, utk, run, cut, sets>>
        <3>1. pending' => pending \/ Due
            BY <2>4
        <3>2. (Checking' => Checking) /\ (cut' => cut)
            BY <2>4 DEF Checking
        <3>3. nextcheck' = nextcheck /\ now' = now
            BY <2>4 DEF db
        <3> QED BY <1>1, <1>2, <2>2, <3>1, <3>2, <3>3 DEF StillDue
    <2> QED BY <2>1, <2>3, <2>4
<1>10. CASE CheckOrUpdate
    BY <1>3, <1>10 DEF CheckOrUpdate, StillDue
<1>11. ASSUME Checking, NEW K, NEW answer, Assigning(K, answer), now' = now, forced' = forced
       PROVE  StillDue'
    <2>1. nextcheck' = 1 \/ nextcheck' = nextcheck
        BY <1>11 DEF Assigning
    <2>2. Due'
        BY <1>1, <1>11, <2>1 DEF StillDue, Due
    <2> QED BY <1>11, <2>2 DEF StillDue
<1>12. CASE Assign
    BY <1>11, <1>12 DEF Assign, Checking
<1>13. CASE Quit
    BY <1>11, <1>13 DEF Quit, Checking
<1>14. CASE Scan \/ ScanFails \/ Store \/ Extend
    <2>1. /\ Checking /\ nextcheck' = nextcheck /\ now' = now /\ forced' = forced
        BY <1>14 DEF Scan, ScanFails, Store, Extend, db, process, Checking
    <2> QED BY <1>1, <1>2, <2>1 DEF StillDue
<1>15. CASE Finish
    <2>1. ~Checking' /\ ~cut' /\ ~pending' /\ forced' = forced
        BY <1>15 DEF Finish, Checking
    <2> QED BY <2>1 DEF StillDue
<1>16. CASE UNCHANGED vars
    BY <1>1, <1>2, <1>16 DEF vars, db, process, StillDue, Checking
<1> QED BY <1>4, <1>5, <1>6, <1>7, <1>8, <1>9, <1>10, <1>12, <1>13, <1>14, <1>15,
           <1>16 DEF Next

(* Nothing is ever shown as more valid than it is while no check is due.   *)
THEOREM NeverMoreAlways ==
  ASSUME FewKeys, OwnKeysStay, OnlyWhenDue PROVE Spec => []NeverMore
<1>1. BoundInv /\ StillDue => NeverMore
    <2>1. Due => NeverMore
        BY DEF NeverMore
    <2> QED BY <2>1, BoundNeverMore DEF StillDue
<1>2. Init => BoundInv /\ StillDue
    <2>1. Init => StillDue
        BY DEF Init, StillDue, Checking
    <2> QED BY <2>1, BoundInit
<1>3. BoundInv /\ StillDue /\ [Next]_vars => (BoundInv /\ StillDue)'
    <2>1. BoundInv => Types
        BY DEF BoundInv, CountInv
    <2> QED BY <2>1, BoundNext, StillDueNext
<1> QED BY <1>1, <1>2, <1>3, PTL DEF Spec
=============================================================================
