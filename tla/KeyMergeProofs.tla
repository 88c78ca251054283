--------------------------- MODULE KeyMergeProofs ---------------------------
(***************************************************************************)
(* Proofs about KeyMerge: whatever files are imported and in whatever      *)
(* order, the keyblock holds nothing twice that no file doubled on a user  *)
(* id, importing a file again changes nothing, and the web of trust is     *)
(* marked when it has to be computed anew.                                 *)
(***************************************************************************)
EXTENDS KeyMerge, SequenceTheorems, WellFoundedInduction, TLAPS

-----------------------------------------------------------------------------
(* Induction for sets of numbers, from the least element that is not in.   *)
LEMMA Climb ==
  ASSUME NEW T \in SUBSET Nat, 0 \in T, \A n \in T : n + 1 \in T
  PROVE  Nat \subseteq T
<1> DEFINE R == {ss \in Nat \X Nat : ss[1] < ss[2]}
<1> DEFINE Out == Nat \ T
<1> SUFFICES ASSUME Out # {} PROVE FALSE
    OBVIOUS
<1>1. IsWellFoundedOn(R, Nat)
    BY NatLessThanWellFounded DEF OpToRel
<1>2. PICK x \in Out : \A y \in Out : ~(<<y, x>> \in R)
    <2>1. Out \subseteq Nat
        OBVIOUS
    <2> QED BY <1>1, <2>1, WFMin
<1>3. x \in Nat /\ x # 0 /\ x \notin T
    BY <1>2
<1>4. x - 1 \in Nat /\ x - 1 < x /\ (x - 1) + 1 = x
    BY <1>3
<1>5. x - 1 \notin T
    BY <1>3, <1>4
<1> QED BY <1>2, <1>3, <1>4, <1>5

(* Putting sequences together, as FlattenSeq does: the sequence of what is *)
(* there after each of them.                                               *)
Joined(ss, g) ==
  g = [i \in 1 .. Len(ss) |-> IF i = 1 THEN ss[i] ELSE g[i - 1] \o ss[i]]

LEMMA JoinedExists ==
  ASSUME NEW S, NEW ss \in Seq(Seq(S))
  PROVE  \E g : Joined(ss, g)
<1> DEFINE N == Len(ss)
           Next_(g, i) == IF i = 1 THEN ss[i] ELSE g[i - 1] \o ss[i]
           Upto(g, n) == \A i \in 1 .. N : i <= n => g[i] = Next_(g, i)
           T == {n \in Nat : \E g : g = [i \in 1 .. N |-> g[i]] /\ Upto(g, n)}
<1>0. N \in Nat
    OBVIOUS
<1>1. 0 \in T
    <2> DEFINE g == [i \in 1 .. N |-> ss[i]]
    <2>1. g = [i \in 1 .. N |-> g[i]] /\ Upto(g, 0)
        OBVIOUS
    <2> QED BY <2>1
<1>2. ASSUME NEW n \in T PROVE n + 1 \in T
    <2>1. PICK g : g = [i \in 1 .. N |-> g[i]] /\ Upto(g, n)
        OBVIOUS
    <2> DEFINE h == [i \in 1 .. N |-> IF i = n + 1 THEN Next_(g, i) ELSE g[i]]
    <2>2. h = [i \in 1 .. N |-> h[i]]
        OBVIOUS
    <2>3. ASSUME NEW i \in 1 .. N, i <= n + 1 PROVE h[i] = Next_(h, i)
        <3>1. i # 1 => i - 1 \in 1 .. N /\ i - 1 # n + 1
            BY <1>0, <2>3
        <3>2. i # 1 => h[i - 1] = g[i - 1]
            BY <3>1
        <3>3. Next_(h, i) = Next_(g, i)
            BY <3>2
        <3>4. h[i] = IF i = n + 1 THEN Next_(g, i) ELSE g[i]
            OBVIOUS
        <3>5. i # n + 1 => g[i] = Next_(g, i)
            <4> HIDE DEF Next_
            <4>1. n \in Nat /\ \A j \in 1 .. N : j <= n => g[j] = Next_(g, j)
                BY <2>1
            <4> QED BY <2>3, <1>0, <4>1
        <3> QED BY <3>3, <3>4, <3>5
    <2>4. Upto(h, n + 1) /\ n + 1 \in Nat
        <3> HIDE DEF Next_, h
        <3> QED BY <2>3
    <2> HIDE DEF h, Upto
    <2> QED BY <2>2, <2>4
<1>3. N \in T
    <2> HIDE DEF T
    <2>1. T \in SUBSET Nat
        BY DEF T
    <2> QED BY <1>0, <1>1, <1>2, <2>1, Climb
<1>4. PICK g : g = [i \in 1 .. N |-> g[i]] /\ Upto(g, N)
    BY <1>3
<1>5. g = [i \in 1 .. N |-> Next_(g, i)]
    <2>1. \A i \in 1 .. N : g[i] = Next_(g, i)
        <3> HIDE DEF Next_
        <3> QED BY <1>4, <1>0
    <2> HIDE DEF Next_
    <2> QED BY <1>4, <2>1
<1> QED BY <1>5 DEF Joined

LEMMA FlattenJoins ==
  ASSUME NEW S, NEW ss \in Seq(Seq(S)), Len(ss) # 0
  PROVE  \E g : Joined(ss, g) /\ FlattenSeq(ss) = g[Len(ss)]
<1> DEFINE g == CHOOSE g : Joined(ss, g)
<1>1. Joined(ss, g)
    BY JoinedExists
<1>2. FlattenSeq(ss) = g[Len(ss)]
    BY DEF FlattenSeq, Joined
<1> QED BY <1>1, <1>2

(* What comes out of FlattenSeq was in one of the sequences.               *)
LEMMA FlattenFacts ==
  ASSUME NEW S, NEW ss \in Seq(Seq(S))
  PROVE  /\ FlattenSeq(ss) \in Seq(S)
         /\ \A n \in 1 .. Len(FlattenSeq(ss)) :
              \E i \in 1 .. Len(ss) : \E j \in 1 .. Len(ss[i]) :
                FlattenSeq(ss)[n] = ss[i][j]
<1> DEFINE N == Len(ss)
           From(q, x) == \E i \in 1 .. N : \E j \in 1 .. Len(ss[i]) : x = ss[i][j]
           Good(q) == q \in Seq(S) /\ \A n \in 1 .. Len(q) : From(q, q[n])
<1>0. N \in Nat /\ \A i \in 1 .. N : ss[i] \in Seq(S)
    OBVIOUS
<1>1. CASE N = 0
    <2>1. FlattenSeq(ss) = ss /\ ss = <<>>
        BY <1>1 DEF FlattenSeq
    <2> QED BY <2>1
<1>2. CASE N # 0
    <2>1. PICK g : Joined(ss, g) /\ FlattenSeq(ss) = g[N]
        BY <1>2, FlattenJoins
    <2>2. \A i \in 1 .. N : g[i] = IF i = 1 THEN ss[i] ELSE g[i - 1] \o ss[i]
        BY <2>1 DEF Joined
    <2>3. \A i \in 1 .. N : Good(ss[i])
        BY <1>0
    <2>4. ASSUME NEW q, NEW r, Good(q), Good(r) PROVE Good(q \o r)
        <3>1. q \o r \in Seq(S) /\ Len(q \o r) = Len(q) + Len(r)
            BY <2>4
        <3>2. ASSUME NEW n \in 1 .. Len(q \o r) PROVE From(q, (q \o r)[n])
            <4>1. CASE n <= Len(q)
                <5>1. (q \o r)[n] = q[n] /\ n \in 1 .. Len(q)
                    BY <4>1, <3>1, <2>4
                <5> HIDE DEF From
                <5> QED BY <5>1, <2>4
            <4>2. CASE n > Len(q)
                <5>1. (q \o r)[n] = r[n - Len(q)] /\ n - Len(q) \in 1 .. Len(r)
                    BY <4>2, <3>1, <2>4
                <5>2. From(r, r[n - Len(q)])
                    BY <5>1, <2>4
                <5> QED BY <5>1, <5>2
            <4>3. n <= Len(q) \/ n > Len(q)
                BY <3>1, <2>4
            <4> HIDE DEF From
            <4> QED BY <4>1, <4>2, <4>3
        <3>3. \A n \in 1 .. Len(q \o r) : From(q \o r, (q \o r)[n])
            BY <3>2
        <3> QED BY <3>1, <3>3
    <2> DEFINE T == {n \in Nat : n \in 1 .. N => Good(g[n])}
    <2> HIDE DEF Good
    <2>5. 0 \in T
        OBVIOUS
    <2>6. ASSUME NEW n \in T PROVE n + 1 \in T
        <3> SUFFICES ASSUME n + 1 \in 1 .. N PROVE Good(g[n + 1])
            OBVIOUS
        <3>1. n \in Nat /\ (n # 0 => n \in 1 .. N /\ n + 1 # 1) /\ (n + 1) - 1 = n
            BY <1>0
        <3>2. CASE n = 0
            BY <3>2, <2>2, <2>3
        <3>3. CASE n # 0
            <4>1. Good(g[n]) /\ Good(ss[n + 1])
                BY <3>1, <3>3, <2>3
            <4>2. g[n + 1] = g[n] \o ss[n + 1]
                BY <3>1, <3>3, <2>2
            <4> QED BY <4>1, <4>2, <2>4
        <3> QED BY <3>2, <3>3
    <2>7. N \in T
        <3> HIDE DEF T
        <3>1. T \in SUBSET Nat
            BY DEF T
        <3> QED BY <1>0, <2>5, <2>6, <3>1, Climb
    <2>8. Good(FlattenSeq(ss))
        BY <2>7, <2>1, <1>0, <1>2
    <2> QED BY <2>8 DEF Good
<1> QED BY <1>1, <1>2

(* Picked takes elements from different places of I.                       *)
Places(s, I, q, n) ==
  \E h \in [1 .. Len(q) -> 1 .. n] :
    /\ \A a \in 1 .. Len(q) : h[a] \in I /\ q[a] = s[h[a]]
    /\ \A a, b \in 1 .. Len(q) : h[a] = h[b] => a = b

LEMMA PickedFacts ==
  ASSUME NEW S, NEW s \in Seq(S), NEW I
  PROVE  Picked(s, I) \in Seq(S) /\ Places(s, I, Picked(s, I), Len(s))
<1> DEFINE N == Len(s)
           one(i) == IF i \in I THEN <<s[i]>> ELSE <<>>
           ss == [i \in DOMAIN s |-> one(i)]
           Good(q, n) == q \in Seq(S) /\ Places(s, I, q, n)
<1>0. /\ N \in Nat /\ DOMAIN s = 1 .. N
      /\ \A i \in 1 .. N : s[i] \in S /\ one(i) \in Seq(S)
    OBVIOUS
<1>1. ss \in Seq(Seq(S)) /\ Len(ss) = N /\ Picked(s, I) = FlattenSeq(ss)
    <2>1. Picked(s, I) = FlattenSeq(ss)
        BY DEF Picked
    <2> HIDE DEF one
    <2>2. ss \in [1 .. N -> Seq(S)]
        BY <1>0
    <2> HIDE DEF ss
    <2> QED BY <2>1, <2>2, <1>0
<1>2. ASSUME NEW n \in 1 .. N PROVE ss[n] = one(n)
    BY <1>0
<1>3. Good(<<>>, 0)
    <2> DEFINE h == [x \in 1 .. 0 |-> 0]
    <2>1. <<>> \in Seq(S) /\ 1 .. Len(<<>>) = {} /\ 1 .. 0 = {}
        OBVIOUS
    <2>2. h \in [1 .. Len(<<>>) -> 1 .. 0]
        BY <2>1
    <2> HIDE DEF h
    <2>3. Places(s, I, <<>>, 0)
        BY <2>1, <2>2 DEF Places
    <2> QED BY <2>1, <2>3
<1>4. ASSUME NEW n \in Nat, n + 1 <= N, NEW q, Good(q, n)
      PROVE  Good(q \o one(n + 1), n + 1)
    <2>0. q \in Seq(S) /\ Len(q) \in Nat /\ n + 1 \in 1 .. N
        BY <1>4, <1>0
    <2>1. PICK h \in [1 .. Len(q) -> 1 .. n] :
            /\ \A a \in 1 .. Len(q) : h[a] \in I /\ q[a] = s[h[a]]
            /\ \A a, b \in 1 .. Len(q) : h[a] = h[b] => a = b
        BY <1>4 DEF Places
    <2>2. CASE n + 1 \notin I
        <3>1. q \o one(n + 1) = q
            BY <2>0, <2>2
        <3>2. h \in [1 .. Len(q) -> 1 .. n + 1]
            BY <2>1
        <3>3. Places(s, I, q, n + 1)
            BY <3>2, <2>1 DEF Places
        <3> QED BY <3>1, <3>3, <2>0
    <2>3. CASE n + 1 \in I
        <3> DEFINE r == q \o one(n + 1)
                   k == [a \in 1 .. Len(r) |-> IF a = Len(q) + 1 THEN n + 1 ELSE h[a]]
        <3>1. /\ r \in Seq(S) /\ Len(r) = Len(q) + 1
              /\ r[Len(q) + 1] = s[n + 1] /\ \A a \in 1 .. Len(q) : r[a] = q[a]
            BY <2>0, <2>3, <1>0
        <3> HIDE DEF r
        <3>2. \A a \in 1 .. Len(r) : a # Len(q) + 1 => a \in 1 .. Len(q)
            BY <3>1, <2>0
        <3>3. k \in [1 .. Len(r) -> 1 .. n + 1]
            BY <3>2, <2>1
        <3>4. \A a \in 1 .. Len(r) : k[a] \in I /\ r[a] = s[k[a]]
            BY <3>1, <3>2, <2>1, <2>3
        <3>5. ASSUME NEW a \in 1 .. Len(r), NEW b \in 1 .. Len(r), k[a] = k[b]
              PROVE  a = b
            <4>1. \A x \in 1 .. Len(q) : h[x] # n + 1
                BY <2>1, <1>4
            <4>2. k[a] = n + 1 <=> a = Len(q) + 1
                BY <3>2, <4>1
            <4>3. k[b] = n + 1 <=> b = Len(q) + 1
                BY <3>2, <4>1
            <4>4. CASE a = Len(q) + 1
                BY <4>2, <4>3, <4>4, <3>5
            <4>5. CASE a # Len(q) + 1
                <5>1. a \in 1 .. Len(q) /\ b \in 1 .. Len(q)
                    BY <4>2, <4>3, <4>5, <3>5, <3>2
                <5>2. k[a] = h[a] /\ k[b] = h[b]
                    BY <4>2, <4>3, <4>5, <3>5
                <5> QED BY <5>1, <5>2, <3>5, <2>1
            <4> QED BY <4>4, <4>5
        <3> HIDE DEF k
        <3>6. Places(s, I, r, n + 1)
            BY <3>3, <3>4, <3>5 DEF Places
        <3> QED BY <3>1, <3>6 DEF r
    <2> QED BY <2>2, <2>3
<1>5. CASE N = 0
    <2>1. Picked(s, I) = <<>>
        BY <1>1, <1>5 DEF FlattenSeq
    <2> QED BY <2>1, <1>3, <1>5
<1>6. CASE N # 0
    <2>1. PICK g : Joined(ss, g) /\ FlattenSeq(ss) = g[N]
        BY <1>1, <1>6, FlattenJoins
    <2>2. \A i \in 1 .. N : g[i] = IF i = 1 THEN ss[i] ELSE g[i - 1] \o ss[i]
        BY <2>1, <1>1 DEF Joined
    <2> DEFINE T == {n \in Nat : n \in 1 .. N => Good(g[n], n)}
    <2>3. 0 \in T
        OBVIOUS
    <2>4. ASSUME NEW n \in T PROVE n + 1 \in T
        <3> SUFFICES ASSUME n + 1 \in 1 .. N PROVE Good(g[n + 1], n + 1)
            OBVIOUS
        <3>1. n \in Nat /\ (n # 0 => n \in 1 .. N /\ n + 1 # 1) /\ (n + 1) - 1 = n
            BY <1>0
        <3>2. ss[n + 1] = one(n + 1)
            BY <1>2
        <3>3. CASE n = 0
            <4>1. g[1] = ss[1]
                <5> HIDE DEF ss
                <5> QED BY <2>2, <3>3
            <4>2. one(1) \in Seq(S)
                BY <1>0, <3>3
            <4>3. <<>> \o one(1) = one(1)
                BY <4>2
            <4>4. Good(<<>> \o one(0 + 1), 0 + 1)
                <5> HIDE DEF Good, one
                <5>1. 0 \in Nat /\ 0 + 1 <= N
                    BY <3>3, <1>0
                <5> QED BY <5>1, <1>3, <1>4
            <4> HIDE DEF Good, one, ss
            <4> QED BY <3>2, <3>3, <4>1, <4>3, <4>4
        <3>4. CASE n # 0
            <4>1. g[n + 1] = g[n] \o one(n + 1)
                <5>1. g[n + 1] = g[(n + 1) - 1] \o ss[n + 1]
                    BY <3>1, <3>4, <2>2
                <5> QED BY <3>1, <3>2, <5>1
            <4>2. Good(g[n], n)
                BY <3>1, <3>4
            <4>3. n + 1 <= N
                BY <1>0
            <4> HIDE DEF Good, one
            <4>4. Good(g[n] \o one(n + 1), n + 1)
                BY <4>2, <4>3, <3>1, <1>4
            <4> QED BY <4>1, <4>4
        <3> QED BY <3>3, <3>4
    <2>5. N \in T
        <3> HIDE DEF T
        <3>1. T \in SUBSET Nat
            BY DEF T
        <3> QED BY <1>0, <2>3, <2>4, <3>1, Climb
    <2>6. Good(g[N], N)
        BY <2>5, <1>0, <1>6
    <2> QED BY <2>6, <2>1, <1>1
<1> QED BY <1>5, <1>6

-----------------------------------------------------------------------------
(* Cleaning the keyblock of a file.                                        *)

\* What is picked is from the sequence, and once if the places hold it once.
LEMMA PickedFrom ==
  ASSUME NEW S, NEW s \in Seq(S), NEW I
  PROVE  \A a \in 1 .. Len(Picked(s, I)) :
           \E i \in 1 .. Len(s) : i \in I /\ Picked(s, I)[a] = s[i]
BY PickedFacts DEF Places

LEMMA PickedOnce ==
  ASSUME NEW S, NEW s \in Seq(S), NEW I,
         \A i, j \in 1 .. Len(s) : i \in I /\ j \in I /\ s[i] = s[j] => i = j
  PROVE  IsInjective(Picked(s, I))
<1> DEFINE q == Picked(s, I)
<1>1. PICK h \in [1 .. Len(q) -> 1 .. Len(s)] :
        /\ \A a \in 1 .. Len(q) : h[a] \in I /\ q[a] = s[h[a]]
        /\ \A a, b \in 1 .. Len(q) : h[a] = h[b] => a = b
    BY PickedFacts DEF Places
<1>2. q \in Seq(S) /\ DOMAIN q = 1 .. Len(q)
    BY PickedFacts
<1> HIDE DEF q
<1>3. ASSUME NEW a \in DOMAIN q, NEW b \in DOMAIN q, q[a] = q[b] PROVE a = b
    BY <1>1, <1>2, <1>3
<1>4. IsInjective(q)
    BY <1>3 DEF IsInjective
<1> QED BY <1>4 DEF q

\* Parts with different ids: so are those picked.
Distinct(parts) ==
  \A i, j \in 1 .. Len(parts) : parts[i].id = parts[j].id => i = j

LEMMA PickedDistinct ==
  ASSUME NEW S, NEW s \in Seq(S), NEW I,
         \A i, j \in 1 .. Len(s) : i \in I /\ j \in I /\ s[i].id = s[j].id => i = j
  PROVE  Distinct(Picked(s, I))
<1> DEFINE q == Picked(s, I)
<1>1. PICK h \in [1 .. Len(q) -> 1 .. Len(s)] :
        /\ \A a \in 1 .. Len(q) : h[a] \in I /\ q[a] = s[h[a]]
        /\ \A a, b \in 1 .. Len(q) : h[a] = h[b] => a = b
    BY PickedFacts DEF Places
<1> HIDE DEF q
<1>2. ASSUME NEW a \in 1 .. Len(q), NEW b \in 1 .. Len(q), q[a].id = q[b].id
      PROVE  a = b
    BY <1>1, <1>2
<1>3. Distinct(q)
    BY <1>2 DEF Distinct
<1> QED BY <1>3 DEF q

\* Everything is there for the first time somewhere, and only once.
LEMMA FirstsFacts ==
  ASSUME NEW s, Len(s) \in Nat, DOMAIN s = 1 .. Len(s)
  PROVE  /\ Firsts(s) \subseteq 1 .. Len(s)
         /\ \A i, j \in Firsts(s) : s[i] = s[j] => i = j
         /\ \A k \in 1 .. Len(s) : \E i \in Firsts(s) : s[i] = s[k]
<1>1. Firsts(s) \subseteq 1 .. Len(s)
    BY DEF Firsts
<1>2. ASSUME NEW i \in Firsts(s), NEW j \in Firsts(s), s[i] = s[j] PROVE i = j
    <2>1. i \in 1 .. Len(s) /\ j \in 1 .. Len(s)
        BY <1>1
    <2>2. ~(i < j) /\ ~(j < i)
        BY <1>2, <2>1 DEF Firsts
    <2> QED BY <2>1, <2>2
<1>3. ASSUME NEW k \in 1 .. Len(s) PROVE \E i \in Firsts(s) : s[i] = s[k]
    <2> DEFINE R == {ss \in Nat \X Nat : ss[1] < ss[2]}
               same == {i \in 1 .. Len(s) : s[i] = s[k]}
    <2>1. IsWellFoundedOn(R, Nat)
        BY NatLessThanWellFounded DEF OpToRel
    <2>2. same \subseteq Nat /\ same # {}
        OBVIOUS
    <2>3. PICK i \in same : \A j \in same : ~(<<j, i>> \in R)
        BY <2>1, <2>2, WFMin
    <2>4. ASSUME NEW j \in 1 .. i - 1, s[j] = s[i] PROVE FALSE
        <3>1. j \in same /\ j \in Nat /\ i \in Nat /\ j < i
            BY <2>4
        <3> QED BY <2>3, <3>1
    <2>5. i \in Firsts(s)
        BY <2>4 DEF Firsts
    <2> QED BY <2>5
<1> QED BY <1>1, <1>2, <1>3

LEMMA DedupedFacts ==
  ASSUME NEW S, NEW s \in Seq(S)
  PROVE  /\ Deduped(s) \in Seq(S) /\ IsInjective(Deduped(s))
         /\ \A a \in 1 .. Len(Deduped(s)) : \E i \in 1 .. Len(s) : Deduped(s)[a] = s[i]
<1> DEFINE I == Firsts(s)
<1>1. Deduped(s) = Picked(s, I)
    BY DEF Deduped
<1>2. \A i, j \in 1 .. Len(s) : i \in I /\ j \in I /\ s[i] = s[j] => i = j
    BY FirstsFacts
<1> HIDE DEF I
<1>3. Picked(s, I) \in Seq(S)
    BY PickedFacts
<1>4. IsInjective(Picked(s, I))
    BY <1>2, PickedOnce
<1>5. \A a \in 1 .. Len(Picked(s, I)) : \E i \in 1 .. Len(s) : Picked(s, I)[a] = s[i]
    BY PickedFrom
<1> QED BY <1>1, <1>3, <1>4, <1>5

LEMMA PartFields ==
  ASSUME NEW p \in Parts
  PROVE  /\ p.sigs \in Seq(Signatures) /\ p = [id |-> p.id, sigs |-> p.sigs]
         /\ \A t \in Seq(Signatures) : [id |-> p.id, sigs |-> t] \in Parts
BY DEF Parts

LEMMA ReverseFacts ==
  ASSUME NEW S, NEW s \in Seq(S)
  PROVE  /\ Reverse(s) \in Seq(S) /\ Len(Reverse(s)) = Len(s)
         /\ \A i \in 1 .. Len(s) : /\ Len(s) - i + 1 \in 1 .. Len(s)
                                   /\ Reverse(s)[i] = s[Len(s) - i + 1]
BY DEF Reverse

LEMMA CollapsedFacts ==
  ASSUME NEW uids \in Seq(Parts)
  PROVE  /\ Collapsed(uids) \in Seq(Parts) /\ Distinct(Collapsed(uids))
         /\ \A a \in 1 .. Len(Collapsed(uids)) :
              /\ \/ IsInjective(Collapsed(uids)[a].sigs)
                 \/ \E i \in 1 .. Len(uids) : Lone(uids, i) /\ Collapsed(uids)[a] = uids[i]
              /\ \A b \in 1 .. Len(Collapsed(uids)[a].sigs) :
                   \E i \in 1 .. Len(uids) : \E j \in 1 .. Len(uids[i].sigs) :
                     Collapsed(uids)[a].sigs[b] = uids[i].sigs[j]
         /\ \A a \in 1 .. Len(Collapsed(uids)) :
              \E i \in 1 .. Len(uids) : Collapsed(uids)[a].id = uids[i].id
<1> DEFINE ids == [i \in DOMAIN uids |-> uids[i].id]
           first == Firsts(ids)
           one(id, i) == IF ids[i] = id THEN uids[i].sigs ELSE <<>>
           row(id) == [i \in DOMAIN uids |-> one(id, i)]
           all(id) == FlattenSeq(Reverse(row(id)))
           whole(i) == [id |-> ids[i], sigs |-> Deduped(all(ids[i]))]
           part(i) == IF Lone(uids, i) THEN uids[i] ELSE whole(i)
           c == [i \in DOMAIN uids |-> part(i)]
           N == Len(uids)
           From(x) == \E i \in 1 .. N : \E j \in 1 .. Len(uids[i].sigs) : x = uids[i].sigs[j]
<1>0. /\ N \in Nat /\ DOMAIN uids = 1 .. N /\ \A i \in 1 .. N : uids[i] \in Parts
      /\ DOMAIN ids = 1 .. N /\ Len(ids) = N /\ \A i \in 1 .. N : ids[i] = uids[i].id
    OBVIOUS
<1>1. Collapsed(uids) = Picked(c, first)
    BY DEF Collapsed
<1>2. ASSUME NEW id
      PROVE  /\ all(id) \in Seq(Signatures)
             /\ \A n \in 1 .. Len(all(id)) : From(all(id)[n])
    <2>1. \A i \in 1 .. N : one(id, i) \in Seq(Signatures)
        BY <1>0, PartFields
    <2>2. row(id) \in Seq(Seq(Signatures)) /\ Len(row(id)) = N
        <3> HIDE DEF one
        <3>1. row(id) \in [1 .. N -> Seq(Signatures)]
            BY <1>0, <2>1
        <3> HIDE DEF row
        <3> QED BY <1>0, <3>1
    <2>3. \A i \in 1 .. N : row(id)[i] = one(id, i)
        BY <1>0
    <2> DEFINE rev == Reverse(row(id))
    <2>4. /\ rev \in Seq(Seq(Signatures)) /\ Len(rev) = N
          /\ \A i \in 1 .. N : N - i + 1 \in 1 .. N /\ rev[i] = row(id)[N - i + 1]
        <3> HIDE DEF row
        <3> QED BY <2>2, ReverseFacts
    <2>5. all(id) = FlattenSeq(rev)
        OBVIOUS
    <2> HIDE DEF rev, all, row, From
    <2>6. all(id) \in Seq(Signatures)
        BY <2>4, <2>5, FlattenFacts
    <2>7. ASSUME NEW n \in 1 .. Len(all(id)) PROVE From(all(id)[n])
        <3>0. PICK i \in 1 .. N : \E j \in 1 .. Len(rev[i]) : all(id)[n] = rev[i][j]
            <4>1. /\ n \in 1 .. Len(FlattenSeq(rev)) /\ rev \in Seq(Seq(Signatures))
                  /\ all(id)[n] = FlattenSeq(rev)[n]
                BY <2>4, <2>5
            <4>2. \E i \in 1 .. Len(rev) : \E j \in 1 .. Len(rev[i]) :
                    FlattenSeq(rev)[n] = rev[i][j]
                BY <4>1, FlattenFacts
            <4> QED BY <2>4, <4>1, <4>2
        <3>1. PICK j \in 1 .. Len(rev[i]) : all(id)[n] = rev[i][j]
            BY <3>0
        <3>2. N - i + 1 \in 1 .. N /\ rev[i] = one(id, N - i + 1)
            <4>1. PICK e \in 1 .. N : e = N - i + 1 /\ rev[i] = row(id)[e]
                BY <2>4
            <4> HIDE DEF one
            <4> QED BY <2>3, <4>1
        <3>3. rev[i] = uids[N - i + 1].sigs
            <4>1. Len(<<>>) = 0
                OBVIOUS
            <4>2. rev[i] # <<>>
                BY <4>1, <3>1
            <4> QED BY <3>2, <4>2
        <3> QED BY <3>1, <3>2, <3>3 DEF From
    <2> QED BY <2>6, <2>7
<1>3. ASSUME NEW i \in 1 .. N
      PROVE  /\ part(i) \in Parts /\ part(i).id = uids[i].id
             /\ IsInjective(part(i).sigs) \/ (Lone(uids, i) /\ part(i) = uids[i])
             /\ \A n \in 1 .. Len(part(i).sigs) : From(part(i).sigs[n])
    <2> HIDE DEF all
    <2>1. CASE Lone(uids, i)
        <3>1. part(i) = uids[i]
            BY <2>1
        <3> HIDE DEF part
        <3> QED BY <1>0, <2>1, <3>1
    <2>2. CASE ~Lone(uids, i)
        <3> HIDE DEF From
        <3> DEFINE a == all(ids[i])
                   d == Deduped(a)
        <3>1. a \in Seq(Signatures) /\ \A n \in 1 .. Len(a) : From(a[n])
            BY <1>2
        <3>2. part(i) = [id |-> uids[i].id, sigs |-> d]
            BY <1>0, <2>2
        <3> HIDE DEF a
        <3>3. /\ d \in Seq(Signatures) /\ IsInjective(d)
              /\ \A n \in 1 .. Len(d) : \E m \in 1 .. Len(a) : d[n] = a[m]
            BY <3>1, DedupedFacts
        <3> HIDE DEF d, part
        <3>4. part(i) \in Parts
            BY <1>0, <3>2, <3>3, PartFields
        <3>5. \A n \in 1 .. Len(d) : From(d[n])
            BY <3>1, <3>3
        <3>6. part(i).id = uids[i].id /\ part(i).sigs = d
            BY <3>2
        <3> QED BY <3>3, <3>4, <3>5, <3>6
    <2> QED BY <2>1, <2>2
<1>4. /\ c \in Seq(Parts) /\ Len(c) = N
      /\ \A i \in 1 .. N : c[i] = part(i)
    <2> HIDE DEF part
    <2>1. c \in [1 .. N -> Parts]
        BY <1>0, <1>3
    <2>2. \A i \in 1 .. N : c[i] = part(i)
        BY <1>0
    <2> HIDE DEF c
    <2> QED BY <1>0, <2>1, <2>2
<1> HIDE DEF c, part, From
<1>5. ASSUME NEW i \in 1 .. N, NEW j \in 1 .. N, i \in first, j \in first,
             c[i].id = c[j].id
      PROVE  i = j
    <2>1. uids[i].id = uids[j].id
        BY <1>3, <1>4, <1>5
    <2>2. ids[i] = ids[j]
        BY <1>0, <2>1
    <2> HIDE DEF ids
    <2> QED BY <1>0, <1>5, <2>2, FirstsFacts
<1> HIDE DEF first
<1> DEFINE q == Picked(c, first)
<1>6. q \in Seq(Parts) /\ Distinct(q)
    BY <1>4, <1>5, PickedFacts, PickedDistinct
<1>7. ASSUME NEW a \in 1 .. Len(q)
      PROVE  /\ \/ IsInjective(q[a].sigs)
                \/ \E i \in 1 .. N : Lone(uids, i) /\ q[a] = uids[i]
             /\ \A b \in 1 .. Len(q[a].sigs) : From(q[a].sigs[b])
             /\ \E i \in 1 .. N : q[a].id = uids[i].id
    <2>1. PICK i \in 1 .. N : q[a] = c[i]
        BY <1>4, PickedFrom
    <2>2. q[a] = part(i)
        BY <2>1, <1>4
    <2> QED BY <2>2, <1>3
<1>8. Collapsed(uids) = q
    BY <1>1
<1> HIDE DEF q
<1> QED BY <1>6, <1>7, <1>8 DEF From

\* A sequence that holds a part of the signatures of another.
Within(q, sigs) ==
  /\ q \in Seq(Signatures)
  /\ \A a \in 1 .. Len(q) : \E i \in 1 .. Len(sigs) : q[a] = sigs[i]
  /\ IsInjective(sigs) => IsInjective(q)

LEMMA PickedWithin ==
  ASSUME NEW sigs \in Seq(Signatures), NEW I
  PROVE  Within(Picked(sigs, I), sigs)
<1>1. ASSUME IsInjective(sigs) PROVE IsInjective(Picked(sigs, I))
    <2>1. \A i, j \in 1 .. Len(sigs) : sigs[i] = sigs[j] => i = j
        BY <1>1 DEF IsInjective
    <2> QED BY <2>1, PickedOnce
<1> QED BY <1>1, PickedFacts, PickedFrom DEF Within

LEMMA CleanHeadFacts ==
  ASSUME NEW sigs \in Seq(Signatures)
  PROVE  Within(CleanHead(sigs), sigs)
<1> DEFINE I == {i \in DOMAIN sigs : LET s == sigs[i] IN
                   /\ ~OnSubkey(s)
                   /\ Self(s) /\ s.class \in {"keyrev", "direct"} => Verifies(s, Key)}
<1>1. CleanHead(sigs) = Picked(sigs, I)
    BY DEF CleanHead
<1> HIDE DEF I
<1> QED BY <1>1, PickedWithin

\* The same part with fewer signatures.
Lesser(p, u) == p \in Parts /\ p.id = u.id /\ Within(p.sigs, u.sigs)

LEMMA CleanUidFacts ==
  ASSUME NEW u \in Parts
  PROVE  Lesser(CleanUid(u), u)
<1> DEFINE I == {i \in DOMAIN u.sigs : LET s == u.sigs[i] IN
                   /\ s.class # "keyrev" /\ ~OnSubkey(s)
                   /\ Self(s) /\ s.class = "direct" => Verifies(s, Key)}
<1>1. CleanUid(u) = [id |-> u.id, sigs |-> Picked(u.sigs, I)]
    BY DEF CleanUid
<1> HIDE DEF I
<1>2. u.sigs \in Seq(Signatures)
    BY PartFields
<1>3. Within(Picked(u.sigs, I), u.sigs) /\ Picked(u.sigs, I) \in Seq(Signatures)
    BY <1>2, PickedWithin DEF Within
<1>4. CleanUid(u) \in Parts
    BY <1>1, <1>3, PartFields
<1> QED BY <1>1, <1>3, <1>4 DEF Lesser

LEMMA CleanSubkeyFacts ==
  ASSUME NEW k \in Parts
  PROVE  Lesser(CleanSubkey(k), k)
<1>1. PICK I : CleanSubkey(k) = [id |-> k.id, sigs |-> Picked(k.sigs, I)]
    BY DEF CleanSubkey
<1>2. k.sigs \in Seq(Signatures)
    BY PartFields
<1>3. Within(Picked(k.sigs, I), k.sigs) /\ Picked(k.sigs, I) \in Seq(Signatures)
    BY <1>2, PickedWithin DEF Within
<1>4. CleanSubkey(k) \in Parts
    BY <1>1, <1>3, PartFields
<1> QED BY <1>1, <1>3, <1>4 DEF Lesser

\* Parts each of which is one of others, with fewer signatures.
Reduced(q, parts) ==
  /\ q \in Seq(Parts)
  /\ \A a \in 1 .. Len(q) : \E i \in 1 .. Len(parts) : Lesser(q[a], parts[i])
  /\ Distinct(parts) => Distinct(q)

LEMMA LesserReduced ==
  ASSUME NEW parts \in Seq(Parts), NEW I, NEW q,
         q = [a \in DOMAIN Picked(parts, I) |-> q[a]],
         \A a \in DOMAIN Picked(parts, I) : Lesser(q[a], Picked(parts, I)[a])
  PROVE  Reduced(q, parts)
<1> DEFINE r == Picked(parts, I)
<1>1. r \in Seq(Parts) /\ DOMAIN r = 1 .. Len(r) /\ Len(r) \in Nat
    BY PickedFacts
<1>2. \A a \in 1 .. Len(r) : \E i \in 1 .. Len(parts) : r[a] = parts[i]
    BY PickedFrom
<1>3. Distinct(parts) => Distinct(r)
    BY PickedDistinct DEF Distinct
<1>4. q = [a \in DOMAIN r |-> q[a]] /\ \A a \in DOMAIN r : Lesser(q[a], r[a])
    OBVIOUS
<1> HIDE DEF r
<1>5. q \in [1 .. Len(r) -> Parts]
    BY <1>1, <1>4 DEF Lesser
<1>6. q \in Seq(Parts) /\ Len(q) = Len(r)
    BY <1>1, <1>5
<1>7. \A a \in 1 .. Len(q) : \E i \in 1 .. Len(parts) : Lesser(q[a], parts[i])
    BY <1>1, <1>2, <1>4, <1>6
<1>8. \A a \in 1 .. Len(q) : q[a].id = r[a].id
    BY <1>1, <1>4, <1>6 DEF Lesser
<1>9. Distinct(r) => Distinct(q)
    BY <1>6, <1>8 DEF Distinct
<1> QED BY <1>3, <1>6, <1>7, <1>9 DEF Reduced

LEMMA BlockFields ==
  ASSUME NEW b \in Keyblock
  PROVE  b.head \in Seq(Signatures) /\ b.uids \in Seq(Parts) /\ b.subs \in Seq(Parts)
BY DEF Keyblock

LEMMA CleanReduces ==
  ASSUME NEW f \in Keyblock
  PROVE  /\ Clean(f) \in Keyblock
         /\ Within(Clean(f).head, f.head)
         /\ Reduced(Clean(f).uids, Collapsed(f.uids))
         /\ Reduced(Clean(f).subs, f.subs)
<1> DEFINE uids == Collapsed(f.uids)
           signed == {i \in DOMAIN uids : SelfSigned(uids[i])}
           bound == {i \in DOMAIN f.subs : Bound(f.subs[i])}
           us == [i \in DOMAIN Picked(uids, signed) |-> CleanUid(Picked(uids, signed)[i])]
           ks == [i \in DOMAIN Picked(f.subs, bound) |-> CleanSubkey(Picked(f.subs, bound)[i])]
<1>1. Clean(f) = [head |-> CleanHead(f.head), uids |-> us, subs |-> ks]
    BY DEF Clean, Map
<1>2. f.head \in Seq(Signatures) /\ f.uids \in Seq(Parts) /\ f.subs \in Seq(Parts)
    BY BlockFields
<1>3. uids \in Seq(Parts)
    BY <1>2, CollapsedFacts
<1> HIDE DEF uids, signed, bound
<1>4. Picked(uids, signed) \in Seq(Parts) /\ Picked(f.subs, bound) \in Seq(Parts)
    BY <1>2, <1>3, PickedFacts
<1>5. Reduced(us, uids)
    <2>1. \A a \in DOMAIN Picked(uids, signed) : Lesser(us[a], Picked(uids, signed)[a])
        BY <1>4, CleanUidFacts
    <2>2. us = [a \in DOMAIN Picked(uids, signed) |-> us[a]]
        OBVIOUS
    <2> HIDE DEF us
    <2> QED BY <1>3, <2>1, <2>2, LesserReduced
<1>6. Reduced(ks, f.subs)
    <2>1. \A a \in DOMAIN Picked(f.subs, bound) : Lesser(ks[a], Picked(f.subs, bound)[a])
        BY <1>4, CleanSubkeyFacts
    <2>2. ks = [a \in DOMAIN Picked(f.subs, bound) |-> ks[a]]
        OBVIOUS
    <2> HIDE DEF ks
    <2> QED BY <1>2, <2>1, <2>2, LesserReduced
<1>7. Within(CleanHead(f.head), f.head)
    BY <1>2, CleanHeadFacts
<1> HIDE DEF us, ks
<1>8. Clean(f) \in Keyblock
    BY <1>1, <1>5, <1>6, <1>7 DEF Keyblock, Reduced, Within
<1> QED BY <1>1, <1>5, <1>6, <1>7, <1>8 DEF uids

-----------------------------------------------------------------------------
(* Merging.                                                                *)

LEMMA ConcatOnce ==
  ASSUME NEW S, NEW q \in Seq(S), NEW r \in Seq(S),
         IsInjective(q), IsInjective(r),
         \A i \in 1 .. Len(q) : \A j \in 1 .. Len(r) : q[i] # r[j]
  PROVE  IsInjective(q \o r)
<1> DEFINE w == q \o r
<1>1. /\ DOMAIN w = 1 .. Len(w) /\ Len(w) = Len(q) + Len(r)
      /\ Len(q) \in Nat /\ Len(r) \in Nat
      /\ DOMAIN q = 1 .. Len(q) /\ DOMAIN r = 1 .. Len(r)
    OBVIOUS
<1>2. \A i \in 1 .. Len(w) : \/ i \in 1 .. Len(q) /\ w[i] = q[i]
                             \/ i - Len(q) \in 1 .. Len(r) /\ w[i] = r[i - Len(q)]
    OBVIOUS
<1> HIDE DEF w
<1>3. ASSUME NEW a \in DOMAIN w, NEW b \in DOMAIN w, w[a] = w[b] PROVE a = b
    <2>1. CASE a \in 1 .. Len(q) /\ w[a] = q[a] /\ b \in 1 .. Len(q) /\ w[b] = q[b]
        BY <1>1, <1>3, <2>1 DEF IsInjective
    <2>2. CASE /\ a - Len(q) \in 1 .. Len(r) /\ w[a] = r[a - Len(q)]
               /\ b - Len(q) \in 1 .. Len(r) /\ w[b] = r[b - Len(q)]
        <3>1. a - Len(q) = b - Len(q)
            BY <1>1, <1>3, <2>2 DEF IsInjective
        <3> QED BY <3>1, <1>1
    <2> QED BY <1>1, <1>2, <1>3, <2>1, <2>2
<1> QED BY <1>3 DEF w, IsInjective

LEMMA ReverseOnce ==
  ASSUME NEW S, NEW s \in Seq(S), IsInjective(s)
  PROVE  IsInjective(Reverse(s))
<1> DEFINE r == Reverse(s)
<1>1. /\ DOMAIN r = 1 .. Len(s) /\ DOMAIN s = 1 .. Len(s) /\ Len(s) \in Nat
      /\ \A i \in 1 .. Len(s) : /\ Len(s) - i + 1 \in 1 .. Len(s)
                                /\ r[i] = s[Len(s) - i + 1]
    BY ReverseFacts
<1> HIDE DEF r
<1>2. ASSUME NEW a \in DOMAIN r, NEW b \in DOMAIN r, r[a] = r[b] PROVE a = b
    <2>1. Len(s) - a + 1 = Len(s) - b + 1
        BY <1>1, <1>2 DEF IsInjective
    <2> QED BY <2>1, <1>1
<1> QED BY <1>2 DEF r, IsInjective

LEMMA HeadMergedFacts ==
  ASSUME NEW old \in Seq(Signatures), NEW new \in Seq(Signatures), NEW class
  PROVE  /\ HeadMerged(old, new, class) \in Seq(Signatures)
         /\ IsInjective(old) => IsInjective(HeadMerged(old, new, class))
<1> DEFINE fresh == {i \in Firsts(new) : new[i].class = class /\ ~Contains(old, new[i])}
           p == Picked(new, fresh)
           r == Reverse(p)
<1>1. HeadMerged(old, new, class) = r \o old
    BY DEF HeadMerged
<1>2. p \in Seq(Signatures) /\ \A a \in 1 .. Len(p) : ~Contains(old, p[a])
    <2>1. \A a \in 1 .. Len(p) : \E i \in 1 .. Len(new) : i \in fresh /\ p[a] = new[i]
        <3> HIDE DEF fresh
        <3> QED BY PickedFrom
    <2> HIDE DEF p
    <2>2. \A a \in 1 .. Len(p) : ~Contains(old, p[a])
        BY <2>1
    <2> QED BY <2>2, PickedFacts DEF p
<1>3. /\ r \in Seq(Signatures)
      /\ \A i \in 1 .. Len(r) : \E a \in 1 .. Len(p) : r[i] = p[a]
    <2> HIDE DEF p
    <2> QED BY <1>2, ReverseFacts
<1>4. \A i \in 1 .. Len(r) : \A j \in 1 .. Len(old) : r[i] # old[j]
    <2> HIDE DEF p, r
    <2> QED BY <1>2, <1>3 DEF Contains
<1>5. IsInjective(r)
    <2>1. \A i, j \in 1 .. Len(new) : i \in fresh /\ j \in fresh /\ new[i] = new[j] => i = j
        BY FirstsFacts
    <2>2. IsInjective(p)
        <3> HIDE DEF fresh
        <3> QED BY <2>1, PickedOnce
    <2> HIDE DEF p
    <2> QED BY <2>2, <1>2, ReverseOnce
<1> HIDE DEF r
<1>6. r \o old \in Seq(Signatures)
    BY <1>3
<1>7. IsInjective(old) => IsInjective(r \o old)
    BY <1>3, <1>4, <1>5, ConcatOnce
<1> QED BY <1>1, <1>6, <1>7

LEMMA FixedHeadFacts ==
  ASSUME NEW sigs \in Seq(Signatures)
  PROVE  Within(FixedHead(sigs), sigs)
BY PickedWithin DEF FixedHead

\* merge_sigs leaves what is there in its place, and what it adds is from the file.
Extends(q, old, new) ==
  /\ q \in Seq(Signatures) /\ Len(old) <= Len(q)
  /\ \A a \in 1 .. Len(old) : q[a] = old[a]
  /\ \A a \in Len(old) + 1 .. Len(q) : \E j \in 1 .. Len(new) : q[a] = new[j]

LEMMA SigsMergedFacts ==
  ASSUME NEW old \in Seq(Signatures), NEW new \in Seq(Signatures)
  PROVE  /\ SigsMerged(old, new) \in Seq(Signatures)
         /\ Extends(SigsMerged(old, new), old, new)
         /\ IsInjective(old) => IsInjective(SigsMerged(old, new))
<1> DEFINE fresh == {i \in Firsts(new) : ~OnSubkey(new[i]) /\ ~Contains(old, new[i])}
           p == Picked(new, fresh)
<1>1. SigsMerged(old, new) = old \o p
    BY DEF SigsMerged
<1>2. \A a \in 1 .. Len(p) : \E i \in 1 .. Len(new) : i \in fresh /\ p[a] = new[i]
    <2> HIDE DEF fresh
    <2> QED BY PickedFrom
<1>3. p \in Seq(Signatures) /\ IsInjective(p)
    <2>1. \A i, j \in 1 .. Len(new) : i \in fresh /\ j \in fresh /\ new[i] = new[j] => i = j
        BY FirstsFacts
    <2> HIDE DEF fresh
    <2> QED BY <2>1, PickedFacts, PickedOnce
<1> HIDE DEF p
<1>4. \A i \in 1 .. Len(old) : \A j \in 1 .. Len(p) : old[i] # p[j]
    BY <1>2 DEF Contains
<1>5. IsInjective(old) => IsInjective(old \o p)
    BY <1>3, <1>4, ConcatOnce
<1> HIDE DEF fresh
<1>6. Extends(old \o p, old, new)
    <2>1. /\ old \o p \in Seq(Signatures) /\ Len(old \o p) = Len(old) + Len(p)
          /\ Len(old) \in Nat /\ Len(p) \in Nat
        BY <1>3
    <2>2. \A a \in 1 .. Len(old) : (old \o p)[a] = old[a]
        BY <1>3
    <2>3. ASSUME NEW a \in Len(old) + 1 .. Len(old \o p)
          PROVE  \E j \in 1 .. Len(new) : (old \o p)[a] = new[j]
        <3>1. a - Len(old) \in 1 .. Len(p) /\ (old \o p)[a] = p[a - Len(old)]
            BY <2>1, <2>3, <1>3
        <3> QED BY <3>1, <1>2
    <2> QED BY <2>1, <2>2, <2>3 DEF Extends
<1> QED BY <1>1, <1>5, <1>6 DEF Extends

\* merge_keysigs, signature by signature: what is there after each.
Step(q, s) == IF Known(s, q) THEN q ELSE Append(q, s)
Folded(new, old, g) ==
  g = [s \in SUBSET DOMAIN new |->
         IF s = {} THEN old ELSE Step(g[s \ {Max(s)}], new[Max(s)])]

LEMMA MaxOfLast ==
  ASSUME NEW n \in Nat, NEW s \in SUBSET (1 .. n + 1), n + 1 \in s
  PROVE  Max(s) = n + 1 /\ s \ {Max(s)} \subseteq 1 .. n
<1>1. n + 1 \in s /\ \A y \in s : n + 1 >= y
    OBVIOUS
<1>2. Max(s) \in s /\ \A y \in s : Max(s) >= y
    BY <1>1 DEF Max
<1>3. Max(s) >= n + 1 /\ Max(s) \in 1 .. n + 1
    BY <1>1, <1>2
<1>4. Max(s) = n + 1
    BY <1>3
<1> QED BY <1>4

LEMMA FoldedExists ==
  ASSUME NEW new, Len(new) \in Nat, DOMAIN new = 1 .. Len(new), NEW old
  PROVE  \E g : Folded(new, old, g)
<1> DEFINE N == Len(new)
           D == SUBSET (1 .. N)
           rest(s) == s \ {Max(s)}
           Value(g, s) == IF s = {} THEN old ELSE Step(g[rest(s)], new[Max(s)])
           Upto(g, n) == \A s \in D : s \subseteq 1 .. n => g[s] = Value(g, s)
           T == {n \in Nat : \E g : g = [s \in D |-> g[s]] /\ Upto(g, n)}
<1>1. 0 \in T
    <2> DEFINE g == [s \in D |-> old]
    <2>1. \A s \in D : s \subseteq 1 .. 0 => s = {}
        OBVIOUS
    <2>2. g = [s \in D |-> g[s]]
        OBVIOUS
    <2>3. \A s \in D : g[s] = old
        OBVIOUS
    <2> HIDE DEF g, D
    <2>4. Upto(g, 0)
        BY <2>1, <2>3
    <2> HIDE DEF Upto
    <2> QED BY <2>2, <2>4
<1>2. ASSUME NEW n \in T PROVE n + 1 \in T
    <2>0. n \in Nat
        OBVIOUS
    <2>1. PICK g : g = [s \in D |-> g[s]] /\ Upto(g, n)
        OBVIOUS
    <2> DEFINE h == [s \in D |-> IF s \subseteq 1 .. n THEN g[s] ELSE Value(g, s)]
    <2>2. h = [s \in D |-> h[s]]
        OBVIOUS
    <2>3. \A s \in D : h[s] = IF s \subseteq 1 .. n THEN g[s] ELSE Value(g, s)
        OBVIOUS
    <2> HIDE DEF h
    <2>4. ASSUME NEW s \in D, s \subseteq 1 .. n + 1 PROVE h[s] = Value(h, s)
        <3>1. rest(s) \in D
            OBVIOUS
        <3>2. rest(s) \subseteq 1 .. n
            <4>1. CASE n + 1 \in s
                BY <4>1, <2>0, <2>4, MaxOfLast
            <4>2. CASE n + 1 \notin s
                BY <4>2, <2>0, <2>4
            <4> QED BY <4>1, <4>2
        <3> HIDE DEF D, rest
        <3>3. h[rest(s)] = g[rest(s)]
            BY <3>1, <3>2, <2>3
        <3>4. Value(h, s) = Value(g, s)
            BY <3>3
        <3>5. s \subseteq 1 .. n => g[s] = Value(g, s)
            <4> HIDE DEF Value
            <4> QED BY <2>1
        <3> HIDE DEF Value
        <3> QED BY <3>4, <3>5, <2>3
    <2>5. Upto(h, n + 1)
        <3> HIDE DEF Value
        <3> QED BY <2>4
    <2> HIDE DEF Upto, D
    <2> QED BY <2>0, <2>2, <2>5
<1>3. N \in T
    <2> HIDE DEF T
    <2>1. T \in SUBSET Nat
        BY DEF T
    <2> QED BY <1>1, <1>2, <2>1, Climb
<1>4. PICK g : g = [s \in D |-> g[s]] /\ Upto(g, N)
    BY <1>3
<1>5. \A s \in D : g[s] = Value(g, s)
    <2> HIDE DEF Value
    <2> QED BY <1>4
<1>6. g = [s \in D |-> Value(g, s)]
    <2> HIDE DEF Value, D
    <2> QED BY <1>4, <1>5
<1>7. Folded(new, old, g)
    BY <1>6 DEF Folded
<1> QED BY <1>7

LEMMA KeysigsFolded ==
  ASSUME NEW new, Len(new) \in Nat, DOMAIN new = 1 .. Len(new), NEW old
  PROVE  \E g : Folded(new, old, g) /\ KeysigsMerged(old, new) = g[1 .. Len(new)]
<1> DEFINE g == CHOOSE g : Folded(new, old, g)
<1>1. Folded(new, old, g)
    BY FoldedExists
<1>2. KeysigsMerged(old, new) = g[1 .. Len(new)]
    BY DEF KeysigsMerged, FoldLeft, MapThenFoldSet, Folded, Step
<1> QED BY <1>1, <1>2

LEMMA FoldedSteps ==
  ASSUME NEW new, Len(new) \in Nat, DOMAIN new = 1 .. Len(new), NEW old,
         NEW g, Folded(new, old, g)
  PROVE  /\ g[1 .. 0] = old
         /\ \A n \in Nat : n + 1 \in 1 .. Len(new) =>
              g[1 .. n + 1] = Step(g[1 .. n], new[n + 1])
<1>1. g[1 .. 0] = old
    BY DEF Folded
<1>2. ASSUME NEW n \in Nat, n + 1 \in 1 .. Len(new)
      PROVE  g[1 .. n + 1] = Step(g[1 .. n], new[n + 1])
    <2> DEFINE s == 1 .. n + 1
    <2>0. s \subseteq 1 .. Len(new)
        BY <1>2
    <2>1. s \in SUBSET DOMAIN new /\ n + 1 \in s /\ s # {} /\ s \ {n + 1} = 1 .. n
        <3>1. n + 1 \in s /\ s \ {n + 1} = 1 .. n
            BY <1>2
        <3> HIDE DEF s
        <3> QED BY <2>0, <3>1
    <2>2. Max(s) = n + 1
        BY <2>1, MaxOfLast
    <2> HIDE DEF s
    <2>3. g[s] = Step(g[s \ {Max(s)}], new[Max(s)])
        BY <2>1 DEF Folded
    <2>4. g[s] = Step(g[1 .. n], new[n + 1])
        BY <2>1, <2>2, <2>3
    <2> QED BY <2>4 DEF s
<1> QED BY <1>1, <1>2

LEMMA KeysigsMergedFacts ==
  ASSUME NEW old \in Seq(Signatures), NEW new \in Seq(Signatures)
  PROVE  /\ KeysigsMerged(old, new) \in Seq(Signatures)
         /\ IsInjective(old) => IsInjective(KeysigsMerged(old, new))
<1> DEFINE N == Len(new)
           Good(q) == q \in Seq(Signatures) /\ (IsInjective(old) => IsInjective(q))
<1>0. /\ N \in Nat /\ DOMAIN new = 1 .. N
      /\ \A i \in 1 .. N : new[i] \in Signatures
    OBVIOUS
<1>1. PICK g : Folded(new, old, g) /\ KeysigsMerged(old, new) = g[1 .. N]
    BY <1>0, KeysigsFolded
<1>2. g[1 .. 0] = old
    BY <1>0, <1>1, FoldedSteps
<1>3. ASSUME NEW n \in Nat, n + 1 \in 1 .. N
      PROVE  g[1 .. n + 1] = Step(g[1 .. n], new[n + 1])
    BY <1>0, <1>1, <1>3, FoldedSteps
<1>4. ASSUME NEW q, Good(q), NEW s \in Signatures PROVE Good(Step(q, s))
    <2>1. CASE Known(s, q)
        BY <2>1, <1>4 DEF Step
    <2>2. CASE ~Known(s, q)
        <3>1. q \in Seq(Signatures) /\ Step(q, s) = Append(q, s)
            BY <1>4, <2>2 DEF Step
        <3>2. \A i \in 1 .. Len(q) : q[i] # s
            <4>1. s.time <= s.time
                BY FileAssumption
            <4> QED BY <2>2, <3>1, <4>1 DEF Known, Some
        <3>3. /\ Append(q, s) \in Seq(Signatures)
              /\ DOMAIN Append(q, s) = 1 .. Len(q) + 1 /\ DOMAIN q = 1 .. Len(q)
              /\ Append(q, s)[Len(q) + 1] = s /\ Len(q) \in Nat
              /\ \A i \in 1 .. Len(q) : Append(q, s)[i] = q[i]
            BY <3>1
        <3>4. ASSUME IsInjective(q) PROVE IsInjective(Append(q, s))
            <4> DEFINE r == Append(q, s)
            <4> HIDE DEF r
            <4>1. ASSUME NEW a \in DOMAIN r, NEW b \in DOMAIN r, r[a] = r[b] PROVE a = b
                BY <4>1, <3>2, <3>3, <3>4 DEF IsInjective, r
            <4> QED BY <4>1 DEF IsInjective, r
        <3> QED BY <3>1, <3>3, <3>4, <1>4
    <2> QED BY <2>1, <2>2
<1>5. Good(old)
    OBVIOUS
<1> DEFINE T == {n \in Nat : n <= N => Good(g[1 .. n])}
<1> HIDE DEF Good
<1>6. 0 \in T
    BY <1>2, <1>5
<1>7. ASSUME NEW n \in T PROVE n + 1 \in T
    <2> SUFFICES ASSUME n + 1 <= N PROVE Good(g[1 .. n + 1])
        OBVIOUS
    <2>1. n \in Nat /\ n + 1 \in 1 .. N
        BY <1>0
    <2>2. Good(g[1 .. n])
        BY <2>1, <1>0
    <2> QED BY <2>1, <2>2, <1>0, <1>3, <1>4
<1>8. N \in T
    <2> HIDE DEF T
    <2>1. T \in SUBSET Nat
        BY DEF T
    <2> QED BY <1>0, <1>6, <1>7, <2>1, Climb
<1>9. Good(KeysigsMerged(old, new))
    BY <1>0, <1>1, <1>8
<1> QED BY <1>9 DEF Good

\* Merging the parts: those of the keyring keep their places and names.
Retains(q, old) ==
  /\ q \in Seq(Parts) /\ Len(q) = Len(old)
  /\ \A a \in 1 .. Len(old) : q[a].id = old[a].id
  /\ \A a \in 1 .. Len(old) : IsInjective(old[a].sigs) => IsInjective(q[a].sigs)

LEMMA AppendedFacts ==
  ASSUME NEW old \in Seq(Parts), NEW new \in Seq(Parts), NEW q, Retains(q, old)
  PROVE  /\ q \o Appended(old, new) \in Seq(Parts)
         /\ Len(q) <= Len(q \o Appended(old, new))
         /\ \A a \in 1 .. Len(q) : (q \o Appended(old, new))[a] = q[a]
         /\ \A a \in 1 .. Len(q \o Appended(old, new)) : a > Len(q) =>
              \E i \in 1 .. Len(new) : (q \o Appended(old, new))[a] = new[i]
         /\ Distinct(old) /\ Distinct(new) => Distinct(q \o Appended(old, new))
<1> DEFINE lacking == {i \in DOMAIN new : ~Has(old, new[i].id)}
           p == Picked(new, lacking)
           r == q \o p
<1>1. Appended(old, new) = p
    BY DEF Appended
<1>2. \A a \in 1 .. Len(p) : \E i \in 1 .. Len(new) : i \in lacking /\ p[a] = new[i]
    <2> HIDE DEF lacking
    <2> QED BY PickedFrom
<1>3. /\ p \in Seq(Parts)
      /\ Distinct(new) => Distinct(p)
    <2> HIDE DEF lacking
    <2>1. Distinct(new) => Distinct(p)
        BY PickedDistinct DEF Distinct
    <2> QED BY <2>1, PickedFacts
<1> HIDE DEF p
<1>4. q \in Seq(Parts) /\ Len(q) = Len(old) /\ Len(q) \in Nat /\ Len(p) \in Nat
    BY <1>3 DEF Retains
<1>5. /\ r \in Seq(Parts) /\ Len(r) = Len(q) + Len(p)
      /\ \A a \in 1 .. Len(q) : r[a] = q[a]
      /\ \A a \in 1 .. Len(r) : a > Len(q) =>
           a - Len(q) \in 1 .. Len(p) /\ r[a] = p[a - Len(q)]
    <2>0. p \in Seq(Parts) /\ q \in Seq(Parts)
        BY <1>3, <1>4
    <2>1. r \in Seq(Parts) /\ Len(r) = Len(q) + Len(p)
        BY <2>0
    <2>2. \A a \in 1 .. Len(q) : r[a] = q[a]
        BY <2>0
    <2>3. ASSUME NEW a \in 1 .. Len(r), a > Len(q)
          PROVE  a - Len(q) \in 1 .. Len(p) /\ r[a] = p[a - Len(q)]
        <3>1. a - Len(q) \in 1 .. Len(p)
            <4> HIDE DEF r
            <4> QED BY <1>4, <2>1, <2>3
        <3>2. r[a] = p[a - Len(q)]
            BY <1>4, <2>0, <2>1, <2>3
        <3> QED BY <3>1, <3>2
    <2> QED BY <2>1, <2>2, <2>3
<1> HIDE DEF r
<1>6. \A a \in 1 .. Len(r) : a > Len(q) => \E i \in 1 .. Len(new) : r[a] = new[i]
    <2> SUFFICES ASSUME NEW a \in 1 .. Len(r), a > Len(q)
                 PROVE  \E i \in 1 .. Len(new) : r[a] = new[i]
        OBVIOUS
    <2>1. PICK x \in 1 .. Len(p) : r[a] = p[x]
        BY <1>5
    <2> QED BY <1>2, <2>1
<1>7. \A i \in 1 .. Len(q) : \A j \in 1 .. Len(p) : q[i].id # p[j].id
    <2> SUFFICES ASSUME NEW i \in 1 .. Len(q), NEW j \in 1 .. Len(p)
                 PROVE  q[i].id # p[j].id
        OBVIOUS
    <2>1. ~Has(old, p[j].id)
        BY <1>2
    <2>2. q[i].id = old[i].id /\ i \in DOMAIN old
        BY <1>4 DEF Retains
    <2> QED BY <2>1, <2>2 DEF Has
<1>8. ASSUME Distinct(old), Distinct(new),
             NEW a \in 1 .. Len(r), NEW b \in 1 .. Len(r), r[a].id = r[b].id
      PROVE  a = b
    <2>1. CASE a <= Len(q) /\ b <= Len(q)
        <3>0. a \in 1 .. Len(q) /\ b \in 1 .. Len(q)
            BY <1>4, <1>5, <2>1
        <3>1. a \in 1 .. Len(old) /\ b \in 1 .. Len(old) /\ q[a].id = q[b].id
            BY <1>4, <1>5, <1>8, <3>0
        <3>2. old[a].id = old[b].id
            BY <3>1 DEF Retains
        <3> QED BY <3>1, <3>2, <1>8 DEF Distinct
    <2>2. CASE a > Len(q) /\ b > Len(q)
        <3> DEFINE i == a - Len(q)
                   j == b - Len(q)
        <3>0. /\ i \in 1 .. Len(p) /\ r[a] = p[i]
              /\ j \in 1 .. Len(p) /\ r[b] = p[j]
            BY <1>5, <2>2
        <3>1. i = j
            <4> HIDE DEF i, j
            <4> QED BY <1>3, <1>8, <3>0 DEF Distinct
        <3> QED BY <3>1, <1>4
    <2>3. CASE a <= Len(q) /\ b > Len(q)
        <3> DEFINE j == b - Len(q)
        <3>1. a \in 1 .. Len(q) /\ r[a] = q[a]
            BY <1>4, <1>5, <2>3
        <3>2. j \in 1 .. Len(p) /\ r[b] = p[j]
            BY <1>5, <2>3
        <3> HIDE DEF j
        <3> QED BY <1>7, <1>8, <3>1, <3>2
    <2>4. CASE a > Len(q) /\ b <= Len(q)
        <3> DEFINE j == a - Len(q)
        <3>1. b \in 1 .. Len(q) /\ r[b] = q[b]
            BY <1>4, <1>5, <2>4
        <3>2. j \in 1 .. Len(p) /\ r[a] = p[j]
            BY <1>5, <2>4
        <3> HIDE DEF j
        <3> QED BY <1>7, <1>8, <3>1, <3>2
    <2> QED BY <2>1, <2>2, <2>3, <2>4, <1>4
<1>9. Distinct(old) /\ Distinct(new) => Distinct(r)
    BY <1>8 DEF Distinct
<1>10. Len(q) <= Len(r)
    BY <1>4, <1>5
<1>11. q \o Appended(old, new) = r
    BY <1>1 DEF r
<1> QED BY <1>5, <1>6, <1>9, <1>10, <1>11

\* No signature twice, but on parts with these ids.
AllOnce(parts, but) ==
  \A i \in 1 .. Len(parts) : IsInjective(parts[i].sigs) \/ parts[i].id \in but

\* What merge_blocks makes of user ids or subkeys.
Grown(r, old, new) ==
  /\ r \in Seq(Parts) /\ Len(old) <= Len(r)
  /\ \A a \in 1 .. Len(old) : r[a].id = old[a].id
  /\ \A a \in 1 .. Len(r) : a > Len(old) => \E i \in 1 .. Len(new) : r[a] = new[i]
  /\ Distinct(old) /\ Distinct(new) => Distinct(r)
  /\ \A but : AllOnce(old, but) /\ AllOnce(new, but) => AllOnce(r, but)

LEMMA GrownFacts ==
  ASSUME NEW old \in Seq(Parts), NEW new \in Seq(Parts), NEW q, Retains(q, old)
  PROVE  /\ Grown(q \o Appended(old, new), old, new)
         /\ \A a \in 1 .. Len(old) : (q \o Appended(old, new))[a] = q[a]
<1> DEFINE r == q \o Appended(old, new)
<1>1. /\ r \in Seq(Parts) /\ Len(q) <= Len(r)
      /\ \A a \in 1 .. Len(q) : r[a] = q[a]
      /\ \A a \in 1 .. Len(r) : a > Len(q) => \E i \in 1 .. Len(new) : r[a] = new[i]
      /\ Distinct(old) /\ Distinct(new) => Distinct(r)
    BY AppendedFacts
<1>2. Len(q) = Len(old) /\ Len(old) \in Nat /\ \A a \in 1 .. Len(old) : q[a].id = old[a].id
    BY DEF Retains
<1> HIDE DEF r
<1>3. ASSUME NEW but, AllOnce(old, but), AllOnce(new, but), NEW a \in 1 .. Len(r)
      PROVE  IsInjective(r[a].sigs) \/ r[a].id \in but
    <2>1. CASE a <= Len(q)
        <3>1. a \in 1 .. Len(old) /\ r[a] = q[a] /\ q[a].id = old[a].id
            BY <1>1, <1>2, <2>1
        <3>2. IsInjective(old[a].sigs) => IsInjective(q[a].sigs)
            BY <3>1 DEF Retains
        <3> QED BY <1>3, <3>1, <3>2 DEF AllOnce
    <2>2. CASE a > Len(q)
        BY <1>1, <1>3, <2>2 DEF AllOnce
    <2> QED BY <2>1, <2>2, <1>2
<1>4. \A but : AllOnce(old, but) /\ AllOnce(new, but) => AllOnce(r, but)
    BY <1>3 DEF AllOnce
<1>5. Grown(r, old, new)
    BY <1>1, <1>2, <1>4 DEF Grown
<1> QED BY <1>1, <1>2, <1>5 DEF r

LEMMA PartOfFacts ==
  ASSUME NEW parts \in Seq(Parts), NEW id, Has(parts, id)
  PROVE  \E j \in 1 .. Len(parts) : PartOf(parts, id) = parts[j] /\ parts[j].id = id
<1>1. \E j \in DOMAIN parts : parts[j].id = id
    BY DEF Has
<1>2. DOMAIN parts = 1 .. Len(parts)
    OBVIOUS
<1> QED BY <1>1, <1>2 DEF PartOf

\* Signatures on the user ids are kept, and those that come are from the file.
Carried(r, old, new) ==
  \A a \in 1 .. Len(old) :
    /\ Len(old[a].sigs) <= Len(r[a].sigs)
    /\ \A j \in 1 .. Len(old[a].sigs) : r[a].sigs[j] = old[a].sigs[j]
    /\ \A j \in Len(old[a].sigs) + 1 .. Len(r[a].sigs) :
         \E i \in 1 .. Len(new) : \E k \in 1 .. Len(new[i].sigs) :
           r[a].sigs[j] = new[i].sigs[k]

LEMMA UidsMergedFacts ==
  ASSUME NEW old \in Seq(Parts), NEW new \in Seq(Parts)
  PROVE  /\ Grown(PartsMerged(old, new, SigsMerged), old, new)
         /\ Carried(PartsMerged(old, new, SigsMerged), old, new)
<1> DEFINE two(p) == [id |-> p.id, sigs |-> SigsMerged(p.sigs, PartOf(new, p.id).sigs)]
           one(p) == IF Has(new, p.id) THEN two(p) ELSE p
           q == [i \in DOMAIN old |-> one(old[i])]
<1>1. PartsMerged(old, new, SigsMerged) = q \o Appended(old, new)
    BY DEF PartsMerged, Map
<1>2. /\ Len(old) \in Nat /\ DOMAIN old = 1 .. Len(old)
      /\ \A a \in 1 .. Len(old) : old[a] \in Parts /\ old[a].sigs \in Seq(Signatures)
    BY PartFields
<1>3. ASSUME NEW a \in 1 .. Len(old)
      PROVE  /\ one(old[a]) \in Parts /\ one(old[a]).id = old[a].id
             /\ IsInjective(old[a].sigs) => IsInjective(one(old[a]).sigs)
             /\ \/ one(old[a]) = old[a]
                \/ \E i \in 1 .. Len(new) :
                     Extends(one(old[a]).sigs, old[a].sigs, new[i].sigs)
    <2>1. CASE Has(new, old[a].id)
        <3>1. PICK i \in 1 .. Len(new) : PartOf(new, old[a].id) = new[i]
            BY <2>1, PartOfFacts
        <3>2. new[i] \in Parts /\ new[i].sigs \in Seq(Signatures)
            BY PartFields
        <3> DEFINE m == SigsMerged(old[a].sigs, new[i].sigs)
        <3>3. one(old[a]) = [id |-> old[a].id, sigs |-> m]
            BY <2>1, <3>1
        <3> HIDE DEF one
        <3>4. /\ m \in Seq(Signatures)
              /\ Extends(m, old[a].sigs, new[i].sigs)
              /\ IsInjective(old[a].sigs) => IsInjective(m)
            BY <1>2, <3>2, SigsMergedFacts
        <3> HIDE DEF m
        <3>5. [id |-> old[a].id, sigs |-> m] \in Parts
            BY <1>2, <3>4, PartFields
        <3> QED BY <3>3, <3>4, <3>5
    <2>2. CASE ~Has(new, old[a].id)
        <3>1. one(old[a]) = old[a]
            BY <2>2
        <3> HIDE DEF one
        <3> QED BY <3>1, <1>2
    <2> QED BY <2>1, <2>2
<1> HIDE DEF one
<1>4. /\ q \in Seq(Parts) /\ Len(q) = Len(old)
      /\ \A a \in 1 .. Len(old) : q[a] = one(old[a])
    <2>1. q \in [1 .. Len(old) -> Parts] /\ \A a \in 1 .. Len(old) : q[a] = one(old[a])
        BY <1>2, <1>3
    <2> HIDE DEF q
    <2> QED BY <2>1, <1>2
<1> HIDE DEF q
<1>5. Retains(q, old)
    BY <1>3, <1>4 DEF Retains
<1> DEFINE r == q \o Appended(old, new)
<1>7. Grown(r, old, new) /\ \A a \in 1 .. Len(old) : r[a] = q[a]
    BY <1>5, GrownFacts
<1> HIDE DEF r
<1>8. ASSUME NEW a \in 1 .. Len(old)
      PROVE  /\ Len(old[a].sigs) <= Len(r[a].sigs)
             /\ \A j \in 1 .. Len(old[a].sigs) : r[a].sigs[j] = old[a].sigs[j]
             /\ \A j \in Len(old[a].sigs) + 1 .. Len(r[a].sigs) :
                  \E i \in 1 .. Len(new) : \E k \in 1 .. Len(new[i].sigs) :
                    r[a].sigs[j] = new[i].sigs[k]
    <2>1. r[a] = one(old[a])
        BY <1>4, <1>7
    <2>2. CASE one(old[a]) = old[a]
        <3>1. r[a].sigs = old[a].sigs /\ Len(old[a].sigs) \in Nat
            BY <2>1, <2>2, <1>2
        <3> QED BY <3>1
    <2>3. CASE \E i \in 1 .. Len(new) : Extends(one(old[a]).sigs, old[a].sigs, new[i].sigs)
        BY <2>1, <2>3 DEF Extends
    <2> QED BY <1>3, <2>2, <2>3
<1>9. Carried(r, old, new)
    BY <1>8 DEF Carried
<1> QED BY <1>1, <1>7, <1>9 DEF r

LEMMA SubsMergedFacts ==
  ASSUME NEW old \in Seq(Parts), NEW new \in Seq(Parts)
  PROVE  Grown(PartsMerged(old, new, KeysigsMerged), old, new)
<1> DEFINE two(p) == [id |-> p.id, sigs |-> KeysigsMerged(p.sigs, PartOf(new, p.id).sigs)]
           one(p) == IF Has(new, p.id) THEN two(p) ELSE p
           q == [i \in DOMAIN old |-> one(old[i])]
<1>1. PartsMerged(old, new, KeysigsMerged) = q \o Appended(old, new)
    BY DEF PartsMerged, Map
<1>2. /\ Len(old) \in Nat /\ DOMAIN old = 1 .. Len(old)
      /\ \A a \in 1 .. Len(old) : old[a] \in Parts /\ old[a].sigs \in Seq(Signatures)
    BY PartFields
<1>3. ASSUME NEW a \in 1 .. Len(old)
      PROVE  /\ one(old[a]) \in Parts /\ one(old[a]).id = old[a].id
             /\ IsInjective(old[a].sigs) => IsInjective(one(old[a]).sigs)
    <2>1. CASE Has(new, old[a].id)
        <3>1. PICK i \in 1 .. Len(new) : PartOf(new, old[a].id) = new[i]
            BY <2>1, PartOfFacts
        <3>2. new[i] \in Parts /\ new[i].sigs \in Seq(Signatures)
            BY PartFields
        <3> DEFINE m == KeysigsMerged(old[a].sigs, new[i].sigs)
        <3>3. one(old[a]) = [id |-> old[a].id, sigs |-> m]
            BY <2>1, <3>1
        <3> HIDE DEF one
        <3>4. /\ m \in Seq(Signatures)
              /\ IsInjective(old[a].sigs) => IsInjective(m)
            BY <1>2, <3>2, KeysigsMergedFacts
        <3> HIDE DEF m
        <3>5. [id |-> old[a].id, sigs |-> m] \in Parts
            BY <1>2, <3>4, PartFields
        <3> QED BY <3>3, <3>4, <3>5
    <2>2. CASE ~Has(new, old[a].id)
        <3>1. one(old[a]) = old[a]
            BY <2>2
        <3> HIDE DEF one
        <3> QED BY <3>1, <1>2
    <2> QED BY <2>1, <2>2
<1> HIDE DEF one
<1>4. /\ q \in Seq(Parts) /\ Len(q) = Len(old)
      /\ \A a \in 1 .. Len(old) : q[a] = one(old[a])
    <2>1. q \in [1 .. Len(old) -> Parts] /\ \A a \in 1 .. Len(old) : q[a] = one(old[a])
        BY <1>2, <1>3
    <2> HIDE DEF q
    <2> QED BY <2>1, <1>2
<1> HIDE DEF q
<1>5. Retains(q, old)
    BY <1>3, <1>4 DEF Retains
<1> QED BY <1>1, <1>5, GrownFacts

LEMMA MergedFacts ==
  ASSUME NEW o \in Keyblock, NEW c \in Keyblock
  PROVE  /\ Merged(o, c) \in Keyblock
         /\ IsInjective(o.head) => IsInjective(Merged(o, c).head)
         /\ Grown(Merged(o, c).uids, o.uids, c.uids)
         /\ Carried(Merged(o, c).uids, o.uids, c.uids)
         /\ Grown(Merged(o, c).subs, o.subs, c.subs)
<1> DEFINE h == FixedHead(o.head)
           k == HeadMerged(h, c.head, "keyrev")
           d == HeadMerged(k, c.head, "direct")
           us == PartsMerged(o.uids, c.uids, SigsMerged)
           ks == PartsMerged(o.subs, c.subs, KeysigsMerged)
<1>1. Merged(o, c) = [head |-> d, uids |-> us, subs |-> ks]
    BY DEF Merged
<1>2. /\ o.head \in Seq(Signatures) /\ o.uids \in Seq(Parts) /\ o.subs \in Seq(Parts)
      /\ c.head \in Seq(Signatures) /\ c.uids \in Seq(Parts) /\ c.subs \in Seq(Parts)
    BY BlockFields
<1>3. h \in Seq(Signatures) /\ (IsInjective(o.head) => IsInjective(h))
    BY <1>2, FixedHeadFacts DEF Within
<1> HIDE DEF h
<1>4. /\ k \in Seq(Signatures)
      /\ IsInjective(o.head) => IsInjective(k)
    BY <1>2, <1>3, HeadMergedFacts
<1> HIDE DEF k
<1>5. /\ d \in Seq(Signatures)
      /\ IsInjective(o.head) => IsInjective(d)
    BY <1>2, <1>4, HeadMergedFacts
<1> HIDE DEF d
<1>6. Grown(us, o.uids, c.uids) /\ Carried(us, o.uids, c.uids)
    BY <1>2, UidsMergedFacts
<1>7. Grown(ks, o.subs, c.subs)
    BY <1>2, SubsMergedFacts
<1> HIDE DEF us, ks
<1>8. us \in Seq(Parts) /\ ks \in Seq(Parts)
    BY <1>6, <1>7 DEF Grown
<1>9. Merged(o, c) \in Keyblock
    BY <1>1, <1>5, <1>8 DEF Keyblock
<1> QED BY <1>1, <1>5, <1>6, <1>7, <1>9

-----------------------------------------------------------------------------
(* What an import leaves in the keyring.                                   *)

Certified(b, c) == [head |-> <<c>> \o b.head, uids |-> b.uids, subs |-> b.subs]

\* The keyblock after a step: that of before, or what the step has written.
LEMMA Writes ==
  ASSUME [Next]_vars
  PROVE  /\ told \subseteq told'
         /\ \/ ring' = ring
            \/ \E f \in File : f \in told' /\ ring' = <<Clean(f)>>
            \/ \E f \in File : /\ f \in told' /\ ring # <<>>
                               /\ ring' = <<Merged(ring[1], Clean(f))>>
            \/ \E c \in Cert : /\ ring # <<>> /\ ~Contains(ring[1].head, c)
                               /\ ring' = <<Certified(ring[1], c)>>
<1>1. CASE UNCHANGED vars
    BY <1>1 DEF vars
<1>2. ASSUME NEW f \in File, Refuse(f) PROVE ring' = ring /\ told \subseteq told'
    BY <1>2 DEF Refuse, Leave
<1>3. ASSUME NEW f \in File, Insert(f)
      PROVE  ring' = <<Clean(f)>> /\ told' = told \cup {f}
    BY <1>3 DEF Insert, Write
<1>4. ASSUME NEW f \in File, Merge(f)
      PROVE  /\ told' = told \cup {f}
             /\ \/ ring' = ring
                \/ ring # <<>> /\ ring' = <<Merged(ring[1], Clean(f))>>
    BY <1>4 DEF Merge, Write, Leave
<1>5. ASSUME NEW c \in Cert, Revoke(c)
      PROVE  /\ told' = told
             /\ \/ ring' = ring
                \/ /\ ring # <<>> /\ ~Contains(ring[1].head, c)
                   /\ ring' = <<Certified(ring[1], c)>>
    BY <1>5 DEF Revoke, Write, Leave, Certified
<1>6. ASSUME Mark \/ Check PROVE ring' = ring /\ told' = told
    BY <1>6 DEF Mark, Check
<1> QED BY <1>1, <1>2, <1>3, <1>4, <1>5, <1>6 DEF Next

LEMMA CertifiedFacts ==
  ASSUME NEW b \in Keyblock, NEW c \in Cert
  PROVE  /\ Certified(b, c) \in Keyblock
         /\ Certified(b, c).uids = b.uids /\ Certified(b, c).subs = b.subs
         /\ IsInjective(b.head) /\ ~Contains(b.head, c)
              => IsInjective(Certified(b, c).head)
<1>1. c \in Signatures
    BY DEF Signatures
<1>2. b.head \in Seq(Signatures) /\ b.uids \in Seq(Parts) /\ b.subs \in Seq(Parts)
    BY BlockFields
<1>3. Certified(b, c) = [head |-> <<c>> \o b.head, uids |-> b.uids, subs |-> b.subs]
    BY DEF Certified
<1>4. <<c>> \in Seq(Signatures) /\ Len(<<c>>) = 1 /\ <<c>>[1] = c /\ IsInjective(<<c>>)
    BY <1>1 DEF IsInjective
<1>5. ASSUME IsInjective(b.head), ~Contains(b.head, c)
      PROVE  IsInjective(<<c>> \o b.head)
    <2> DEFINE q == <<c>>
    <2>1. q \in Seq(Signatures) /\ IsInjective(q)
        BY <1>4
    <2>2. \A i \in 1 .. Len(q) : \A j \in 1 .. Len(b.head) : q[i] # b.head[j]
        BY <1>4, <1>5 DEF Contains
    <2> HIDE DEF q
    <2>3. IsInjective(q \o b.head)
        BY <1>2, <1>5, <2>1, <2>2, ConcatOnce
    <2> QED BY <2>3 DEF q
<1>6. <<c>> \o b.head \in Seq(Signatures)
    BY <1>2, <1>4
<1> QED BY <1>2, <1>3, <1>5, <1>6 DEF Keyblock

LEMMA CleanTyped ==
  ASSUME NEW f \in File
  PROVE  f \in Keyblock /\ Clean(f) \in Keyblock
BY FileAssumption, CleanReduces

LEMMA TypeInit == Init => TypeOK
<1>1. Len(<<>>) = 0 /\ <<>> \in Seq(Keyblock)
    OBVIOUS
<1> SUFFICES ASSUME Init PROVE TypeOK
    OBVIOUS
<1>2. ring \in Seq(Keyblock) /\ Len(ring) <= 1
    BY <1>1 DEF Init
<1>3. /\ marking \in BOOLEAN /\ marked \in BOOLEAN /\ unseen \in BOOLEAN
      /\ told \subseteq File /\ certs \subseteq Cert
    BY DEF Init
<1> QED BY <1>2, <1>3 DEF TypeOK

LEMMA TypeNext == TypeOK /\ [Next]_vars => TypeOK'
<1> SUFFICES ASSUME TypeOK, [Next]_vars PROVE TypeOK'
    OBVIOUS
<1>1. ring' \in Seq(Keyblock) /\ Len(ring') <= 1
    <2>1. CASE ring' = ring
        BY <2>1 DEF TypeOK
    <2>2. ASSUME NEW b \in Keyblock, ring' = <<b>>
          PROVE  ring' \in Seq(Keyblock) /\ Len(ring') <= 1
        BY <2>2
    <2>3. ring # <<>> => ring[1] \in Keyblock
        BY DEF TypeOK
    <2>4. CASE \E f \in File : ring' = <<Clean(f)>>
        BY <2>2, <2>4, CleanTyped
    <2>5. CASE \E f \in File : ring # <<>> /\ ring' = <<Merged(ring[1], Clean(f))>>
        BY <2>2, <2>3, <2>5, CleanTyped, MergedFacts
    <2>6. CASE \E c \in Cert : ring # <<>> /\ ring' = <<Certified(ring[1], c)>>
        BY <2>2, <2>3, <2>6, CertifiedFacts
    <2> QED BY Writes, <2>1, <2>4, <2>5, <2>6
<1>2. told' \subseteq File /\ certs' \subseteq Cert
    <2>1. CASE UNCHANGED vars
        BY <2>1 DEF TypeOK, vars
    <2>2. ASSUME NEW f \in File, Refuse(f) \/ Insert(f) \/ Merge(f)
          PROVE  told' \subseteq File /\ certs' \subseteq Cert
        BY <2>2 DEF TypeOK, Refuse, Insert, Merge
    <2>3. ASSUME NEW c \in Cert, Revoke(c)
          PROVE  told' \subseteq File /\ certs' \subseteq Cert
        BY <2>3 DEF TypeOK, Revoke
    <2>4. CASE Mark \/ Check
        BY <2>4 DEF TypeOK, Mark, Check
    <2> QED BY <2>1, <2>2, <2>3, <2>4 DEF Next
<1>3. marking' \in BOOLEAN /\ marked' \in BOOLEAN /\ unseen' \in BOOLEAN
    <2>1. CASE UNCHANGED vars
        BY <2>1 DEF TypeOK, vars
    <2>2. ASSUME NEW b, NEW mark \in BOOLEAN, Write(b, mark)
          PROVE  marking' \in BOOLEAN /\ unseen' \in BOOLEAN
        BY <2>2 DEF TypeOK, Write
    <2>3. ASSUME Leave PROVE marking' \in BOOLEAN /\ unseen' \in BOOLEAN
        BY <2>3 DEF TypeOK, Leave
    <2>4. ASSUME NEW f \in File PROVE NonSelf(f) \in BOOLEAN
        BY DEF NonSelf
    <2>5. ASSUME NEW f \in File, Refuse(f)
          PROVE  marking' \in BOOLEAN /\ marked' \in BOOLEAN /\ unseen' \in BOOLEAN
        BY <2>3, <2>5 DEF TypeOK, Refuse
    <2>6. ASSUME NEW f \in File, Insert(f)
          PROVE  marking' \in BOOLEAN /\ marked' \in BOOLEAN /\ unseen' \in BOOLEAN
        BY <2>2, <2>4, <2>6 DEF TypeOK, Insert
    <2>7. ASSUME NEW f \in File, Merge(f)
          PROVE  marking' \in BOOLEAN /\ marked' \in BOOLEAN /\ unseen' \in BOOLEAN
        BY <2>2, <2>3, <2>4, <2>7 DEF TypeOK, Merge
    <2>8. ASSUME NEW c \in Cert, Revoke(c)
          PROVE  marking' \in BOOLEAN /\ marked' \in BOOLEAN /\ unseen' \in BOOLEAN
        BY <2>2, <2>3, <2>8 DEF TypeOK, Revoke
    <2>9. CASE Mark \/ Check
        BY <2>9 DEF TypeOK, Mark, Check
    <2> QED BY <2>1, <2>5, <2>6, <2>7, <2>8, <2>9 DEF Next
<1> QED BY <1>1, <1>2, <1>3 DEF TypeOK

(* The keyring always holds at most one keyblock of the key, which is well *)
(* formed, whatever files are imported (import_one, import_revoke_cert).   *)
THEOREM Typed == Spec => []TypeOK
<1>1. Init => TypeOK
    BY TypeInit
<1>2. TypeOK /\ [Next]_vars => TypeOK'
    BY TypeNext
<1> QED BY <1>1, <1>2, PTL DEF Spec

-----------------------------------------------------------------------------
(* Nothing twice.                                                          *)

Once(b) ==
  /\ IsInjective(b.head)
  /\ Distinct(b.uids)
  /\ Distinct(b.subs) /\ AllOnce(b.subs, {})

\* A user id is never taken for a subkey.
UidIds == {u.id : u \in UNION {ToSet(f.uids) : f \in File}}
SubIds == {k.id : k \in UNION {ToSet(f.subs) : f \in File}}
InNames(parts, names) == \A i \in 1 .. Len(parts) : parts[i].id \in names
Named(b) == InNames(b.uids, UidIds) /\ InNames(b.subs, SubIds)

\* The user ids that some file brought with a signature twice.
Doubles == UNION {Doubled(f) : f \in told}

OInv == \A n \in DOMAIN ring :
          Once(ring[n]) /\ Named(ring[n]) /\ AllOnce(ring[n].uids, Doubles)

LEMMA ToSetIs ==
  ASSUME NEW S, NEW s \in Seq(S)
  PROVE  ToSet(s) = {s[i] : i \in 1 .. Len(s)}
BY DEF ToSet

LEMMA FileNames ==
  ASSUME NEW f \in File
  PROVE  Named(f)
<1>1. f.uids \in Seq(Parts) /\ f.subs \in Seq(Parts)
    BY CleanTyped, BlockFields
<1>2. \A i \in 1 .. Len(f.uids) : f.uids[i] \in ToSet(f.uids)
    BY <1>1, ToSetIs
<1>3. \A i \in 1 .. Len(f.subs) : f.subs[i] \in ToSet(f.subs)
    BY <1>1, ToSetIs
<1> QED BY <1>2, <1>3 DEF Named, InNames, UidIds, SubIds

LEMMA NamesApart ==
  ASSUME OnceInFiles, NEW x \in UidIds, NEW y \in SubIds
  PROVE  x # y
BY DEF OnceInFiles, UidIds, SubIds

LEMMA FileOnce ==
  ASSUME OnceInFiles, NEW f \in File
  PROVE  IsInjective(f.head) /\ Distinct(f.subs) /\ AllOnce(f.subs, {})
<1>1. f.subs \in Seq(Parts) /\ DOMAIN f.subs = 1 .. Len(f.subs)
    BY CleanTyped, BlockFields
<1>2. IsInjective([i \in DOMAIN f.subs |-> f.subs[i].id])
    BY DEF OnceInFiles, Map
<1>3. Distinct(f.subs)
    BY <1>1, <1>2 DEF IsInjective, Distinct
<1>4. \A i \in 1 .. Len(f.subs) : f.subs[i] \in ToSet(f.subs)
    BY <1>1, ToSetIs
<1>5. AllOnce(f.subs, {})
    BY <1>4 DEF OnceInFiles, AllOnce
<1> QED BY <1>3, <1>5 DEF OnceInFiles

LEMMA ReducedOnce ==
  ASSUME NEW parts, NEW q, Reduced(q, parts)
  PROVE  /\ \A but : AllOnce(parts, but) => AllOnce(q, but)
         /\ \A names : InNames(parts, names) => InNames(q, names)
<1>1. \A but : AllOnce(parts, but) => AllOnce(q, but)
    BY DEF Reduced, Lesser, Within, AllOnce
<1>2. \A names : InNames(parts, names) => InNames(q, names)
    BY DEF Reduced, Lesser, InNames
<1> QED BY <1>1, <1>2

LEMMA CleanOnce ==
  ASSUME OnceInFiles, NEW f \in File
  PROVE  Once(Clean(f)) /\ Named(Clean(f)) /\ AllOnce(Clean(f).uids, Doubled(f))
<1> DEFINE c == Clean(f)
           u == Collapsed(f.uids)
<1>1. /\ Within(c.head, f.head) /\ Reduced(c.uids, u) /\ Reduced(c.subs, f.subs)
    BY CleanTyped, CleanReduces
<1>2. f.uids \in Seq(Parts)
    BY CleanTyped, BlockFields
<1>3. /\ Distinct(u)
      /\ \A a \in 1 .. Len(u) :
           \/ IsInjective(u[a].sigs)
           \/ \E i \in 1 .. Len(f.uids) : Lone(f.uids, i) /\ u[a] = f.uids[i]
      /\ \A a \in 1 .. Len(u) : \E i \in 1 .. Len(f.uids) : u[a].id = f.uids[i].id
    BY <1>2, CollapsedFacts
<1> HIDE DEF c, u
<1>4. InNames(f.uids, UidIds) /\ InNames(f.subs, SubIds)
    BY FileNames DEF Named
<1>5. AllOnce(u, Doubled(f))
    BY <1>2, <1>3 DEF AllOnce, Doubled
<1>6. InNames(u, UidIds)
    BY <1>3, <1>4 DEF InNames
<1>7. IsInjective(c.head)
    BY <1>1, FileOnce DEF Within
<1>8. Distinct(c.uids) /\ AllOnce(c.uids, Doubled(f)) /\ InNames(c.uids, UidIds)
    BY <1>1, <1>3, <1>6, <1>5, ReducedOnce DEF Reduced
<1>9. Distinct(c.subs) /\ AllOnce(c.subs, {}) /\ InNames(c.subs, SubIds)
    BY <1>1, <1>4, FileOnce, ReducedOnce DEF Reduced
<1> QED BY <1>7, <1>8, <1>9 DEF c, Once, Named

LEMMA GrownNames ==
  ASSUME NEW old \in Seq(Parts), NEW new, NEW r, Grown(r, old, new),
         NEW names, InNames(old, names), InNames(new, names)
  PROVE  InNames(r, names)
<1>1. Len(old) \in Nat /\ r \in Seq(Parts)
    BY DEF Grown
<1>2. ASSUME NEW a \in 1 .. Len(r) PROVE r[a].id \in names
    <2>1. CASE a <= Len(old)
        BY <1>1, <2>1 DEF Grown, InNames
    <2>2. CASE a > Len(old)
        BY <2>2 DEF Grown, InNames
    <2> QED BY <2>1, <2>2, <1>1
<1> QED BY <1>2 DEF InNames

LEMMA MergedOnce ==
  ASSUME NEW o \in Keyblock, NEW c \in Keyblock,
         Once(o), Named(o), Once(c), Named(c),
         NEW but, AllOnce(o.uids, but), AllOnce(c.uids, but)
  PROVE  Once(Merged(o, c)) /\ Named(Merged(o, c)) /\ AllOnce(Merged(o, c).uids, but)
<1> DEFINE m == Merged(o, c)
<1>1. /\ IsInjective(m.head)
      /\ Grown(m.uids, o.uids, c.uids) /\ Grown(m.subs, o.subs, c.subs)
    BY MergedFacts DEF Once
<1> HIDE DEF m
<1>2. o.uids \in Seq(Parts) /\ o.subs \in Seq(Parts)
    BY BlockFields
<1>3. Distinct(m.uids) /\ AllOnce(m.uids, but) /\ Distinct(m.subs) /\ AllOnce(m.subs, {})
    BY <1>1 DEF Grown, Once
<1>4. Named(m)
    BY <1>1, <1>2, GrownNames DEF Named
<1> QED BY <1>1, <1>3, <1>4 DEF m, Once

LEMMA AllOnceMore ==
  ASSUME NEW parts, NEW but, NEW more, but \subseteq more, AllOnce(parts, but)
  PROVE  AllOnce(parts, more)
BY DEF AllOnce

LEMMA OInvNext ==
  ASSUME OnceInFiles
  PROVE  TypeOK /\ OInv /\ [Next]_vars => OInv'
<1> SUFFICES ASSUME TypeOK, OInv, [Next]_vars PROVE OInv'
    OBVIOUS
<1>0. Doubles \subseteq Doubles' /\ \A f \in told' : Doubled(f) \subseteq Doubles'
    <2>1. told \subseteq told'
        BY Writes
    <2> QED BY <2>1 DEF Doubles
<1> DEFINE new == Doubles'
<1> HIDE DEF new
<1>1. ASSUME NEW b, ring' = <<b>>, Once(b), Named(b), AllOnce(b.uids, new) PROVE OInv'
    <2>1. DOMAIN ring' = {1} /\ ring'[1] = b
        BY <1>1
    <2> QED BY <1>1, <2>1 DEF OInv, new
<1>2. \A n \in DOMAIN ring :
        Once(ring[n]) /\ Named(ring[n]) /\ AllOnce(ring[n].uids, new)
    BY <1>0, AllOnceMore DEF OInv, new
<1>3. ASSUME ring # <<>>
      PROVE  /\ ring[1] \in Keyblock
             /\ Once(ring[1]) /\ Named(ring[1]) /\ AllOnce(ring[1].uids, new)
    <2>1. 1 \in DOMAIN ring /\ ring[1] \in Keyblock
        BY <1>3 DEF TypeOK
    <2> QED BY <2>1, <1>2
<1>4. ASSUME NEW f \in File, f \in told'
      PROVE  /\ Clean(f) \in Keyblock
             /\ Once(Clean(f)) /\ Named(Clean(f)) /\ AllOnce(Clean(f).uids, new)
    BY <1>0, <1>4, CleanOnce, CleanTyped, AllOnceMore DEF new
<1>5. CASE ring' = ring
    BY <1>2, <1>5 DEF OInv, new
<1>6. CASE \E f \in File : f \in told' /\ ring' = <<Clean(f)>>
    BY <1>1, <1>4, <1>6
<1>7. CASE \E f \in File : f \in told' /\ ring # <<>> /\ ring' = <<Merged(ring[1], Clean(f))>>
    BY <1>1, <1>3, <1>4, <1>7, MergedOnce
<1>8. CASE \E c \in Cert : /\ ring # <<>> /\ ~Contains(ring[1].head, c)
                           /\ ring' = <<Certified(ring[1], c)>>
    <2>1. PICK c \in Cert : /\ ring # <<>> /\ ~Contains(ring[1].head, c)
                            /\ ring' = <<Certified(ring[1], c)>>
        BY <1>8
    <2>2. /\ Once(Certified(ring[1], c)) /\ Named(Certified(ring[1], c))
          /\ AllOnce(Certified(ring[1], c).uids, new)
        BY <1>3, <2>1, CertifiedFacts DEF Once, Named
    <2> QED BY <1>1, <2>1, <2>2
<1> QED BY Writes, <1>5, <1>6, <1>7, <1>8

LEMMA OInvMeans ==
  ASSUME OnceInFiles
  PROVE  TypeOK /\ OInv => NothingTwice
<1> SUFFICES ASSUME TypeOK, OInv, NEW n \in DOMAIN ring
             PROVE  LET b == ring[n] IN
                    /\ IsInjective(b.head)
                    /\ IsInjective(Map(LAMBDA p : p.id, b.uids \o b.subs))
                    /\ \A k \in ToSet(b.subs) : IsInjective(k.sigs)
                    /\ \A u \in ToSet(b.uids) : IsInjective(u.sigs) \/ u.id \in Doubles
    BY DEF NothingTwice, Doubles
<1> DEFINE b == ring[n]
           w == b.uids \o b.subs
<1>1. b \in Keyblock /\ Once(b) /\ Named(b) /\ AllOnce(b.uids, Doubles)
    BY DEF TypeOK, OInv
<1> HIDE DEF b
<1>2. /\ b.uids \in Seq(Parts) /\ b.subs \in Seq(Parts)
      /\ Len(b.uids) \in Nat /\ Len(b.subs) \in Nat
    BY <1>1, BlockFields
<1>3. w \in Seq(Parts) /\ DOMAIN w = 1 .. Len(w) /\ Len(w) = Len(b.uids) + Len(b.subs)
    BY <1>2
<1>4. \A i \in 1 .. Len(w) :
        \/ i \in 1 .. Len(b.uids) /\ w[i] = b.uids[i]
        \/ i - Len(b.uids) \in 1 .. Len(b.subs) /\ w[i] = b.subs[i - Len(b.uids)]
    <2> SUFFICES ASSUME NEW i \in 1 .. Len(w)
                 PROVE  \/ i \in 1 .. Len(b.uids) /\ w[i] = b.uids[i]
                        \/ /\ i - Len(b.uids) \in 1 .. Len(b.subs)
                           /\ w[i] = b.subs[i - Len(b.uids)]
        OBVIOUS
    <2>1. CASE i <= Len(b.uids)
        <3>1. i \in 1 .. Len(b.uids)
            BY <1>2, <2>1
        <3> QED BY <1>2, <3>1
    <2>2. CASE i > Len(b.uids)
        <3>0. \A m, k \in Nat : \A a \in 1 .. m + k : a > m => a - m \in 1 .. k
            OBVIOUS
        <3>1. i - Len(b.uids) \in 1 .. Len(b.subs)
            <4>1. i \in 1 .. Len(b.uids) + Len(b.subs)
                BY <1>3
            <4> QED BY <3>0, <4>1, <1>2, <2>2
        <3>2. w[i] = b.subs[i - Len(b.uids)]
            BY <1>2, <3>1, <2>2
        <3> QED BY <3>1, <3>2
    <2> QED BY <1>2, <2>1, <2>2
<1> HIDE DEF w
<1>5. /\ \A k \in ToSet(b.subs) : IsInjective(k.sigs)
      /\ \A u \in ToSet(b.uids) : IsInjective(u.sigs) \/ u.id \in Doubles
    <2>1. /\ ToSet(b.subs) = {b.subs[i] : i \in 1 .. Len(b.subs)}
          /\ ToSet(b.uids) = {b.uids[i] : i \in 1 .. Len(b.uids)}
        BY <1>2, ToSetIs
    <2> QED BY <1>1, <2>1 DEF Once, AllOnce
<1>6. ASSUME NEW i \in 1 .. Len(w), NEW j \in 1 .. Len(w), w[i].id = w[j].id
      PROVE  i = j
    <2> DEFINE x == i - Len(b.uids)
               y == j - Len(b.uids)
    <2>1. \/ i \in 1 .. Len(b.uids) /\ w[i] = b.uids[i]
          \/ x \in 1 .. Len(b.subs) /\ w[i] = b.subs[x]
        BY <1>4
    <2>2. \/ j \in 1 .. Len(b.uids) /\ w[j] = b.uids[j]
          \/ y \in 1 .. Len(b.subs) /\ w[j] = b.subs[y]
        BY <1>4
    <2>3. x = y => i = j
        BY <1>2
    <2> HIDE DEF x, y
    <2>4. \A a \in 1 .. Len(b.uids) : \A c \in 1 .. Len(b.subs) : b.uids[a].id # b.subs[c].id
        BY <1>1, NamesApart DEF Named, InNames
    <2> QED BY <1>1, <1>6, <2>1, <2>2, <2>3, <2>4 DEF Once, Distinct
<1>7. IsInjective(Map(LAMBDA p : p.id, w))
    BY <1>3, <1>6 DEF Map, IsInjective
<1> QED BY <1>1, <1>5, <1>7 DEF b, w, Once

(* Nothing gets into the keyblock twice: no user id, no subkey and no      *)
(* signature, in whatever pieces and how often they come, but for the      *)
(* signatures of a user id that a file holds once and with one of them     *)
(* twice (import_one with collapse_uids, merge_blocks, import_revoke_cert). *)
THEOREM NothingRepeated ==
  ASSUME OnceInFiles
  PROVE  Spec => []NothingTwice
<1>1. Init => OInv
    <2>1. Init => DOMAIN ring = {}
        BY DEF Init
    <2> QED BY <2>1 DEF OInv
<1>2. TypeOK /\ OInv /\ [Next]_vars => OInv'
    BY OInvNext
<1>3. TypeOK /\ OInv => NothingTwice
    BY OInvMeans
<1> QED BY <1>1, <1>2, <1>3, Typed, PTL DEF Spec

-----------------------------------------------------------------------------
(* The mark for the web of trust.                                          *)

\* No certificate of another key among the signatures on these user ids.
OwnOnly(parts) ==
  \A i \in 1 .. Len(parts) : \A j \in 1 .. Len(parts[i].sigs) : Self(parts[i].sigs[j])

LEMMA ForeignIs ==
  ASSUME NEW b \in Keyblock, NEW x
  PROVE  x \in Foreign(<<b>>) <=>
           \E i \in 1 .. Len(b.uids) : \E j \in 1 .. Len(b.uids[i].sigs) :
             ~Self(b.uids[i].sigs[j]) /\ x = <<b.uids[i].id, b.uids[i].sigs[j]>>
<1>1. b.uids \in Seq(Parts)
    BY BlockFields
<1>2. UNION {ToSet(<<b>>[i].uids) : i \in DOMAIN <<b>>} = {b.uids[i] : i \in 1 .. Len(b.uids)}
    <2>1. DOMAIN <<b>> = {1} /\ <<b>>[1] = b
        OBVIOUS
    <2>2. {ToSet(<<b>>[i].uids) : i \in DOMAIN <<b>>} = {ToSet(b.uids)}
        BY <2>1
    <2>3. ToSet(b.uids) = {b.uids[i] : i \in 1 .. Len(b.uids)}
        BY <1>1, ToSetIs
    <2> QED BY <2>2, <2>3
<1>3. ASSUME NEW i \in 1 .. Len(b.uids)
      PROVE  ToSet(b.uids[i].sigs) = {b.uids[i].sigs[j] : j \in 1 .. Len(b.uids[i].sigs)}
    <2>1. b.uids[i].sigs \in Seq(Signatures)
        BY <1>1, PartFields
    <2> QED BY <2>1, ToSetIs
<1> DEFINE mine(u) == {<<u.id, s>> : s \in {r \in ToSet(u.sigs) : ~Self(r)}}
           U == UNION {ToSet(<<b>>[i].uids) : i \in DOMAIN <<b>>}
<1>4. Foreign(<<b>>) = UNION {mine(u) : u \in U}
    BY DEF Foreign
<1>5. x \in Foreign(<<b>>) <=> \E i \in 1 .. Len(b.uids) : x \in mine(b.uids[i])
    <2> HIDE DEF mine
    <2> QED BY <1>2, <1>4
<1>6. ASSUME NEW i \in 1 .. Len(b.uids)
      PROVE  x \in mine(b.uids[i]) <=>
               \E j \in 1 .. Len(b.uids[i].sigs) :
                 ~Self(b.uids[i].sigs[j]) /\ x = <<b.uids[i].id, b.uids[i].sigs[j]>>
    BY <1>3
<1> HIDE DEF mine
<1> QED BY <1>5, <1>6

\* A file without signatures of others brings none (the non_self of chk_self_sigs).
LEMMA OwnFile ==
  ASSUME NEW f \in File, ~NonSelf(f)
  PROVE  OwnOnly(Clean(f).uids)
<1> DEFINE c == Clean(f)
           u == Collapsed(f.uids)
<1>1. f.uids \in Seq(Parts)
    BY CleanTyped, BlockFields
<1>2. ASSUME NEW i \in 1 .. Len(f.uids), NEW j \in 1 .. Len(f.uids[i].sigs)
      PROVE  Self(f.uids[i].sigs[j])
    <2>1. f.uids[i] \in ToSet(f.uids)
        BY <1>1, ToSetIs
    <2>2. ~Some(f.uids[i].sigs, LAMBDA s : ~Self(s))
        BY <2>1 DEF NonSelf
    <2>3. j \in DOMAIN f.uids[i].sigs
        <3>1. f.uids[i].sigs \in Seq(Signatures)
            BY <1>1, PartFields
        <3> QED BY <3>1
    <2> QED BY <2>2, <2>3 DEF Some
<1>3. \A a \in 1 .. Len(u) : \A b \in 1 .. Len(u[a].sigs) : Self(u[a].sigs[b])
    <2> SUFFICES ASSUME NEW a \in 1 .. Len(u), NEW b \in 1 .. Len(u[a].sigs)
                 PROVE  Self(u[a].sigs[b])
        OBVIOUS
    <2>1. \E i \in 1 .. Len(f.uids) : \E j \in 1 .. Len(f.uids[i].sigs) :
            u[a].sigs[b] = f.uids[i].sigs[j]
        BY <1>1, CollapsedFacts
    <2> QED BY <1>2, <2>1
<1>4. Reduced(c.uids, u)
    BY CleanTyped, CleanReduces
<1> HIDE DEF c, u
<1>5. OwnOnly(c.uids)
    BY <1>3, <1>4 DEF Reduced, Lesser, Within, OwnOnly
<1> QED BY <1>5 DEF c

\* Merging such a keyblock leaves the certificates of others as they are.
LEMMA OwnMerged ==
  ASSUME NEW o \in Keyblock, NEW c \in Keyblock, OwnOnly(c.uids)
  PROVE  Foreign(<<Merged(o, c)>>) = Foreign(<<o>>)
<1> DEFINE m == Merged(o, c)
<1>1. /\ m \in Keyblock
      /\ Grown(m.uids, o.uids, c.uids) /\ Carried(m.uids, o.uids, c.uids)
    BY MergedFacts
<1> HIDE DEF m
<1>2. o.uids \in Seq(Parts) /\ \A a \in 1 .. Len(o.uids) : o.uids[a].sigs \in Seq(Signatures)
    BY BlockFields, PartFields
<1>3. /\ Len(o.uids) \in Nat /\ Len(o.uids) <= Len(m.uids)
      /\ m.uids \in Seq(Parts)
      /\ \A a \in 1 .. Len(m.uids) : m.uids[a].sigs \in Seq(Signatures)
    <2>1. m.uids \in Seq(Parts) /\ Len(o.uids) <= Len(m.uids)
        BY <1>1 DEF Grown
    <2> QED BY <1>2, <2>1, PartFields
<1>4. ASSUME NEW x, x \in Foreign(<<o>>) PROVE x \in Foreign(<<m>>)
    <2>1. PICK i \in 1 .. Len(o.uids) : \E j \in 1 .. Len(o.uids[i].sigs) :
            ~Self(o.uids[i].sigs[j]) /\ x = <<o.uids[i].id, o.uids[i].sigs[j]>>
        BY <1>4, ForeignIs
    <2>2. PICK j \in 1 .. Len(o.uids[i].sigs) :
            ~Self(o.uids[i].sigs[j]) /\ x = <<o.uids[i].id, o.uids[i].sigs[j]>>
        BY <2>1
    <2>3. i \in 1 .. Len(m.uids) /\ m.uids[i].id = o.uids[i].id
        BY <1>1, <1>3 DEF Grown
    <2>4. /\ Len(o.uids[i].sigs) <= Len(m.uids[i].sigs)
          /\ m.uids[i].sigs[j] = o.uids[i].sigs[j]
        BY <1>1 DEF Carried
    <2>5. j \in 1 .. Len(m.uids[i].sigs)
        <3>1. Len(o.uids[i].sigs) \in Nat /\ Len(m.uids[i].sigs) \in Nat
            BY <1>2, <1>3, <2>3
        <3> QED BY <2>4, <3>1
    <2> QED BY <1>1, <2>2, <2>3, <2>4, <2>5, ForeignIs
<1>5. ASSUME NEW x, x \in Foreign(<<m>>) PROVE x \in Foreign(<<o>>)
    <2>1. PICK i \in 1 .. Len(m.uids) : \E j \in 1 .. Len(m.uids[i].sigs) :
            ~Self(m.uids[i].sigs[j]) /\ x = <<m.uids[i].id, m.uids[i].sigs[j]>>
        BY <1>1, <1>5, ForeignIs
    <2>2. PICK j \in 1 .. Len(m.uids[i].sigs) :
            ~Self(m.uids[i].sigs[j]) /\ x = <<m.uids[i].id, m.uids[i].sigs[j]>>
        BY <2>1
    <2>3. i <= Len(o.uids)
        <3> SUFFICES ASSUME i > Len(o.uids) PROVE FALSE
            BY <1>3
        <3>1. PICK n \in 1 .. Len(c.uids) : m.uids[i] = c.uids[n]
            BY <1>1 DEF Grown
        <3> QED BY <3>1, <2>2 DEF OwnOnly
    <2>4. i \in 1 .. Len(o.uids) /\ m.uids[i].id = o.uids[i].id
        BY <1>1, <1>3, <2>3 DEF Grown
    <2>5. j <= Len(o.uids[i].sigs)
        <3> SUFFICES ASSUME j > Len(o.uids[i].sigs) PROVE FALSE
            BY <1>2, <2>4
        <3>1. j \in Len(o.uids[i].sigs) + 1 .. Len(m.uids[i].sigs)
            BY <1>2, <1>3, <2>4
        <3>2. \E n \in 1 .. Len(c.uids) : \E k \in 1 .. Len(c.uids[n].sigs) :
                m.uids[i].sigs[j] = c.uids[n].sigs[k]
            BY <1>1, <2>4, <3>1 DEF Carried
        <3> QED BY <3>2, <2>2 DEF OwnOnly
    <2>6. j \in 1 .. Len(o.uids[i].sigs) /\ m.uids[i].sigs[j] = o.uids[i].sigs[j]
        <3>1. j \in 1 .. Len(o.uids[i].sigs)
            BY <1>2, <2>4, <2>5
        <3> QED BY <1>1, <2>4, <3>1 DEF Carried
    <2> QED BY <2>2, <2>4, <2>6, ForeignIs
<1>6. \A x : x \in Foreign(<<m>>) <=> x \in Foreign(<<o>>)
    BY <1>4, <1>5
<1>7. Foreign(<<m>>) = Foreign(<<o>>)
    BY <1>6
<1> QED BY <1>7 DEF m

LEMMA OneOf ==
  ASSUME NEW S, NEW s \in Seq(S), Len(s) <= 1, s # <<>>
  PROVE  s[1] \in S /\ s = <<s[1]>>
<1>1. Len(s) = 1
    <2>1. Len(s) \in Nat \ {0}
        BY EmptySeq
    <2>2. \A n \in Nat \ {0} : n <= 1 => n = 1
        OBVIOUS
    <2> QED BY <2>1, <2>2
<1>2. s[1] \in S
    BY <1>1
<1>3. <<s[1]>> \in Seq(S) /\ Len(<<s[1]>>) = 1 /\ <<s[1]>>[1] = s[1]
    BY <1>2
<1>4. \A i \in 1 .. Len(s) : s[i] = <<s[1]>>[i]
    BY <1>1, <1>3
<1> QED BY <1>1, <1>2, <1>3, <1>4, SeqEqual

LEMMA WebNext == TypeOK /\ WebCurrent /\ [Next]_vars => WebCurrent'
<1> SUFFICES ASSUME TypeOK, WebCurrent, [Next]_vars PROVE WebCurrent'
    OBVIOUS
<1>1. CASE UNCHANGED vars
    BY <1>1 DEF vars, WebCurrent
<1>2. ASSUME NEW f \in File, Refuse(f) PROVE WebCurrent'
    BY <1>2 DEF Refuse, Leave, WebCurrent
<1>3. ASSUME NEW f \in File, Insert(f) PROVE WebCurrent'
    <2>1. CASE NonSelf(f)
        BY <1>3, <2>1 DEF Insert, Write, WebCurrent
    <2>2. CASE ~NonSelf(f)
        <3>1. OwnOnly(Clean(f).uids)
            BY <2>2, OwnFile
        <3>2. \A x : x \notin Foreign(<<Clean(f)>>)
            BY <3>1, CleanTyped, ForeignIs DEF OwnOnly
        <3>3. \A x : x \notin Foreign(<<>>)
            <4>1. DOMAIN <<>> = {}
                OBVIOUS
            <4> QED BY <4>1 DEF Foreign
        <3>4. Foreign(<<Clean(f)>>) = Foreign(<<>>)
            BY <3>2, <3>3
        <3>5. unseen' = unseen /\ ~marking /\ marked' = marked
            BY <1>3, <3>4 DEF Insert, Write, TypeOK
        <3> QED BY <3>5 DEF WebCurrent
    <2> QED BY <2>1, <2>2
<1>4. ASSUME NEW f \in File, Merge(f) PROVE WebCurrent'
    <2>1. CASE ~Changes(ring[1], Clean(f))
        BY <1>4, <2>1 DEF Merge, Leave, WebCurrent
    <2>2. CASE Changes(ring[1], Clean(f)) /\ NonSelf(f)
        BY <1>4, <2>2 DEF Merge, Write, WebCurrent
    <2>3. CASE Changes(ring[1], Clean(f)) /\ ~NonSelf(f)
        <3>1. OwnOnly(Clean(f).uids)
            BY <2>3, OwnFile
        <3>2. ring[1] \in Keyblock /\ ring = <<ring[1]>>
            <4>1. ring # <<>>
                BY <1>4 DEF Merge
            <4> QED BY <4>1, OneOf DEF TypeOK
        <3>3. Foreign(<<Merged(ring[1], Clean(f))>>) = Foreign(ring)
            BY <3>1, <3>2, CleanTyped, OwnMerged
        <3>4. unseen' = unseen /\ ~marking /\ marked' = marked
            BY <1>4, <2>3, <3>3 DEF Merge, Write, TypeOK
        <3> QED BY <3>4 DEF WebCurrent
    <2> QED BY <2>1, <2>2, <2>3
<1>5. ASSUME NEW c \in Cert, Revoke(c) PROVE WebCurrent'
    BY <1>5 DEF Revoke, Write, Leave, WebCurrent
<1>6. CASE Mark \/ Check
    BY <1>6 DEF Mark, Check, WebCurrent
<1> QED BY <1>1, <1>2, <1>3, <1>4, <1>5, <1>6 DEF Next

(* Certificates of other keys never come with an import without a mark     *)
(* that the web of trust is out of date (the non_self of chk_self_sigs and *)
(* revalidation_mark in import_one).                                       *)
THEOREM WebMarked == Spec => []WebCurrent
<1>1. Init => WebCurrent
    BY DEF Init, WebCurrent
<1>2. TypeOK /\ WebCurrent /\ [Next]_vars => WebCurrent'
    BY WebNext
<1> QED BY <1>1, <1>2, Typed, PTL DEF Spec

-----------------------------------------------------------------------------
(* Importing again.                                                        *)

\* Everything at the places of I is picked.
LEMMA PickedAll ==
  ASSUME NEW S, NEW s \in Seq(S), NEW I, NEW k \in 1 .. Len(s), k \in I
  PROVE  \E a \in 1 .. Len(Picked(s, I)) : Picked(s, I)[a] = s[k]
<1> DEFINE N == Len(s)
           one(i) == IF i \in I THEN <<s[i]>> ELSE <<>>
           ss == [i \in DOMAIN s |-> one(i)]
           Has_(q) == q \in Seq(S) /\ \E a \in 1 .. Len(q) : q[a] = s[k]
<1>0. /\ N \in Nat /\ DOMAIN s = 1 .. N /\ N # 0
      /\ \A i \in 1 .. N : s[i] \in S /\ one(i) \in Seq(S)
    OBVIOUS
<1>1. ss \in Seq(Seq(S)) /\ Len(ss) = N /\ Picked(s, I) = FlattenSeq(ss)
    <2>1. Picked(s, I) = FlattenSeq(ss)
        BY DEF Picked
    <2> HIDE DEF one
    <2>2. ss \in [1 .. N -> Seq(S)]
        BY <1>0
    <2> HIDE DEF ss
    <2> QED BY <2>1, <2>2, <1>0
<1>2. \A n \in 1 .. N : ss[n] = one(n)
    BY <1>0
<1>3. one(k) = <<s[k]>> /\ Has_(one(k))
    <2>1. one(k) = <<s[k]>> /\ s[k] \in S
        BY <1>0
    <2>2. <<s[k]>> \in Seq(S) /\ Len(<<s[k]>>) = 1 /\ <<s[k]>>[1] = s[k]
        BY <2>1
    <2> HIDE DEF one
    <2> QED BY <2>1, <2>2
<1> HIDE DEF ss
<1>4. PICK g : Joined(ss, g) /\ FlattenSeq(ss) = g[N]
    BY <1>0, <1>1, FlattenJoins
<1>5. \A i \in 1 .. N : g[i] = IF i = 1 THEN one(1) ELSE g[i - 1] \o one(i)
    <2>1. \A i \in 1 .. N : g[i] = IF i = 1 THEN ss[i] ELSE g[i - 1] \o ss[i]
        BY <1>1, <1>4 DEF Joined
    <2> HIDE DEF one
    <2> QED BY <2>1, <1>2
<1>6. ASSUME NEW q \in Seq(S), NEW r \in Seq(S), Has_(q) \/ Has_(r) PROVE Has_(q \o r)
    <2>1. q \o r \in Seq(S) /\ Len(q \o r) = Len(q) + Len(r) /\ Len(q) \in Nat /\ Len(r) \in Nat
        OBVIOUS
    <2>2. CASE Has_(q)
        <3>1. PICK a \in 1 .. Len(q) : q[a] = s[k]
            BY <2>2
        <3>2. a \in 1 .. Len(q \o r) /\ (q \o r)[a] = q[a]
            BY <2>1
        <3> QED BY <2>1, <3>1, <3>2
    <2>3. CASE Has_(r)
        <3>1. PICK a \in 1 .. Len(r) : r[a] = s[k]
            BY <2>3
        <3>2. Len(q) + a \in 1 .. Len(q \o r) /\ (q \o r)[Len(q) + a] = r[a]
            BY <2>1
        <3> QED BY <2>1, <3>1, <3>2
    <2> QED BY <2>2, <2>3, <1>6
<1> DEFINE T == {n \in Nat : n \in 1 .. N => g[n] \in Seq(S) /\ (k <= n => Has_(g[n]))}
<1> HIDE DEF one, Has_
<1>7. 0 \in T
    OBVIOUS
<1>8. ASSUME NEW n \in T PROVE n + 1 \in T
    <2> SUFFICES ASSUME n + 1 \in 1 .. N
                 PROVE  g[n + 1] \in Seq(S) /\ (k <= n + 1 => Has_(g[n + 1]))
        OBVIOUS
    <2>1. n \in Nat /\ (n # 0 => n \in 1 .. N /\ n + 1 # 1) /\ (n + 1) - 1 = n
        BY <1>0
    <2>2. one(n + 1) \in Seq(S)
        BY <1>0
    <2>3. CASE n = 0
        <3>1. g[n + 1] = one(n + 1)
            BY <1>5, <2>3
        <3>2. k <= n + 1 => k = n + 1
            BY <2>3, <1>0
        <3> QED BY <3>1, <3>2, <2>2, <1>3
    <2>4. CASE n # 0
        <3>1. g[n + 1] = g[n] \o one(n + 1)
            BY <1>5, <2>1, <2>4
        <3>2. g[n] \in Seq(S) /\ (k <= n => Has_(g[n]))
            BY <2>1, <2>4
        <3>3. k <= n + 1 => k <= n \/ k = n + 1
            BY <2>1
        <3>4. g[n] \o one(n + 1) \in Seq(S)
            BY <2>2, <3>2
        <3> QED BY <3>1, <3>2, <3>3, <3>4, <2>2, <1>3, <1>6
    <2> QED BY <2>3, <2>4
<1>9. N \in T
    <2> HIDE DEF T
    <2>1. T \in SUBSET Nat
        BY DEF T
    <2> QED BY <1>0, <1>7, <1>8, <2>1, Climb
<1>10. Has_(g[N])
    BY <1>9, <1>0
<1> QED BY <1>1, <1>4, <1>10 DEF Has_

\* Nothing picked, and a start of which nothing is picked.
LEMMA PickedNone ==
  ASSUME NEW S, NEW s \in Seq(S), NEW I, \A i \in 1 .. Len(s) : i \notin I
  PROVE  Picked(s, I) = <<>>
<1>1. Picked(s, I) \in Seq(S)
    BY PickedFacts
<1>2. \A a \in 1 .. Len(Picked(s, I)) : FALSE
    BY PickedFrom
<1> DEFINE q == Picked(s, I)
<1> HIDE DEF q
<1>3. q \in Seq(S) /\ \A a \in 1 .. Len(q) : FALSE
    BY <1>1, <1>2 DEF q
<1>4. Len(q) \in Nat
    BY <1>3
<1>5. Len(q) = 0
    <2>1. \A n \in Nat : n = 0 \/ 1 \in 1 .. n
        OBVIOUS
    <2> QED BY <1>3, <1>4, <2>1
<1>6. q = <<>>
    BY <1>3, <1>5, EmptySeq
<1> QED BY <1>6 DEF q

LEMMA PickedRest ==
  ASSUME NEW S, NEW r \in Seq(S), NEW h \in Seq(S), NEW I,
         \A i \in 1 .. Len(r) + Len(h) : i \in I <=> i > Len(r)
  PROVE  Picked(r \o h, I) = h
<1> DEFINE s == r \o h
           N == Len(s)
           R == Len(r)
           one(i) == IF i \in I THEN <<s[i]>> ELSE <<>>
           ss == [i \in DOMAIN s |-> one(i)]
<1>0. /\ R \in Nat /\ Len(h) \in Nat /\ N = R + Len(h) /\ s \in Seq(S)
      /\ DOMAIN s = 1 .. N
      /\ \A i \in 1 .. Len(h) : s[R + i] = h[i]
    OBVIOUS
<1> HIDE DEF s
<1>1. \A i \in 1 .. N : s[i] \in S /\ one(i) \in Seq(S)
    BY <1>0
<1>2. ss \in Seq(Seq(S)) /\ Len(ss) = N /\ Picked(s, I) = FlattenSeq(ss)
    <2>1. Picked(s, I) = FlattenSeq(ss)
        BY DEF Picked
    <2> HIDE DEF one
    <2>2. ss \in [1 .. N -> Seq(S)]
        <3>1. ss = [i \in 1 .. N |-> one(i)]
            BY <1>0
        <3> HIDE DEF ss
        <3>2. \A i \in 1 .. N : one(i) \in Seq(S)
            BY <1>1
        <3> QED BY <3>1, <3>2
    <2>3. N \in Nat
        BY <1>0
    <2> HIDE DEF ss, N
    <2>4. ss \in Seq(Seq(S)) /\ Len(ss) = N
        BY <2>2, <2>3
    <2> QED BY <2>1, <2>4
<1>3. \A n \in 1 .. N : ss[n] = one(n)
    BY <1>0
<1>4. CASE N = 0
    <2>1. Len(h) = 0
        BY <1>0, <1>4
    <2>2. Picked(s, I) = <<>>
        BY <1>0, <1>4, PickedNone
    <2>3. h = <<>>
        BY <2>1, EmptySeq
    <2> QED BY <2>2, <2>3 DEF s
<1>5. CASE N # 0
    <2> HIDE DEF ss
    <2>1. PICK g : Joined(ss, g) /\ FlattenSeq(ss) = g[N]
        BY <1>5, <1>2, FlattenJoins
    <2>2. \A i \in 1 .. N : g[i] = IF i = 1 THEN one(1) ELSE g[i - 1] \o one(i)
        <3>1. \A i \in 1 .. N : g[i] = IF i = 1 THEN ss[i] ELSE g[i - 1] \o ss[i]
            BY <1>2, <2>1 DEF Joined
        <3> HIDE DEF one
        <3> QED BY <3>1, <1>3
    <2>3. \A i \in 1 .. N : one(i) = IF i > R THEN <<s[i]>> ELSE <<>>
        BY <1>0
    <2> HIDE DEF one
    \* what is there after n of them: the first n - R of h
    <2> DEFINE Part(q, m) == /\ q \in Seq(S) /\ Len(q) = m
                             /\ \A i \in 1 .. m : q[i] = h[i]
               Good(q, n) == IF n > R THEN Part(q, n - R) ELSE q = <<>>
    <2>4. ASSUME NEW n \in Nat, n + 1 <= N, NEW q, Good(q, n)
          PROVE  Good(q \o one(n + 1), n + 1)
        <3>0. n + 1 \in 1 .. N
            BY <2>4, <1>0
        <3>1. CASE n + 1 <= R
            <4>1. q = <<>> /\ one(n + 1) = <<>>
                BY <3>0, <3>1, <2>3, <2>4, <1>0
            <4>2. q \o one(n + 1) = <<>>
                BY <4>1
            <4> QED BY <4>2, <3>1, <1>0
        <3>2. CASE n + 1 > R
            <4> DEFINE m == n - R
            <4>1. m \in Nat /\ m + 1 \in 1 .. Len(h) /\ R + (m + 1) = n + 1 /\ (n + 1) - R = m + 1
                BY <3>2, <2>4, <1>0
            <4> HIDE DEF m
            <4>2. one(n + 1) = <<h[m + 1]>> /\ h[m + 1] \in S
                <5>1. one(n + 1) = <<s[n + 1]>>
                    BY <3>0, <3>2, <2>3
                <5>2. s[n + 1] = h[m + 1]
                    BY <4>1, <1>0
                <5>3. h[m + 1] \in S
                    BY <4>1
                <5> QED BY <5>1, <5>2, <5>3
            <4>3. Part(q, m)
                <5>1. CASE n > R
                    <6> HIDE DEF Part
                    <6> QED BY <5>1, <2>4 DEF m
                <5>2. CASE n = R
                    <6>1. q = <<>> /\ m = 0
                        BY <5>2, <2>4, <1>0 DEF m
                    <6> QED BY <6>1, EmptySeq
                <5>3. n > R \/ n = R
                    BY <2>4, <3>2, <1>0
                <5> QED BY <5>1, <5>2, <5>3
            <4> DEFINE w == q \o one(n + 1)
            <4>4. /\ w \in Seq(S) /\ Len(w) = m + 1 /\ w[m + 1] = h[m + 1]
                  /\ \A i \in 1 .. m : w[i] = q[i]
                <5>1. q \in Seq(S) /\ Len(q) = m /\ m \in Nat
                    BY <4>1, <4>3
                <5> HIDE DEF Part
                <5>2. w = Append(q, h[m + 1])
                    BY <4>2, <5>1, AppendIsConcat
                <5> HIDE DEF w
                <5>3. w \in Seq(S)
                    BY <5>1, <5>2, <4>2
                <5>4. Len(w) = m + 1 /\ w[m + 1] = h[m + 1]
                    BY <5>1, <5>2, <4>2
                <5>5. \A i \in 1 .. m : w[i] = q[i]
                    BY <5>1, <5>2, <4>2
                <5> QED BY <5>3, <5>4, <5>5
            <4>5. \A i \in 1 .. m + 1 : w[i] = h[i]
                <5>1. \A i \in 1 .. m + 1 : i = m + 1 \/ i \in 1 .. m
                    BY <4>1
                <5> HIDE DEF w
                <5> QED BY <4>3, <4>4, <5>1
            <4> HIDE DEF w
            <4>6. Part(w, m + 1)
                BY <4>4, <4>5
            <4> HIDE DEF Part
            <4>7. Part(w, (n + 1) - R)
                BY <4>1, <4>6
            <4> QED BY <4>7, <3>2 DEF w
        <3> QED BY <3>1, <3>2, <1>0
    <2>5. Good(<<>>, 0)
        BY <1>0
    <2> DEFINE T == {n \in Nat : n \in 1 .. N => Good(g[n], n)}
    <2>6. 0 \in T
        OBVIOUS
    <2>7. ASSUME NEW n \in T PROVE n + 1 \in T
        <3> HIDE DEF Good
        <3> SUFFICES ASSUME n + 1 \in 1 .. N PROVE Good(g[n + 1], n + 1)
            OBVIOUS
        <3>1. n \in Nat /\ (n # 0 => n \in 1 .. N /\ n + 1 # 1) /\ (n + 1) - 1 = n /\ n + 1 <= N
            BY <1>0
        <3>2. CASE n = 0
            <4>1. g[n + 1] = one(n + 1) /\ one(n + 1) \in Seq(S)
                BY <2>2, <3>2, <1>1
            <4>2. <<>> \o one(n + 1) = one(n + 1)
                BY <4>1
            <4>3. Good(<<>> \o one(n + 1), n + 1)
                <5> HIDE DEF Good
                <5> QED BY <2>4, <2>5, <3>1, <3>2
            <4> HIDE DEF Good
            <4> QED BY <4>1, <4>2, <4>3
        <3>3. CASE n # 0
            <4>1. g[n + 1] = g[n] \o one(n + 1)
                BY <3>1, <3>3, <2>2
            <4> HIDE DEF Good
            <4>2. Good(g[n], n)
                BY <3>1, <3>3
            <4> QED BY <4>1, <4>2, <3>1, <2>4
        <3> QED BY <3>2, <3>3
    <2>8. N \in T
        <3> HIDE DEF T
        <3>1. T \in SUBSET Nat
            BY DEF T
        <3> QED BY <1>0, <2>6, <2>7, <3>1, Climb
    <2>9. Good(g[N], N)
        BY <2>8, <1>0, <1>5
    <2>10. g[N] = h
        <3>1. CASE N > R
            <4>1. Part(g[N], Len(h))
                BY <2>9, <3>1, <1>0
            <4> QED BY <4>1, SeqEqual
        <3>2. CASE N = R
            <4>1. g[N] = <<>> /\ Len(h) = 0
                BY <2>9, <3>2, <1>0
            <4> QED BY <4>1, EmptySeq
        <3> QED BY <3>1, <3>2, <1>0
    <2> QED BY <2>1, <2>10, <1>2 DEF s
<1> QED BY <1>4, <1>5

\* A sequence that begins with another one; what is known stays known.
Starts(q, old) ==
  /\ q \in Seq(Signatures) /\ Len(old) <= Len(q)
  /\ \A a \in 1 .. Len(old) : q[a] = old[a]

LEMMA StartsHas ==
  ASSUME NEW old \in Seq(Signatures), NEW q, Starts(q, old)
  PROVE  /\ \A s : Known(s, old) => Known(s, q)
         /\ \A s : Contains(old, s) => Contains(q, s)
<1>1. /\ q \in Seq(Signatures) /\ DOMAIN old = 1 .. Len(old) /\ DOMAIN q = 1 .. Len(q)
      /\ Len(old) \in Nat /\ Len(q) \in Nat /\ Len(old) <= Len(q)
    BY DEF Starts
<1>2. \A i \in 1 .. Len(old) : i \in 1 .. Len(q) /\ q[i] = old[i]
    BY <1>1 DEF Starts
<1>3. ASSUME NEW s, Known(s, old) PROVE Known(s, q)
    BY <1>1, <1>2, <1>3 DEF Known, Some
<1>4. ASSUME NEW s, Contains(old, s) PROVE Contains(q, s)
    BY <1>2, <1>4 DEF Contains
<1> QED BY <1>3, <1>4

\* merge_keysigs knows afterwards all that came, and adds nothing it knew before.
LEMMA KeysigsKnows ==
  ASSUME NEW old \in Seq(Signatures), NEW new \in Seq(Signatures)
  PROVE  /\ Starts(KeysigsMerged(old, new), old)
         /\ \A j \in 1 .. Len(new) : Known(new[j], KeysigsMerged(old, new))
         /\ (\A j \in 1 .. Len(new) : Known(new[j], old)) => KeysigsMerged(old, new) = old
<1> DEFINE N == Len(new)
           AllKnown == \A j \in 1 .. N : Known(new[j], old)
           Good(q, n) == /\ Starts(q, old)
                         /\ \A j \in 1 .. n : Known(new[j], q)
                         /\ AllKnown => q = old
<1>0. /\ N \in Nat /\ DOMAIN new = 1 .. N
      /\ \A i \in 1 .. N : new[i] \in Signatures
    OBVIOUS
<1>1. PICK g : Folded(new, old, g) /\ KeysigsMerged(old, new) = g[1 .. N]
    BY <1>0, KeysigsFolded
<1>2. Good(g[1 .. 0], 0)
    <2>1. g[1 .. 0] = old
        BY <1>0, <1>1, FoldedSteps
    <2>2. Starts(old, old)
        BY DEF Starts
    <2> QED BY <2>1, <2>2
<1>3. ASSUME NEW n \in Nat, n + 1 \in 1 .. N, NEW q, Good(q, n)
      PROVE  Good(Step(q, new[n + 1]), n + 1)
    <2> DEFINE s == new[n + 1]
               w == Step(q, s)
    <2>0. s \in Signatures /\ s.time <= s.time
        <3>1. s \in Signatures
            BY <1>0, <1>3
        <3>2. s.time \in Nat
            BY <3>1, FileAssumption
        <3> QED BY <3>1, <3>2
    <2>1. q \in Seq(Signatures) /\ Starts(q, old)
        BY <1>3 DEF Starts
    <2>2. \A j \in 1 .. n + 1 : j \in 1 .. n \/ j = n + 1
        BY <1>3
    <2>3. CASE Known(s, q)
        <3>1. Step(q, new[n + 1]) = q
            BY <2>3 DEF Step
        <3>2. \A j \in 1 .. n + 1 : Known(new[j], q)
            BY <1>3, <2>2, <2>3
        <3> QED BY <1>3, <3>1, <3>2
    <2>4. CASE ~Known(s, q)
        <3>1. w = Append(q, s)
            BY <2>4 DEF Step
        <3> HIDE DEF w, s
        <3>2. /\ w \in Seq(Signatures) /\ Len(w) = Len(q) + 1 /\ Len(q) \in Nat
              /\ w[Len(q) + 1] = s /\ DOMAIN w = 1 .. Len(w)
              /\ \A i \in 1 .. Len(q) : w[i] = q[i]
            BY <2>0, <2>1, <3>1
        <3>3. Starts(w, q)
            BY <3>2 DEF Starts
        <3>4. Starts(w, old)
            BY <2>1, <3>2, <3>3 DEF Starts
        <3>5. Known(s, w)
            <4>1. Len(q) + 1 \in DOMAIN w
                BY <3>2
            <4> QED BY <2>0, <3>2, <4>1 DEF Known, Some
        <3>6. \A j \in 1 .. n + 1 : Known(new[j], w)
            <4>1. \A j \in 1 .. n : Known(new[j], w)
                BY <1>3, <2>1, <3>3, StartsHas
            <4> QED BY <2>2, <3>5, <4>1 DEF s
        <3>7. ~AllKnown
            <4>1. SUFFICES ASSUME AllKnown PROVE FALSE
                OBVIOUS
            <4>2. q = old
                BY <1>3, <4>1
            <4>3. Known(s, old)
                BY <1>3, <4>1 DEF s
            <4> QED BY <2>4, <4>2, <4>3
        <3> HIDE DEF AllKnown
        <3>8. Good(w, n + 1)
            BY <3>4, <3>6, <3>7
        <3> QED BY <3>8 DEF w, s
    <2> QED BY <2>3, <2>4
<1> DEFINE T == {n \in Nat : n <= N => Good(g[1 .. n], n)}
<1> HIDE DEF Good
<1>4. 0 \in T
    BY <1>2
<1>5. ASSUME NEW n \in T PROVE n + 1 \in T
    <2> SUFFICES ASSUME n + 1 <= N PROVE Good(g[1 .. n + 1], n + 1)
        OBVIOUS
    <2>1. n \in Nat /\ n + 1 \in 1 .. N /\ n <= N
        BY <1>0
    <2>2. g[1 .. n + 1] = Step(g[1 .. n], new[n + 1])
        BY <1>0, <1>1, <2>1, FoldedSteps
    <2>3. Good(g[1 .. n], n)
        BY <2>1
    <2> QED BY <1>3, <2>1, <2>2, <2>3
<1>6. N \in T
    <2> HIDE DEF T
    <2>1. T \in SUBSET Nat
        BY DEF T
    <2> QED BY <1>0, <1>4, <1>5, <2>1, Climb
<1>7. Good(KeysigsMerged(old, new), N)
    BY <1>0, <1>1, <1>6
<1> QED BY <1>7 DEF Good

LEMMA SigsHas ==
  ASSUME NEW old \in Seq(Signatures), NEW new \in Seq(Signatures)
  PROVE  /\ Starts(SigsMerged(old, new), old)
         /\ \A j \in 1 .. Len(new) :
              OnSubkey(new[j]) \/ Contains(SigsMerged(old, new), new[j])
         /\ (\A j \in 1 .. Len(new) : OnSubkey(new[j]) \/ Contains(old, new[j]))
              => SigsMerged(old, new) = old
<1> DEFINE fresh == {i \in Firsts(new) : ~OnSubkey(new[i]) /\ ~Contains(old, new[i])}
           p == Picked(new, fresh)
           w == old \o p
<1>0. DOMAIN new = 1 .. Len(new)
    OBVIOUS
<1>1. SigsMerged(old, new) = w
    BY DEF SigsMerged
<1>2. Starts(w, old)
    <2>1. Extends(SigsMerged(old, new), old, new)
        BY SigsMergedFacts
    <2> QED BY <1>1, <2>1 DEF Extends, Starts
<1>3. ASSUME NEW j \in 1 .. Len(new), ~OnSubkey(new[j]) PROVE Contains(w, new[j])
    <2>1. CASE Contains(old, new[j])
        BY <1>2, <2>1, StartsHas
    <2>2. CASE ~Contains(old, new[j])
        <3>0. PICK k \in 1 .. Len(new) : k \in Firsts(new) /\ new[k] = new[j]
            <4>1. Len(new) \in Nat
                OBVIOUS
            <4>2. Firsts(new) \subseteq 1 .. Len(new)
                BY <1>0, <4>1, FirstsFacts
            <4>3. \E i \in Firsts(new) : new[i] = new[j]
                BY <1>0, <4>1, FirstsFacts
            <4> QED BY <4>2, <4>3
        <3>1. k \in fresh
            <4>1. ~OnSubkey(new[k]) /\ ~Contains(old, new[k])
                BY <1>3, <2>2, <3>0
            <4> QED BY <3>0, <4>1
        <3> HIDE DEF fresh
        <3>2. PICK a \in 1 .. Len(p) : p[a] = new[j]
            BY <3>0, <3>1, PickedAll
        <3>3. p \in Seq(Signatures)
            BY PickedFacts
        <3> HIDE DEF p
        <3>4. Len(old) + a \in 1 .. Len(w) /\ w[Len(old) + a] = p[a]
            BY <3>3
        <3> QED BY <3>2, <3>4 DEF Contains
    <2> QED BY <2>1, <2>2
<1>4. ASSUME \A j \in 1 .. Len(new) : OnSubkey(new[j]) \/ Contains(old, new[j])
      PROVE  w = old
    <2>1. \A i \in 1 .. Len(new) : i \notin fresh
        BY <1>4
    <2> HIDE DEF fresh
    <2>2. p = <<>>
        BY <2>1, PickedNone
    <2> QED BY <2>2
<1> HIDE DEF w
<1> QED BY <1>1, <1>2, <1>3, <1>4

LEMMA ConcatFacts ==
  ASSUME NEW S, NEW q \in Seq(S), NEW r \in Seq(S)
  PROVE  /\ q \o r \in Seq(S) /\ Len(q \o r) = Len(q) + Len(r)
         /\ \A i \in 1 .. Len(q) : i \in 1 .. Len(q \o r) /\ (q \o r)[i] = q[i]
         /\ \A i \in 1 .. Len(r) :
              Len(q) + i \in 1 .. Len(q \o r) /\ (q \o r)[Len(q) + i] = r[i]
         /\ \A i \in 1 .. Len(q \o r) :
              \/ i \in 1 .. Len(q) /\ (q \o r)[i] = q[i]
              \/ \E j \in 1 .. Len(r) : i = Len(q) + j /\ (q \o r)[i] = r[j]
<1> DEFINE w == q \o r
<1>1. w \in Seq(S) /\ Len(w) = Len(q) + Len(r) /\ Len(q) \in Nat /\ Len(r) \in Nat
    OBVIOUS
<1>2. \A i \in 1 .. Len(q) : w[i] = q[i]
    OBVIOUS
<1>3. \A i \in 1 .. Len(r) : w[Len(q) + i] = r[i]
    OBVIOUS
<1> HIDE DEF w
<1>4. ASSUME NEW i \in 1 .. Len(w)
      PROVE  \/ i \in 1 .. Len(q) /\ w[i] = q[i]
             \/ \E j \in 1 .. Len(r) : i = Len(q) + j /\ w[i] = r[j]
    <2>1. CASE i <= Len(q)
        BY <1>1, <1>2, <2>1
    <2>2. CASE i > Len(q)
        <3>1. i - Len(q) \in 1 .. Len(r) /\ i = Len(q) + (i - Len(q))
            BY <1>1, <2>2
        <3>2. w[i] = r[i - Len(q)]
            BY <1>3, <3>1
        <3> QED BY <3>1, <3>2
    <2> QED BY <1>1, <2>1, <2>2
<1>5. \A i \in 1 .. Len(q) : i \in 1 .. Len(w)
    BY <1>1
<1>6. \A i \in 1 .. Len(r) : Len(q) + i \in 1 .. Len(w)
    BY <1>1
<1> QED BY <1>1, <1>2, <1>3, <1>4, <1>5, <1>6 DEF w

LEMMA ConcatLeft ==
  ASSUME NEW S, NEW q \in Seq(S), NEW r \in Seq(S)
  PROVE  \A i \in 1 .. Len(q) : i \in 1 .. Len(q \o r) /\ (q \o r)[i] = q[i]
BY ConcatFacts

LEMMA ConcatRight ==
  ASSUME NEW S, NEW q \in Seq(S), NEW r \in Seq(S)
  PROVE  \A i \in 1 .. Len(r) :
           Len(q) + i \in 1 .. Len(q \o r) /\ (q \o r)[Len(q) + i] = r[i]
BY ConcatFacts

\* The head of the keyblock.
Kept(s) == s.class = "keyrev" \/ (s.class = "direct" /\ Verifies(s, Key))
HeadIn(new, old) == \A j \in 1 .. Len(new) : Kept(new[j]) => Contains(old, new[j])

LEMMA HeadHas ==
  ASSUME NEW old \in Seq(Signatures), NEW new \in Seq(Signatures), NEW class
  PROVE  /\ \A x : Contains(old, x) => Contains(HeadMerged(old, new, class), x)
         /\ \A j \in 1 .. Len(new) :
              new[j].class = class => Contains(HeadMerged(old, new, class), new[j])
<1> DEFINE fresh == {i \in Firsts(new) : new[i].class = class /\ ~Contains(old, new[i])}
           p == Picked(new, fresh)
           r == Reverse(p)
           w == r \o old
<1>0. DOMAIN new = 1 .. Len(new)
    OBVIOUS
<1>1. HeadMerged(old, new, class) = w
    BY DEF HeadMerged
<1>2. ASSUME NEW j \in 1 .. Len(new), j \in fresh PROVE \E a \in 1 .. Len(p) : p[a] = new[j]
    <2> HIDE DEF fresh
    <2> QED BY <1>2, PickedAll
<1>3. p \in Seq(Signatures)
    BY PickedFacts
<1> HIDE DEF p
<1>4. /\ r \in Seq(Signatures) /\ Len(r) = Len(p) /\ Len(p) \in Nat
      /\ \A i \in 1 .. Len(p) : Len(p) - i + 1 \in 1 .. Len(p) /\ r[i] = p[Len(p) - i + 1]
    BY <1>3, ReverseFacts
<1> HIDE DEF r
<1>5. ASSUME NEW a \in 1 .. Len(p) PROVE \E i \in 1 .. Len(r) : r[i] = p[a]
    <2>1. \A n \in Nat : \A x \in 1 .. n : n - x + 1 \in 1 .. n /\ n - (n - x + 1) + 1 = x
        OBVIOUS
    <2>2. Len(p) - a + 1 \in 1 .. Len(r) /\ Len(p) - (Len(p) - a + 1) + 1 = a
        BY <2>1, <1>4
    <2>3. r[Len(p) - a + 1] = p[a]
        BY <2>2, <1>4
    <2> QED BY <2>2, <2>3
<1>6. \A i \in 1 .. Len(r) : i \in 1 .. Len(w) /\ w[i] = r[i]
    BY <1>4, ConcatLeft
<1>7. \A i \in 1 .. Len(old) : Len(r) + i \in 1 .. Len(w) /\ w[Len(r) + i] = old[i]
    BY <1>4, ConcatRight
<1> HIDE DEF w
<1>8. ASSUME NEW x, Contains(old, x) PROVE Contains(w, x)
    BY <1>7, <1>8 DEF Contains
<1>9. ASSUME NEW j \in 1 .. Len(new), new[j].class = class PROVE Contains(w, new[j])
    <2>1. CASE Contains(old, new[j])
        BY <1>8, <2>1
    <2>2. CASE ~Contains(old, new[j])
        <3>0. PICK k \in 1 .. Len(new) : k \in Firsts(new) /\ new[k] = new[j]
            <4>1. Len(new) \in Nat
                OBVIOUS
            <4>2. Firsts(new) \subseteq 1 .. Len(new)
                BY <1>0, <4>1, FirstsFacts
            <4>3. \E i \in Firsts(new) : new[i] = new[j]
                BY <1>0, <4>1, FirstsFacts
            <4> QED BY <4>2, <4>3
        <3>1. k \in fresh
            <4>1. new[k].class = class /\ ~Contains(old, new[k])
                BY <1>9, <2>2, <3>0
            <4> QED BY <3>0, <4>1
        <3>2. \E i \in 1 .. Len(r) : r[i] = new[j]
            BY <1>2, <1>5, <3>0, <3>1
        <3> QED BY <1>6, <3>2 DEF Contains
    <2> QED BY <2>1, <2>2
<1> QED BY <1>1, <1>8, <1>9

LEMMA FixedKeeps ==
  ASSUME NEW sigs \in Seq(Signatures), NEW s, Kept(s), Contains(sigs, s)
  PROVE  Contains(FixedHead(sigs), s)
<1> DEFINE I == {i \in DOMAIN sigs : sigs[i].class = "direct" => Verifies(sigs[i], Key)}
<1>1. FixedHead(sigs) = Picked(sigs, I)
    BY DEF FixedHead
<1>2. PICK k \in 1 .. Len(sigs) : sigs[k] = s
    BY DEF Contains
<1>3. k \in I
    BY <1>2 DEF Kept
<1> HIDE DEF I
<1>4. \E a \in 1 .. Len(Picked(sigs, I)) : Picked(sigs, I)[a] = sigs[k]
    BY <1>3, PickedAll
<1> QED BY <1>1, <1>2, <1>4 DEF Contains

\* What the head of the keyring has stays there, and what comes is there.
LEMMA HeadStays ==
  ASSUME NEW o \in Keyblock, NEW c \in Keyblock
  PROVE  /\ \A x : Kept(x) /\ Contains(o.head, x) => Contains(Merged(o, c).head, x)
         /\ HeadIn(c.head, Merged(o, c).head)
<1> DEFINE h == FixedHead(o.head)
           k == HeadMerged(h, c.head, "keyrev")
           d == HeadMerged(k, c.head, "direct")
<1>1. Merged(o, c).head = d
    BY DEF Merged
<1>2. o.head \in Seq(Signatures) /\ c.head \in Seq(Signatures)
    BY BlockFields
<1>3. h \in Seq(Signatures) /\ \A x : Kept(x) /\ Contains(o.head, x) => Contains(h, x)
    BY <1>2, FixedHeadFacts, FixedKeeps DEF Within
<1> HIDE DEF h
<1>4. /\ k \in Seq(Signatures)
      /\ \A x : Contains(h, x) => Contains(k, x)
      /\ \A j \in 1 .. Len(c.head) : c.head[j].class = "keyrev" => Contains(k, c.head[j])
    BY <1>2, <1>3, HeadHas, HeadMergedFacts
<1> HIDE DEF k
<1>5. /\ \A x : Contains(k, x) => Contains(d, x)
      /\ \A j \in 1 .. Len(c.head) : c.head[j].class = "direct" => Contains(d, c.head[j])
    BY <1>2, <1>4, HeadHas
<1> HIDE DEF d
<1>6. HeadIn(c.head, d)
    BY <1>4, <1>5 DEF HeadIn, Kept
<1> QED BY <1>1, <1>3, <1>4, <1>5, <1>6

\* Merging what is there already leaves the head as it is, but for what the
\* next merge drops.
LEMMA HeadAgain ==
  ASSUME NEW o \in Keyblock, NEW c \in Keyblock, HeadIn(c.head, o.head)
  PROVE  FixedHead(Merged(o, c).head) = FixedHead(o.head)
<1> DEFINE h == FixedHead(o.head)
           revs == {i \in Firsts(c.head) : c.head[i].class = "keyrev" /\ ~Contains(h, c.head[i])}
           dirs == {i \in Firsts(c.head) : c.head[i].class = "direct" /\ ~Contains(h, c.head[i])}
           p == Picked(c.head, dirs)
           r == Reverse(p)
           sound(s) == s.class = "direct" => Verifies(s, Key)
<1>1. o.head \in Seq(Signatures) /\ c.head \in Seq(Signatures)
    BY BlockFields
<1>2. h \in Seq(Signatures) /\ \A x : Kept(x) /\ Contains(o.head, x) => Contains(h, x)
    BY <1>1, FixedHeadFacts, FixedKeeps DEF Within
<1>3. \A a \in 1 .. Len(h) : sound(h[a])
    <2> DEFINE I == {i \in DOMAIN o.head : sound(o.head[i])}
    <2>1. h = Picked(o.head, I)
        BY DEF FixedHead
    <2> HIDE DEF h
    <2>2. \A a \in 1 .. Len(h) : \E i \in 1 .. Len(o.head) : i \in I /\ h[a] = o.head[i]
        <3> HIDE DEF I
        <3> QED BY <1>1, <2>1, PickedFrom
    <2> QED BY <2>2
<1>4. HeadMerged(h, c.head, "keyrev") = h
    <2> HIDE DEF h
    <2>1. \A i \in 1 .. Len(c.head) : i \notin revs
        BY <1>2 DEF HeadIn, Kept
    <2>2. HeadMerged(h, c.head, "keyrev") = Reverse(Picked(c.head, revs)) \o h
        BY DEF HeadMerged
    <2> HIDE DEF revs
    <2>3. Picked(c.head, revs) = <<>>
        BY <1>1, <2>1, PickedNone
    <2>4. Reverse(<<>>) = <<>>
        <3>1. <<>> \in Seq(Signatures) /\ Len(<<>>) = 0
            OBVIOUS
        <3>2. Reverse(<<>>) \in Seq(Signatures) /\ Len(Reverse(<<>>)) = 0
            BY <3>1, ReverseFacts
        <3> QED BY <3>2, EmptySeq
    <2> QED BY <1>2, <2>2, <2>3, <2>4
<1>5. Merged(o, c).head = r \o h
    <2>1. Merged(o, c).head = HeadMerged(HeadMerged(h, c.head, "keyrev"), c.head, "direct")
        BY DEF Merged
    <2>2. HeadMerged(h, c.head, "direct") = r \o h
        <3> HIDE DEF h
        <3> QED BY DEF HeadMerged
    <2> QED BY <1>4, <2>1, <2>2
<1> HIDE DEF h
<1>6. p \in Seq(Signatures) /\ \A a \in 1 .. Len(p) : ~sound(p[a])
    <2>1. \A a \in 1 .. Len(p) : \E i \in 1 .. Len(c.head) : i \in dirs /\ p[a] = c.head[i]
        <3> HIDE DEF dirs
        <3> QED BY <1>1, PickedFrom
    <2>2. p \in Seq(Signatures)
        BY <1>1, PickedFacts
    <2> HIDE DEF p
    <2>3. \A i \in 1 .. Len(c.head) : i \in dirs => ~sound(c.head[i])
        BY <1>2 DEF HeadIn, Kept
    <2> QED BY <2>1, <2>2, <2>3
<1> HIDE DEF p
<1>7. r \in Seq(Signatures) /\ \A a \in 1 .. Len(r) : ~sound(r[a])
    <2>1. /\ r \in Seq(Signatures) /\ Len(r) = Len(p)
          /\ \A i \in 1 .. Len(p) : Len(p) - i + 1 \in 1 .. Len(p) /\ r[i] = p[Len(p) - i + 1]
        BY <1>6, ReverseFacts
    <2> HIDE DEF r, sound
    <2> QED BY <1>6, <2>1
<1> HIDE DEF r
<1> DEFINE w == r \o h
           I == {i \in DOMAIN w : sound(w[i])}
<1>8. FixedHead(w) = Picked(w, I)
    BY DEF FixedHead
<1>9. ASSUME NEW i \in 1 .. Len(r) + Len(h) PROVE i \in I <=> i > Len(r)
    <2>0. /\ DOMAIN w = 1 .. Len(w) /\ i \in 1 .. Len(w)
          /\ Len(r) \in Nat
        BY <1>2, <1>7, ConcatFacts
    <2>1. \/ i \in 1 .. Len(r) /\ w[i] = r[i]
          \/ \E j \in 1 .. Len(h) : i = Len(r) + j /\ w[i] = h[j]
        BY <1>2, <1>7, <2>0, ConcatFacts
    <2> HIDE DEF w, sound
    <2>2. CASE i \in 1 .. Len(r) /\ w[i] = r[i]
        BY <1>7, <2>0, <2>2
    <2>3. CASE \E j \in 1 .. Len(h) : i = Len(r) + j /\ w[i] = h[j]
        BY <1>3, <2>0, <2>3
    <2> QED BY <2>1, <2>2, <2>3
<1> HIDE DEF I
<1>10. Picked(w, I) = h
    BY <1>2, <1>7, <1>9, PickedRest
<1> QED BY <1>5, <1>8, <1>10 DEF h

\* The user ids and the subkeys.  Two ways in which the signatures of a file
\* (first) are found in those of the keyring (second).
AllThere ==
  {x \in Seq(Signatures) \X Seq(Signatures) :
     \A j \in 1 .. Len(x[1]) : OnSubkey(x[1][j]) \/ Contains(x[2], x[1][j])}
AllKnown ==
  {x \in Seq(Signatures) \X Seq(Signatures) : \A j \in 1 .. Len(x[1]) : Known(x[1][j], x[2])}

Taken(new, old, In) ==
  \A n \in 1 .. Len(new) :
    \E i \in 1 .. Len(old) : old[i].id = new[n].id /\ <<new[n].sigs, old[i].sigs>> \in In

Continues(r, old) ==
  /\ r \in Seq(Parts)
  /\ \A a \in 1 .. Len(old) :
       a \in 1 .. Len(r) /\ r[a].id = old[a].id /\ Starts(r[a].sigs, old[a].sigs)

\* What is found in some signatures is found in more of them.
LEMMA MoreThere ==
  ASSUME NEW In \in {AllThere, AllKnown}, NEW a, NEW b, NEW d, <<a, b>> \in In, Starts(d, b)
  PROVE  <<a, d>> \in In
<1>1. a \in Seq(Signatures) /\ b \in Seq(Signatures) /\ d \in Seq(Signatures)
    BY DEF AllThere, AllKnown, Starts
<1>2. CASE In = AllThere
    <2>1. \A j \in 1 .. Len(a) : OnSubkey(a[j]) \/ Contains(b, a[j])
        BY <1>2 DEF AllThere
    <2>2. \A j \in 1 .. Len(a) : OnSubkey(a[j]) \/ Contains(d, a[j])
        BY <1>1, <2>1, StartsHas
    <2> QED BY <1>1, <1>2, <2>2 DEF AllThere
<1>3. CASE In = AllKnown
    <2>1. \A j \in 1 .. Len(a) : Known(a[j], b)
        BY <1>3 DEF AllKnown
    <2>2. \A j \in 1 .. Len(a) : Known(a[j], d)
        BY <1>1, <2>1, StartsHas
    <2> QED BY <1>1, <1>3, <2>2 DEF AllKnown
<1> QED BY <1>2, <1>3

LEMMA TakenStays ==
  ASSUME NEW In \in {AllThere, AllKnown}, NEW new, NEW old, NEW r,
         Taken(new, old, In), Continues(r, old)
  PROVE  Taken(new, r, In)
<1> SUFFICES ASSUME NEW n \in 1 .. Len(new)
             PROVE  \E i \in 1 .. Len(r) :
                      r[i].id = new[n].id /\ <<new[n].sigs, r[i].sigs>> \in In
    BY DEF Taken
<1>1. PICK i \in 1 .. Len(old) :
        old[i].id = new[n].id /\ <<new[n].sigs, old[i].sigs>> \in In
    BY DEF Taken
<1>2. i \in 1 .. Len(r) /\ r[i].id = old[i].id /\ Starts(r[i].sigs, old[i].sigs)
    BY DEF Continues
<1>3. <<new[n].sigs, r[i].sigs>> \in In
    BY <1>1, <1>2, MoreThere
<1> QED BY <1>1, <1>2, <1>3

\* Merging the parts, given what becomes of those of the keyring (q).
LEMMA PartsTaken ==
  ASSUME NEW In \in {AllThere, AllKnown},
         NEW old \in Seq(Parts), NEW new \in Seq(Parts), NEW q \in Seq(Parts),
         Len(q) = Len(old), Distinct(new),
         \A n \in 1 .. Len(new) : <<new[n].sigs, new[n].sigs>> \in In,
         \A a \in 1 .. Len(old) : q[a].id = old[a].id /\ Starts(q[a].sigs, old[a].sigs),
         \A a \in 1 .. Len(old) : ~Has(new, old[a].id) => q[a] = old[a],
         \A a \in 1 .. Len(old) : \A n \in 1 .. Len(new) :
           new[n].id = old[a].id =>
             /\ <<new[n].sigs, q[a].sigs>> \in In
             /\ <<new[n].sigs, old[a].sigs>> \in In => q[a] = old[a]
  PROVE  /\ Continues(q \o Appended(old, new), old)
         /\ Taken(new, q \o Appended(old, new), In)
         /\ Distinct(old) /\ Taken(new, old, In) => q \o Appended(old, new) = old
<1> DEFINE lacking == {i \in DOMAIN new : ~Has(old, new[i].id)}
           p == Picked(new, lacking)
           r == q \o p
<1>0. /\ DOMAIN new = 1 .. Len(new) /\ DOMAIN old = 1 .. Len(old)
      /\ \A a \in 1 .. Len(old) : old[a] \in Parts
    OBVIOUS
<1>1. Appended(old, new) = p
    BY DEF Appended
<1>2. ASSUME NEW n \in 1 .. Len(new), n \in lacking PROVE \E a \in 1 .. Len(p) : p[a] = new[n]
    <2> HIDE DEF lacking
    <2> QED BY <1>2, PickedAll
<1>3. (\A n \in 1 .. Len(new) : n \notin lacking) => p = <<>>
    <2> HIDE DEF lacking
    <2> QED BY PickedNone
<1>4. p \in Seq(Parts)
    BY PickedFacts
<1> HIDE DEF p
<1>5. /\ r \in Seq(Parts)
      /\ \A i \in 1 .. Len(q) : i \in 1 .. Len(r) /\ r[i] = q[i]
      /\ \A i \in 1 .. Len(p) : Len(q) + i \in 1 .. Len(r) /\ r[Len(q) + i] = p[i]
    <2>1. r \in Seq(Parts)
        BY <1>4
    <2>2. \A i \in 1 .. Len(q) : i \in 1 .. Len(r) /\ r[i] = q[i]
        BY <1>4, ConcatLeft
    <2>3. \A i \in 1 .. Len(p) : Len(q) + i \in 1 .. Len(r) /\ r[Len(q) + i] = p[i]
        BY <1>4, ConcatRight
    <2> QED BY <2>1, <2>2, <2>3
<1> HIDE DEF r
<1>6. Continues(r, old)
    BY <1>5 DEF Continues
<1>7. ASSUME NEW n \in 1 .. Len(new)
      PROVE  \E i \in 1 .. Len(r) : r[i].id = new[n].id /\ <<new[n].sigs, r[i].sigs>> \in In
    <2>1. CASE n \in lacking
        <3>1. PICK a \in 1 .. Len(p) : p[a] = new[n]
            BY <1>2, <2>1
        <3>2. Len(q) + a \in 1 .. Len(r) /\ r[Len(q) + a] = new[n]
            BY <1>5, <3>1
        <3> QED BY <3>2
    <2>2. CASE n \notin lacking
        <3>1. PICK a \in 1 .. Len(old) : old[a].id = new[n].id
            BY <1>0, <2>2 DEF Has
        <3>2. q[a].id = new[n].id /\ <<new[n].sigs, q[a].sigs>> \in In
            BY <3>1
        <3> QED BY <1>5, <3>2
    <2> QED BY <2>1, <2>2
<1>8. ASSUME Distinct(old), Taken(new, old, In) PROVE r = old
    <2>1. ASSUME NEW a \in 1 .. Len(old) PROVE q[a] = old[a]
        <3>1. CASE ~Has(new, old[a].id)
            BY <3>1
        <3>2. CASE Has(new, old[a].id)
            <4>1. PICK n \in 1 .. Len(new) : new[n].id = old[a].id
                BY <1>0, <3>2 DEF Has
            <4>2. PICK i \in 1 .. Len(old) :
                    old[i].id = new[n].id /\ <<new[n].sigs, old[i].sigs>> \in In
                BY <1>8 DEF Taken
            <4>3. i = a
                BY <1>8, <4>1, <4>2 DEF Distinct
            <4> QED BY <4>1, <4>2, <4>3
        <3> QED BY <3>1, <3>2
    <2>2. q = old
        BY <2>1, SeqEqual
    <2>3. \A n \in 1 .. Len(new) : n \notin lacking
        BY <1>0, <1>8 DEF Taken, Has
    <2>4. p = <<>>
        BY <1>3, <2>3
    <2> QED BY <2>2, <2>4 DEF r
<1>9. Taken(new, r, In)
    BY <1>7 DEF Taken
<1> QED BY <1>1, <1>6, <1>8, <1>9 DEF r

\* A keyblock with everything that import_one would take from another one.
Absorbed(o, c) ==
  /\ HeadIn(c.head, o.head)
  /\ Taken(c.uids, o.uids, AllThere)
  /\ Taken(c.subs, o.subs, AllKnown)

LEMMA OwnThere ==
  ASSUME NEW t \in Seq(Signatures)
  PROVE  <<t, t>> \in AllThere /\ <<t, t>> \in AllKnown
<1>1. DOMAIN t = 1 .. Len(t) /\ \A j \in 1 .. Len(t) : t[j] \in Signatures
    OBVIOUS
<1>2. \A j \in 1 .. Len(t) : t[j].time <= t[j].time
    <2>1. \A j \in 1 .. Len(t) : t[j].time \in Nat
        BY <1>1, FileAssumption
    <2> QED BY <2>1
<1>3. \A j \in 1 .. Len(t) : Known(t[j], t)
    BY <1>1, <1>2 DEF Known, Some
<1>4. \A j \in 1 .. Len(t) : Contains(t, t[j])
    BY DEF Contains
<1> QED BY <1>3, <1>4 DEF AllThere, AllKnown

LEMMA UidsTaken ==
  ASSUME NEW old \in Seq(Parts), NEW new \in Seq(Parts), Distinct(new)
  PROVE  /\ Continues(PartsMerged(old, new, SigsMerged), old)
         /\ Taken(new, PartsMerged(old, new, SigsMerged), AllThere)
         /\ Distinct(old) /\ Taken(new, old, AllThere)
              => PartsMerged(old, new, SigsMerged) = old
<1> DEFINE two(p) == [id |-> p.id, sigs |-> SigsMerged(p.sigs, PartOf(new, p.id).sigs)]
           one(p) == IF Has(new, p.id) THEN two(p) ELSE p
           q == [i \in DOMAIN old |-> one(old[i])]
<1>1. PartsMerged(old, new, SigsMerged) = q \o Appended(old, new)
    BY DEF PartsMerged, Map
<1>2. /\ Len(old) \in Nat /\ DOMAIN old = 1 .. Len(old) /\ DOMAIN new = 1 .. Len(new)
      /\ \A a \in 1 .. Len(old) : old[a] \in Parts /\ old[a].sigs \in Seq(Signatures)
      /\ \A n \in 1 .. Len(new) : new[n].sigs \in Seq(Signatures)
    BY PartFields
<1>3. ASSUME NEW a \in 1 .. Len(old)
      PROVE  /\ one(old[a]) \in Parts /\ one(old[a]).id = old[a].id
             /\ Starts(one(old[a]).sigs, old[a].sigs)
             /\ ~Has(new, old[a].id) => one(old[a]) = old[a]
             /\ \A n \in 1 .. Len(new) : new[n].id = old[a].id =>
                  /\ <<new[n].sigs, one(old[a]).sigs>> \in AllThere
                  /\ <<new[n].sigs, old[a].sigs>> \in AllThere => one(old[a]) = old[a]
    <2>1. CASE Has(new, old[a].id)
        <3>1. PICK i \in 1 .. Len(new) : PartOf(new, old[a].id) = new[i] /\ new[i].id = old[a].id
            BY <2>1, PartOfFacts
        <3>2. \A n \in 1 .. Len(new) : new[n].id = old[a].id => n = i
            BY <3>1 DEF Distinct
        <3> DEFINE m == SigsMerged(old[a].sigs, new[i].sigs)
        <3>3. one(old[a]) = [id |-> old[a].id, sigs |-> m]
            BY <2>1, <3>1
        <3> HIDE DEF one
        <3>4. /\ m \in Seq(Signatures) /\ Starts(m, old[a].sigs)
              /\ \A j \in 1 .. Len(new[i].sigs) :
                   OnSubkey(new[i].sigs[j]) \/ Contains(m, new[i].sigs[j])
              /\ (\A j \in 1 .. Len(new[i].sigs) :
                    OnSubkey(new[i].sigs[j]) \/ Contains(old[a].sigs, new[i].sigs[j]))
                   => m = old[a].sigs
            BY <1>2, SigsMergedFacts, SigsHas
        <3> HIDE DEF m
        <3>5. [id |-> old[a].id, sigs |-> m] \in Parts
            BY <1>2, <3>4, PartFields
        <3>6. <<new[i].sigs, m>> \in AllThere
            BY <1>2, <3>4 DEF AllThere
        <3>7. ASSUME <<new[i].sigs, old[a].sigs>> \in AllThere PROVE one(old[a]) = old[a]
            <4>1. m = old[a].sigs
                BY <3>4, <3>7 DEF AllThere
            <4> QED BY <1>2, <3>3, <4>1, PartFields
        <3>8. /\ one(old[a]) \in Parts /\ one(old[a]).id = old[a].id
              /\ one(old[a]).sigs = m
            BY <3>3, <3>5
        <3>9. ASSUME NEW n \in 1 .. Len(new), new[n].id = old[a].id
              PROVE  /\ <<new[n].sigs, one(old[a]).sigs>> \in AllThere
                     /\ <<new[n].sigs, old[a].sigs>> \in AllThere => one(old[a]) = old[a]
            <4>1. n = i
                BY <3>2, <3>9
            <4> QED BY <4>1, <3>6, <3>7, <3>8
        <3> QED BY <2>1, <3>4, <3>8, <3>9
    <2>2. CASE ~Has(new, old[a].id)
        <3>1. one(old[a]) = old[a]
            BY <2>2
        <3> HIDE DEF one
        <3>2. \A n \in 1 .. Len(new) : new[n].id # old[a].id
            BY <1>2, <2>2 DEF Has
        <3>3. Starts(old[a].sigs, old[a].sigs)
            BY <1>2 DEF Starts
        <3> QED BY <1>2, <3>1, <3>2, <3>3
    <2> QED BY <2>1, <2>2
<1> HIDE DEF one
<1>4. /\ q \in Seq(Parts) /\ Len(q) = Len(old)
      /\ \A a \in 1 .. Len(old) : q[a] = one(old[a])
    <2>1. q \in [1 .. Len(old) -> Parts] /\ \A a \in 1 .. Len(old) : q[a] = one(old[a])
        BY <1>2, <1>3
    <2> HIDE DEF q
    <2> QED BY <2>1, <1>2
<1> HIDE DEF q
<1>5. \A n \in 1 .. Len(new) : <<new[n].sigs, new[n].sigs>> \in AllThere
    BY <1>2, OwnThere
<1> DEFINE In == AllThere
<1>6. In \in {AllThere, AllKnown}
    OBVIOUS
<1>7. /\ \A n \in 1 .. Len(new) : <<new[n].sigs, new[n].sigs>> \in In
      /\ \A a \in 1 .. Len(old) : q[a].id = old[a].id /\ Starts(q[a].sigs, old[a].sigs)
      /\ \A a \in 1 .. Len(old) : ~Has(new, old[a].id) => q[a] = old[a]
      /\ \A a \in 1 .. Len(old) : \A n \in 1 .. Len(new) :
           new[n].id = old[a].id =>
             /\ <<new[n].sigs, q[a].sigs>> \in In
             /\ <<new[n].sigs, old[a].sigs>> \in In => q[a] = old[a]
    BY <1>3, <1>4, <1>5
<1> HIDE DEF In
<1>8. /\ Continues(q \o Appended(old, new), old)
      /\ Taken(new, q \o Appended(old, new), In)
      /\ Distinct(old) /\ Taken(new, old, In) => q \o Appended(old, new) = old
    BY <1>4, <1>6, <1>7, PartsTaken
<1> QED BY <1>1, <1>8 DEF In

LEMMA SubsTaken ==
  ASSUME NEW old \in Seq(Parts), NEW new \in Seq(Parts), Distinct(new)
  PROVE  /\ Continues(PartsMerged(old, new, KeysigsMerged), old)
         /\ Taken(new, PartsMerged(old, new, KeysigsMerged), AllKnown)
         /\ Distinct(old) /\ Taken(new, old, AllKnown)
              => PartsMerged(old, new, KeysigsMerged) = old
<1> DEFINE two(p) == [id |-> p.id, sigs |-> KeysigsMerged(p.sigs, PartOf(new, p.id).sigs)]
           one(p) == IF Has(new, p.id) THEN two(p) ELSE p
           q == [i \in DOMAIN old |-> one(old[i])]
<1>1. PartsMerged(old, new, KeysigsMerged) = q \o Appended(old, new)
    BY DEF PartsMerged, Map
<1>2. /\ Len(old) \in Nat /\ DOMAIN old = 1 .. Len(old) /\ DOMAIN new = 1 .. Len(new)
      /\ \A a \in 1 .. Len(old) : old[a] \in Parts /\ old[a].sigs \in Seq(Signatures)
      /\ \A n \in 1 .. Len(new) : new[n].sigs \in Seq(Signatures)
    BY PartFields
<1>3. ASSUME NEW a \in 1 .. Len(old)
      PROVE  /\ one(old[a]) \in Parts /\ one(old[a]).id = old[a].id
             /\ Starts(one(old[a]).sigs, old[a].sigs)
             /\ ~Has(new, old[a].id) => one(old[a]) = old[a]
             /\ \A n \in 1 .. Len(new) : new[n].id = old[a].id =>
                  /\ <<new[n].sigs, one(old[a]).sigs>> \in AllKnown
                  /\ <<new[n].sigs, old[a].sigs>> \in AllKnown => one(old[a]) = old[a]
    <2>1. CASE Has(new, old[a].id)
        <3>1. PICK i \in 1 .. Len(new) : PartOf(new, old[a].id) = new[i] /\ new[i].id = old[a].id
            BY <2>1, PartOfFacts
        <3>2. \A n \in 1 .. Len(new) : new[n].id = old[a].id => n = i
            BY <3>1 DEF Distinct
        <3> DEFINE m == KeysigsMerged(old[a].sigs, new[i].sigs)
        <3>3. one(old[a]) = [id |-> old[a].id, sigs |-> m]
            BY <2>1, <3>1
        <3> HIDE DEF one
        <3>4. /\ m \in Seq(Signatures) /\ Starts(m, old[a].sigs)
              /\ \A j \in 1 .. Len(new[i].sigs) :
                   Known(new[i].sigs[j], m)
              /\ (\A j \in 1 .. Len(new[i].sigs) :
                    Known(new[i].sigs[j], old[a].sigs))
                   => m = old[a].sigs
            BY <1>2, KeysigsMergedFacts, KeysigsKnows
        <3> HIDE DEF m
        <3>5. [id |-> old[a].id, sigs |-> m] \in Parts
            BY <1>2, <3>4, PartFields
        <3>6. <<new[i].sigs, m>> \in AllKnown
            BY <1>2, <3>4 DEF AllKnown
        <3>7. ASSUME <<new[i].sigs, old[a].sigs>> \in AllKnown PROVE one(old[a]) = old[a]
            <4>1. m = old[a].sigs
                BY <3>4, <3>7 DEF AllKnown
            <4> QED BY <1>2, <3>3, <4>1, PartFields
        <3>8. /\ one(old[a]) \in Parts /\ one(old[a]).id = old[a].id
              /\ one(old[a]).sigs = m
            BY <3>3, <3>5
        <3>9. ASSUME NEW n \in 1 .. Len(new), new[n].id = old[a].id
              PROVE  /\ <<new[n].sigs, one(old[a]).sigs>> \in AllKnown
                     /\ <<new[n].sigs, old[a].sigs>> \in AllKnown => one(old[a]) = old[a]
            <4>1. n = i
                BY <3>2, <3>9
            <4> QED BY <4>1, <3>6, <3>7, <3>8
        <3> QED BY <2>1, <3>4, <3>8, <3>9
    <2>2. CASE ~Has(new, old[a].id)
        <3>1. one(old[a]) = old[a]
            BY <2>2
        <3> HIDE DEF one
        <3>2. \A n \in 1 .. Len(new) : new[n].id # old[a].id
            BY <1>2, <2>2 DEF Has
        <3>3. Starts(old[a].sigs, old[a].sigs)
            BY <1>2 DEF Starts
        <3> QED BY <1>2, <3>1, <3>2, <3>3
    <2> QED BY <2>1, <2>2
<1> HIDE DEF one
<1>4. /\ q \in Seq(Parts) /\ Len(q) = Len(old)
      /\ \A a \in 1 .. Len(old) : q[a] = one(old[a])
    <2>1. q \in [1 .. Len(old) -> Parts] /\ \A a \in 1 .. Len(old) : q[a] = one(old[a])
        BY <1>2, <1>3
    <2> HIDE DEF q
    <2> QED BY <2>1, <1>2
<1> HIDE DEF q
<1>5. \A n \in 1 .. Len(new) : <<new[n].sigs, new[n].sigs>> \in AllKnown
    BY <1>2, OwnThere
<1> DEFINE In == AllKnown
<1>6. In \in {AllThere, AllKnown}
    OBVIOUS
<1>7. /\ \A n \in 1 .. Len(new) : <<new[n].sigs, new[n].sigs>> \in In
      /\ \A a \in 1 .. Len(old) : q[a].id = old[a].id /\ Starts(q[a].sigs, old[a].sigs)
      /\ \A a \in 1 .. Len(old) : ~Has(new, old[a].id) => q[a] = old[a]
      /\ \A a \in 1 .. Len(old) : \A n \in 1 .. Len(new) :
           new[n].id = old[a].id =>
             /\ <<new[n].sigs, q[a].sigs>> \in In
             /\ <<new[n].sigs, old[a].sigs>> \in In => q[a] = old[a]
    BY <1>3, <1>4, <1>5
<1> HIDE DEF In
<1>8. /\ Continues(q \o Appended(old, new), old)
      /\ Taken(new, q \o Appended(old, new), In)
      /\ Distinct(old) /\ Taken(new, old, In) => q \o Appended(old, new) = old
    BY <1>4, <1>6, <1>7, PartsTaken
<1> QED BY <1>1, <1>8 DEF In

LEMMA AbsorbedMerged ==
  ASSUME NEW o \in Keyblock, NEW c \in Keyblock, Once(c)
  PROVE  /\ Absorbed(Merged(o, c), c)
         /\ \A b \in Keyblock : Absorbed(o, b) => Absorbed(Merged(o, c), b)
<1> DEFINE m == Merged(o, c)
<1>1. /\ o.uids \in Seq(Parts) /\ o.subs \in Seq(Parts)
      /\ c.uids \in Seq(Parts) /\ c.subs \in Seq(Parts)
    BY BlockFields
<1>2. /\ m.uids = PartsMerged(o.uids, c.uids, SigsMerged)
      /\ m.subs = PartsMerged(o.subs, c.subs, KeysigsMerged)
    BY DEF Merged
<1>3. /\ HeadIn(c.head, m.head)
      /\ \A x : Kept(x) /\ Contains(o.head, x) => Contains(m.head, x)
    BY HeadStays
<1> HIDE DEF m
<1>4. Continues(m.uids, o.uids) /\ Taken(c.uids, m.uids, AllThere)
    BY <1>1, <1>2, UidsTaken DEF Once
<1>5. Continues(m.subs, o.subs) /\ Taken(c.subs, m.subs, AllKnown)
    BY <1>1, <1>2, SubsTaken DEF Once
<1>6. Absorbed(m, c)
    BY <1>3, <1>4, <1>5 DEF Absorbed
<1>7. ASSUME NEW b \in Keyblock, Absorbed(o, b) PROVE Absorbed(m, b)
    <2>1. HeadIn(b.head, m.head)
        BY <1>3, <1>7 DEF Absorbed, HeadIn
    <2>2. Taken(b.uids, m.uids, AllThere)
        <3>1. Taken(b.uids, o.uids, AllThere)
            BY <1>7 DEF Absorbed
        <3> QED BY <1>4, <3>1, TakenStays
    <2>3. Taken(b.subs, m.subs, AllKnown)
        <3>1. Taken(b.subs, o.subs, AllKnown)
            BY <1>7 DEF Absorbed
        <3> QED BY <1>5, <3>1, TakenStays
    <2> QED BY <2>1, <2>2, <2>3 DEF Absorbed
<1> QED BY <1>6, <1>7 DEF m

LEMMA AbsorbedOwn ==
  ASSUME NEW c \in Keyblock
  PROVE  Absorbed(c, c)
<1>1. HeadIn(c.head, c.head)
    BY DEF HeadIn, Contains
<1>2. ASSUME NEW parts \in Seq(Parts)
      PROVE  Taken(parts, parts, AllThere) /\ Taken(parts, parts, AllKnown)
    <2>1. \A n \in 1 .. Len(parts) : parts[n].sigs \in Seq(Signatures)
        BY PartFields
    <2>2. \A n \in 1 .. Len(parts) : /\ <<parts[n].sigs, parts[n].sigs>> \in AllThere
                                     /\ <<parts[n].sigs, parts[n].sigs>> \in AllKnown
        BY <2>1, OwnThere
    <2> QED BY <2>2 DEF Taken
<1>3. c.uids \in Seq(Parts) /\ c.subs \in Seq(Parts)
    BY BlockFields
<1> QED BY <1>1, <1>2, <1>3 DEF Absorbed

LEMMA AbsorbedCertified ==
  ASSUME NEW o \in Keyblock, NEW c \in Cert, NEW b, Absorbed(o, b)
  PROVE  Absorbed(Certified(o, c), b)
<1>1. /\ Certified(o, c).head = <<c>> \o o.head
      /\ Certified(o, c).uids = o.uids /\ Certified(o, c).subs = o.subs
    BY DEF Certified
<1>2. o.head \in Seq(Signatures) /\ <<c>> \in Seq(Signatures)
    <2>1. c \in Signatures
        BY DEF Signatures
    <2> QED BY <2>1, BlockFields
<1> DEFINE q == <<c>>
<1> HIDE DEF q
<1>3. \A i \in 1 .. Len(o.head) :
        Len(q) + i \in 1 .. Len(q \o o.head) /\ (q \o o.head)[Len(q) + i] = o.head[i]
    <2>1. q \in Seq(Signatures)
        BY <1>2 DEF q
    <2> QED BY <1>2, <2>1, ConcatFacts
<1>4. \A x : Contains(o.head, x) => Contains(q \o o.head, x)
    BY <1>3 DEF Contains
<1>5. HeadIn(b.head, Certified(o, c).head)
    BY <1>1, <1>4 DEF Absorbed, HeadIn, q
<1> QED BY <1>1, <1>5 DEF Absorbed

\* Merging what was absorbed.
LEMMA AbsorbedAgain ==
  ASSUME NEW o \in Keyblock, NEW c \in Keyblock, Once(o), Once(c), Absorbed(o, c)
  PROVE  [Merged(o, c) EXCEPT !.head = FixedHead(@)] = [o EXCEPT !.head = FixedHead(@)]
<1> DEFINE m == Merged(o, c)
<1>1. /\ o.uids \in Seq(Parts) /\ o.subs \in Seq(Parts)
      /\ c.uids \in Seq(Parts) /\ c.subs \in Seq(Parts)
    BY BlockFields
<1>2. /\ m.uids = PartsMerged(o.uids, c.uids, SigsMerged)
      /\ m.subs = PartsMerged(o.subs, c.subs, KeysigsMerged)
      /\ m = [head |-> m.head, uids |-> m.uids, subs |-> m.subs]
    BY DEF Merged
<1>3. FixedHead(m.head) = FixedHead(o.head)
    BY HeadAgain DEF Absorbed
<1> HIDE DEF m
<1>4. m.uids = o.uids
    BY <1>1, <1>2, UidsTaken DEF Once, Absorbed
<1>5. m.subs = o.subs
    BY <1>1, <1>2, SubsTaken DEF Once, Absorbed
<1>6. o = [head |-> o.head, uids |-> o.uids, subs |-> o.subs]
    BY DEF Keyblock
<1>7. [o EXCEPT !.head = FixedHead(@)]
        = [head |-> FixedHead(o.head), uids |-> o.uids, subs |-> o.subs]
    BY <1>6
<1>8. [m EXCEPT !.head = FixedHead(@)]
        = [head |-> FixedHead(m.head), uids |-> m.uids, subs |-> m.subs]
    BY <1>2
<1> QED BY <1>3, <1>4, <1>5, <1>7, <1>8 DEF m

\* The inductive invariant: the keyring has everything of the files that
\* were not refused.
AInv ==
  \A f \in told : ~Refused(f) => ring # <<>> /\ Absorbed(ring[1], Clean(f))

LEMMA AInvNext ==
  ASSUME OnceInFiles
  PROVE  TypeOK /\ OInv /\ AInv /\ [Next]_vars => AInv'
<1> SUFFICES ASSUME TypeOK, OInv, AInv, [Next]_vars PROVE AInv'
    OBVIOUS
<1>1. ASSUME NEW b, ring' = <<b>>, NEW f \in File, told' \subseteq told \cup {f},
             ~Refused(f) => Absorbed(b, Clean(f)),
             \A g \in told : ~Refused(g) => Absorbed(b, Clean(g))
      PROVE  AInv'
    <2>1. ring' # <<>> /\ ring'[1] = b
        BY <1>1
    <2> QED BY <1>1, <2>1 DEF AInv
<1>2. ASSUME ring # <<>> PROVE ring[1] \in Keyblock /\ ring = <<ring[1]>>
    BY <1>2, OneOf DEF TypeOK
<1>3. ASSUME NEW f \in File
      PROVE  Clean(f) \in Keyblock /\ Once(Clean(f))
    BY CleanTyped, CleanOnce
<1>4. told \subseteq File
    BY DEF TypeOK
<1>5. CASE UNCHANGED vars
    BY <1>5 DEF vars, AInv
<1>6. ASSUME NEW f \in File, Refuse(f) PROVE AInv'
    BY <1>6 DEF Refuse, Leave, AInv
<1>7. ASSUME NEW f \in File, Insert(f) PROVE AInv'
    <2>1. ring' = <<Clean(f)>> /\ told' = told \cup {f} /\ ring = <<>>
        BY <1>7 DEF Insert, Write
    <2>2. Absorbed(Clean(f), Clean(f))
        BY <1>3, AbsorbedOwn
    <2>3. \A g \in told : Refused(g)
        BY <2>1 DEF AInv
    <2> QED BY <1>1, <2>1, <2>2, <2>3
<1>8. ASSUME NEW f \in File, Merge(f) PROVE AInv'
    <2>0. ring # <<>> /\ told' = told \cup {f}
        BY <1>8 DEF Merge
    <2> DEFINE o == ring[1]
               c == Clean(f)
    <2>1. o \in Keyblock /\ ring = <<o>> /\ c \in Keyblock /\ Once(c)
        BY <1>2, <1>3, <2>0
    <2>2. ring' = <<Merged(o, c)>>
        <3>1. CASE Changes(o, c)
            BY <1>8, <3>1 DEF Merge, Write
        <3>2. CASE ~Changes(o, c)
            <4>1. ring' = ring
                BY <1>8, <3>2 DEF Merge, Leave
            <4>2. Merged(o, c) = o
                BY <3>2 DEF Changes
            <4> QED BY <2>1, <4>1, <4>2
        <3> QED BY <3>1, <3>2
    <2> HIDE DEF o
    <2>3. Absorbed(Merged(o, c), c)
        BY <2>1, AbsorbedMerged
    <2>4. ASSUME NEW g \in told, ~Refused(g) PROVE Absorbed(Merged(o, c), Clean(g))
        <3>1. Absorbed(o, Clean(g))
            BY <2>4 DEF AInv, o
        <3>2. Clean(g) \in Keyblock
            BY <1>3, <1>4, <2>4
        <3> HIDE DEF c
        <3> QED BY <2>1, <3>1, <3>2, AbsorbedMerged
    <2> HIDE DEF c
    <2>5. ~Refused(f) => Absorbed(Merged(o, c), Clean(f))
        BY <2>3 DEF c
    <2> QED BY <1>1, <2>0, <2>2, <2>4, <2>5
<1>9. ASSUME NEW c \in Cert, Revoke(c) PROVE AInv'
    <2>1. ring # <<>> /\ told' = told
        BY <1>9 DEF Revoke
    <2>2. CASE ring' = ring
        BY <2>1, <2>2 DEF AInv
    <2>3. CASE ring' = <<Certified(ring[1], c)>>
        <3>1. \A g \in told : ~Refused(g) => Absorbed(Certified(ring[1], c), Clean(g))
            BY <1>2, <2>1, AbsorbedCertified DEF AInv
        <3>2. ring' # <<>> /\ ring'[1] = Certified(ring[1], c)
            BY <2>3
        <3> QED BY <2>1, <3>1, <3>2 DEF AInv
    <2>4. ring' = ring \/ ring' = <<Certified(ring[1], c)>>
        BY <1>9 DEF Revoke, Write, Leave, Certified
    <2> QED BY <2>2, <2>3, <2>4
<1>10. CASE Mark \/ Check
    BY <1>10 DEF Mark, Check, AInv
<1> QED BY <1>5, <1>6, <1>7, <1>8, <1>9, <1>10 DEF Next

(* Importing a file again changes nothing, whatever came between, but for  *)
(* direct signatures of other keys (merge_blocks with merge_sigs,          *)
(* merge_keysigs and append_uid, and fix_bad_direct_key_sigs).             *)
THEOREM ImportedForGood ==
  ASSUME OnceInFiles
  PROVE  Spec => []Idempotent
<1>1. Init => OInv /\ AInv
    <2>1. Init => DOMAIN ring = {} /\ told = {}
        BY DEF Init
    <2> QED BY <2>1 DEF OInv, AInv
<1>2. TypeOK /\ OInv /\ AInv /\ [Next]_vars => OInv' /\ AInv'
    BY OInvNext, AInvNext
<1>3. TypeOK /\ OInv /\ AInv => Idempotent
    <2> SUFFICES ASSUME TypeOK, OInv, AInv, ring # <<>>, NEW f \in told, ~Refused(f)
                 PROVE  [Merged(ring[1], Clean(f)) EXCEPT !.head = FixedHead(@)]
                          = [ring[1] EXCEPT !.head = FixedHead(@)]
        BY DEF Idempotent
    <2>1. ring[1] \in Keyblock /\ 1 \in DOMAIN ring
        BY DEF TypeOK
    <2>2. f \in File
        BY DEF TypeOK
    <2>3. Once(ring[1]) /\ Once(Clean(f)) /\ Clean(f) \in Keyblock
        BY <2>1, <2>2, CleanOnce, CleanTyped DEF OInv
    <2>4. Absorbed(ring[1], Clean(f))
        BY DEF AInv
    <2> QED BY <2>1, <2>3, <2>4, AbsorbedAgain
<1> QED BY <1>1, <1>2, <1>3, Typed, PTL DEF Spec
=============================================================================
