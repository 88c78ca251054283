------------------------------ MODULE TdbioProofs ------------------------------
(***************************************************************************)
(* Proofs about Tdbio: the types of the variables and the bound of the     *)
(* cache, and that a changed ownertrust leaves a check of the trust        *)
(* database scheduled, through every eviction, sync, failure and death.    *)
(***************************************************************************)
EXTENDS Tdbio, FiniteSetTheorems, WellFoundedInduction, TLAPS

-----------------------------------------------------------------------------
(* Induction for sets of numbers, from the least element that is not in.   *)
LEMMA Climb ==
  ASSUME NEW T \in SUBSET Nat, 0 \in T, \A n \in T : n + 1 \in T
  PROVE  Nat \subseteq T
<1> DEFINE R == {ss \in Nat \X Nat : ss[1] < ss[2]}
<1> DEFINE Out == Nat \ T
<1> SUFFICES ASSUME Out # {} PROVE FALSE
    OBVIOUS
<1>1. IsWellFoundedOn(R, Nat)
    BY NatLessThanWellFounded DEF OpToRel
<1>2. PICK x \in Out : \A y \in Out : ~(<<y, x>> \in R)
    <2>1. Out \subseteq Nat
        OBVIOUS
    <2> QED BY <1>1, <2>1, WFMin
<1>3. x \in Nat /\ x # 0 /\ x \notin T
    BY <1>2
<1>4. x - 1 \in Nat /\ x - 1 < x /\ (x - 1) + 1 = x
    BY <1>3
<1>5. x - 1 \notin T
    BY <1>3, <1>4
<1> QED BY <1>2, <1>3, <1>4, <1>5


(* Folds over the numbers of a sequence: g[s] is what the numbers in s make *)
(* of base, the largest of them last.                                       *)
LEMMA MaxOfLast ==
  ASSUME NEW n \in Nat, NEW s \in SUBSET (1 .. n + 1), n + 1 \in s
  PROVE  Max(s) = n + 1 /\ s \ {Max(s)} \subseteq 1 .. n
<1>1. n + 1 \in s /\ \A y \in s : n + 1 >= y
    OBVIOUS
<1>2. Max(s) \in s /\ \A y \in s : Max(s) >= y
    BY <1>1 DEF Max
<1>3. Max(s) >= n + 1 /\ Max(s) \in 1 .. n + 1
    BY <1>1, <1>2
<1>4. Max(s) = n + 1
    BY <1>3
<1> QED BY <1>4

LEMMA MaxIn ==
  ASSUME NEW N \in Nat, NEW s \in SUBSET (1 .. N), s # {}
  PROVE  Max(s) \in 1 .. N
<1> DEFINE T == {n \in Nat : \A r \in SUBSET (1 .. n) : r # {} => Max(r) \in 1 .. n}
<1>1. 0 \in T
    <2>1. \A r \in SUBSET (1 .. 0) : r = {}
        OBVIOUS
    <2> QED BY <2>1
<1>2. ASSUME NEW n \in T PROVE n + 1 \in T
    <2>1. ASSUME NEW r \in SUBSET (1 .. n + 1), r # {} PROVE Max(r) \in 1 .. n + 1
        <3>1. CASE n + 1 \in r
            BY <3>1, MaxOfLast
        <3>2. CASE n + 1 \notin r
            <4>1. r \in SUBSET (1 .. n)
                BY <3>2
            <4> QED BY <4>1, <2>1
        <3> QED BY <3>1, <3>2
    <2> QED BY <2>1
<1>3. N \in T
    <2> HIDE DEF T
    <2>1. T \in SUBSET Nat
        BY DEF T
    <2> QED BY <1>1, <1>2, <2>1, Climb
<1> QED BY <1>3

LEMMA LastOfAll ==
  ASSUME NEW n \in Nat
  PROVE  1 .. n + 1 # {} /\ Max(1 .. n + 1) = n + 1 /\ (1 .. n + 1) \ {n + 1} = 1 .. n
<1> DEFINE s == 1 .. n + 1
<1>1. s \in SUBSET (1 .. n + 1) /\ n + 1 \in s /\ s \ {n + 1} = 1 .. n
    OBVIOUS
<1> HIDE DEF s
<1>2. s # {} /\ Max(s) = n + 1
    BY <1>1, MaxOfLast
<1> QED BY <1>1, <1>2 DEF s

Folded(N, base, F, h) ==
  \A s \in SUBSET (1 .. N) :
    h[s] = IF s = {} THEN base ELSE F[<<h[s \ {Max(s)}], Max(s)>>]

LEMMA FoldedExists ==
  ASSUME NEW X, NEW N \in Nat, NEW base \in X, NEW F \in [X \X (1 .. N) -> X]
  PROVE  \E h \in [SUBSET (1 .. N) -> X] : Folded(N, base, F, h)
<1> DEFINE D == SUBSET (1 .. N)
           rest(s) == s \ {Max(s)}
           Made(g, s) == IF s = {} THEN base ELSE F[<<g[rest(s)], Max(s)>>]
           Upto(g, n) == \A s \in D : s \subseteq 1 .. n => g[s] = Made(g, s)
           T == {n \in Nat : n <= N => \E g \in [D -> X] : Upto(g, n)}
<1>1. 0 \in T
    <2> DEFINE g == [s \in D |-> base]
    <2>1. \A s \in D : s \subseteq 1 .. 0 => s = {}
        OBVIOUS
    <2>2. g \in [D -> X]
        OBVIOUS
    <2>3. \A s \in D : g[s] = base
        OBVIOUS
    <2> HIDE DEF g, D
    <2>4. Upto(g, 0)
        BY <2>1, <2>3
    <2> HIDE DEF Upto
    <2> QED BY <2>2, <2>4
<1>2. ASSUME NEW n \in T PROVE n + 1 \in T
    <2>0. n \in Nat
        OBVIOUS
    <2> SUFFICES ASSUME n + 1 <= N PROVE \E g \in [D -> X] : Upto(g, n + 1)
        <3> HIDE DEF Upto, D
        <3> QED BY <2>0
    <2>1. PICK g \in [D -> X] : Upto(g, n)
        <3> HIDE DEF Upto, D
        <3> QED BY <2>0
    <2> DEFINE h == [s \in D |-> IF s \subseteq 1 .. n \/ ~(s \subseteq 1 .. n + 1)
                                   THEN g[s] ELSE Made(g, s)]
    <2>2. ASSUME NEW s \in D, s \subseteq 1 .. n + 1, ~(s \subseteq 1 .. n)
          PROVE  /\ Max(s) = n + 1 /\ rest(s) \subseteq 1 .. n /\ rest(s) \in D
        <3>1. n + 1 \in s
            BY <2>0, <2>2
        <3> HIDE DEF D
        <3>2. s \in SUBSET (1 .. n + 1)
            BY <2>2
        <3>3. Max(s) = n + 1 /\ s \ {Max(s)} \subseteq 1 .. n
            BY <2>0, <3>1, <3>2, MaxOfLast
        <3> QED BY <3>3 DEF D
    <2>3. ASSUME NEW s \in D, s \subseteq 1 .. n + 1, ~(s \subseteq 1 .. n)
          PROVE  Made(g, s) \in X
        <3>1. n + 1 \in 1 .. N
            BY <2>0
        <3>2. g[rest(s)] \in X
            <4> HIDE DEF D, rest
            <4> QED BY <2>1, <2>2, <2>3
        <3>3. F[<<g[rest(s)], n + 1>>] \in X
            <4> HIDE DEF rest
            <4> QED BY <3>1, <3>2
        <3>4. Max(s) = n + 1
            <4> HIDE DEF D, rest
            <4> QED BY <2>2, <2>3
        <3> HIDE DEF rest
        <3> QED BY <3>3, <3>4
    <2>4. h \in [D -> X]
        <3> HIDE DEF D, Made
        <3> QED BY <2>1, <2>3
    <2>5. \A s \in D : h[s] = IF s \subseteq 1 .. n \/ ~(s \subseteq 1 .. n + 1)
                                THEN g[s] ELSE Made(g, s)
        <3> HIDE DEF D, Made
        <3> QED OBVIOUS
    <2> HIDE DEF h
    <2>6. ASSUME NEW s \in D, s \subseteq 1 .. n + 1 PROVE h[s] = Made(h, s)
        <3>1. s # {} => rest(s) \in D /\ rest(s) \subseteq 1 .. n
            <4>1. CASE ~(s \subseteq 1 .. n)
                <5> HIDE DEF D, rest
                <5> QED BY <4>1, <2>2, <2>6
            <4>2. CASE s \subseteq 1 .. n
                BY <4>2
            <4> QED BY <4>1, <4>2
        <3> HIDE DEF D, rest
        <3>2. s # {} => h[rest(s)] = g[rest(s)]
            BY <3>1, <2>5
        <3>3. Made(h, s) = Made(g, s)
            BY <3>2
        <3> HIDE DEF Made
        <3>4. s \subseteq 1 .. n => g[s] = Made(g, s)
            BY <2>1
        <3> QED BY <3>3, <3>4, <2>5, <2>6
    <2>7. Upto(h, n + 1)
        <3> HIDE DEF Made
        <3> QED BY <2>6
    <2> HIDE DEF Upto, D
    <2> QED BY <2>4, <2>7
<1>3. N \in T
    <2> HIDE DEF T
    <2>1. T \in SUBSET Nat
        BY DEF T
    <2> QED BY <1>1, <1>2, <2>1, Climb
<1>4. PICK g \in [D -> X] : Upto(g, N)
    <2> HIDE DEF Upto, D
    <2> QED BY <1>3
<1>5. \A s \in D : g[s] = Made(g, s)
    <2> HIDE DEF Made
    <2> QED BY <1>4
<1>6. Folded(N, base, F, g)
    BY <1>5 DEF Folded
<1> QED BY <1>4, <1>6

LEMMA StaysIn ==
  ASSUME NEW N \in Nat, NEW g, NEW G, g[1 .. 0] \in G[0],
         \A n \in Nat : n + 1 <= N /\ g[1 .. n] \in G[n] => g[1 .. n + 1] \in G[n + 1]
  PROVE  g[1 .. N] \in G[N]
<1> DEFINE T == {n \in Nat : n <= N => g[1 .. n] \in G[n]}
<1>1. 0 \in T
    OBVIOUS
<1>2. \A n \in T : n + 1 \in T
    OBVIOUS
<1>3. N \in T
    <2> HIDE DEF T
    <2>1. T \in SUBSET Nat
        BY DEF T
    <2> QED BY <1>1, <1>2, <2>1, Climb
<1> QED BY <1>3

LEMMA StaysInSet ==
  ASSUME NEW N \in Nat, NEW g, NEW G, g[1 .. 0] \in G,
         \A n \in Nat : n + 1 <= N /\ g[1 .. n] \in G => g[1 .. n + 1] \in G
  PROVE  g[1 .. N] \in G
<1> DEFINE H == [n \in Nat |-> G]
<1>1. \A n \in Nat : H[n] = G
    OBVIOUS
<1> HIDE DEF H
<1>2. /\ g[1 .. 0] \in H[0]
      /\ \A n \in Nat : n + 1 <= N /\ g[1 .. n] \in H[n] => g[1 .. n + 1] \in H[n + 1]
    BY <1>1
<1>3. g[1 .. N] \in H[N]
    BY <1>2, StaysIn
<1> QED BY <1>1, <1>3

(* The first element of a set, and the first of some kind in a sequence.   *)
LEMMA LeastExists ==
  ASSUME NEW S \in SUBSET Nat, S # {}
  PROVE  \E x \in S : \A y \in S : x <= y
<1> DEFINE R == {ss \in Nat \X Nat : ss[1] < ss[2]}
<1>1. IsWellFoundedOn(R, Nat)
    BY NatLessThanWellFounded DEF OpToRel
<1>2. PICK x \in S : \A y \in S : ~(<<y, x>> \in R)
    BY <1>1, WFMin
<1>3. ASSUME NEW y \in S PROVE x <= y
    <2>1. x \in Nat /\ y \in Nat /\ ~(<<y, x>> \in R)
        BY <1>2
    <2>2. <<y, x>> \in R <=> y < x
        BY <2>1
    <2> QED BY <2>1, <2>2
<1> QED BY <1>3

LEMMA MinFacts ==
  ASSUME NEW S \in SUBSET Nat, S # {}
  PROVE  Min(S) \in S /\ \A y \in S : Min(S) <= y
<1>1. \E x \in S : \A y \in S : x <= y
    BY LeastExists
<1> QED BY <1>1 DEF Min

-----------------------------------------------------------------------------
(* What the variables hold.                                                *)
VerRecords == [type : {"ver"}, tbl : Nat, next : Nat]
HtblRecords == [type : {"htbl"}, item : [0 .. PerHtbl - 1 -> Nat]]
HlstRecords == [type : {"hlst"}, rnum : [1 .. PerHlst -> Nat], next : Nat]
TrustRecords == [type : {"trust"}, fpr : Fpr, ot : Nat, valid : Nat]
ValidRecords == [type : {"valid"}, value : Nat]

Entries == [used : BOOLEAN, dirty : BOOLEAN, no : Nat, rec : Records]
Acts == [call : {"lock", "unlock"}] \cup [call : {"put"}, no : Nat, rec : Records]
Caches == {c \in Seq(Entries) : Len(c) <= CacheSoft}
Memories == [c : Caches, f : Seq(Records), t : Seq(Acts), tbl : Nat,
             locked : BOOLEAN, ok : BOOLEAN]

LEMMA Sizes ==
  /\ Slots \in Nat /\ Slots > 0 /\ PerHtbl \in Nat /\ PerHtbl > 0
  /\ CacheSoft \in Nat /\ CacheSoft > 0 /\ PerHlst \in Nat /\ PerHlst > 1
BY SizeAssumption, ListAssumption

LEMMA Kinds ==
  ASSUME NEW r \in Records
  PROVE  /\ r.type = "ver" => r \in VerRecords
         /\ r.type = "htbl" => r \in HtblRecords
         /\ r.type = "hlst" => r \in HlstRecords
         /\ r.type = "trust" => r \in TrustRecords
         /\ r.type = "valid" => r \in ValidRecords
<1>1. CASE r = Blank
    BY <1>1 DEF Blank
<1>2. CASE r \in VerRecords
    BY <1>2 DEF VerRecords
<1>3. CASE r \in HtblRecords
    BY <1>3 DEF HtblRecords
<1>4. CASE r \in HlstRecords
    BY <1>4 DEF HlstRecords
<1>5. CASE r \in TrustRecords
    BY <1>5 DEF TrustRecords
<1>6. CASE r \in ValidRecords
    BY <1>6 DEF ValidRecords
<1> QED BY <1>1, <1>2, <1>3, <1>4, <1>5, <1>6
       DEF Records, VerRecords, HtblRecords, HlstRecords, TrustRecords, ValidRecords

LEMMA MadeRecords ==
  /\ Blank \in Records
  /\ \A tbl, next \in Nat : Ver(tbl, next) \in VerRecords
  /\ \A item \in [0 .. PerHtbl - 1 -> Nat] : Htbl(item) \in HtblRecords
  /\ \A rnum \in [1 .. PerHlst -> Nat], next \in Nat : Hlst(rnum, next) \in HlstRecords
  /\ \A k \in Fpr, ot, valid \in Nat : Trust(k, ot, valid) \in TrustRecords
  /\ \A value \in Nat : Valid(value) \in ValidRecords
BY DEF Records, Ver, Htbl, Hlst, Trust, Valid,
       VerRecords, HtblRecords, HlstRecords, TrustRecords, ValidRecords

LEMMA KindsAreRecords ==
  /\ VerRecords \subseteq Records /\ HtblRecords \subseteq Records
  /\ HlstRecords \subseteq Records /\ TrustRecords \subseteq Records
  /\ ValidRecords \subseteq Records
BY DEF Records, VerRecords, HtblRecords, HlstRecords, TrustRecords, ValidRecords

LEMMA InFacts ==
  ASSUME NEW c \in Seq(Entries), NEW n
  PROVE  \/ /\ In(c, n) \in 1 .. Len(c) /\ In(c, n) # 0
            /\ c[In(c, n)].used /\ c[In(c, n)].no = n
         \/ /\ In(c, n) = 0
            /\ \A i \in 1 .. Len(c) : ~(c[i].used /\ c[i].no = n)
<1> DEFINE I == {i \in 1 .. Len(c) : c[i].used /\ c[i].no = n}
<1>1. In(c, n) = IF I # {} THEN Min(I) ELSE 0
    BY DEF In, SelectInSeq
<1>2. I \in SUBSET Nat
    OBVIOUS
<1>3. I # {} => Min(I) \in I
    <2> HIDE DEF I
    <2> QED BY <1>2, MinFacts
<1> QED BY <1>1, <1>3

LEMMA FreeFacts ==
  ASSUME NEW c \in Seq(Entries)
  PROVE  \/ Free(c) \in 1 .. Len(c) /\ Free(c) # 0 /\ ~c[Free(c)].used
         \/ Free(c) = 0 /\ \A i \in 1 .. Len(c) : c[i].used
<1> DEFINE I == {i \in 1 .. Len(c) : ~c[i].used}
<1>1. Free(c) = IF I # {} THEN Min(I) ELSE 0
    BY DEF Free, SelectInSeq
<1>2. I \in SUBSET Nat
    OBVIOUS
<1>3. I # {} => Min(I) \in I
    <2> HIDE DEF I
    <2> QED BY <1>2, MinFacts
<1> QED BY <1>1, <1>3

LEMMA MemoryFields ==
  ASSUME NEW m \in Memories
  PROVE  /\ m.c \in Caches /\ m.c \in Seq(Entries) /\ Len(m.c) \in Nat
         /\ m.f \in Seq(Records) /\ Len(m.f) \in Nat
         /\ m.t \in Seq(Acts) /\ Len(m.t) \in Nat
         /\ m.tbl \in Nat /\ m.locked \in BOOLEAN /\ m.ok \in BOOLEAN
BY DEF Memories, Caches

LEMMA ReadTypes ==
  ASSUME NEW m \in Memories, NEW n \in Nat
  PROVE  Read(m, n) \in Records \cup {Absent}
<1>1. m.c \in Seq(Entries) /\ m.f \in Seq(Records)
    BY MemoryFields
<1>2. CASE In(m.c, n) # 0
    <2>1. In(m.c, n) \in 1 .. Len(m.c)
        BY <1>1, <1>2, InFacts
    <2>2. m.c[In(m.c, n)] \in Entries
        BY <1>1, <2>1
    <2> QED BY <1>2, <2>2 DEF Read, Entries
<1>3. CASE In(m.c, n) = 0
    BY <1>1, <1>3 DEF Read
<1> QED BY <1>2, <1>3

LEMMA IsKind ==
  ASSUME NEW m \in Memories, NEW n \in Nat
  PROVE  /\ Is(Read(m, n), "ver") => Read(m, n) \in VerRecords
         /\ Is(Read(m, n), "htbl") => Read(m, n) \in HtblRecords
         /\ Is(Read(m, n), "hlst") => Read(m, n) \in HlstRecords
         /\ Is(Read(m, n), "trust") => Read(m, n) \in TrustRecords
         /\ Is(Read(m, n), "valid") => Read(m, n) \in ValidRecords
<1>1. Read(m, n) \in Records \cup {Absent}
    BY ReadTypes
<1> QED BY <1>1, Kinds DEF Is

-----------------------------------------------------------------------------
(* Writing: the file, the entries of the cache, the write-backs.           *)
LEMMA ReachingFacts ==
  ASSUME NEW f \in Seq(Records), NEW n \in Nat
  PROVE  /\ Reaching(f, n) \in Seq(Records)
         /\ n < Len(Reaching(f, n)) /\ Len(f) <= Len(Reaching(f, n))
         /\ \A j \in 1 .. Len(f) : Reaching(f, n)[j] = f[j]
         /\ \A j \in 1 .. Len(Reaching(f, n)) : j > Len(f) => Reaching(f, n)[j] = Blank
<1>1. CASE n < Len(f)
    BY <1>1 DEF Reaching
<1>2. CASE ~(n < Len(f))
    <2> DEFINE gap == [i \in 1 .. n + 1 - Len(f) |-> Blank]
    <2>1. n + 1 - Len(f) \in Nat
        BY <1>2
    <2>2. gap \in Seq(Records) /\ Len(gap) = n + 1 - Len(f)
        BY <2>1, MadeRecords
    <2>3. \A i \in 1 .. Len(gap) : gap[i] = Blank
        BY <2>2
    <2> HIDE DEF gap
    <2>4. Reaching(f, n) = f \o gap
        BY <1>2 DEF Reaching, gap
    <2>5. Len(f \o gap) = n + 1
        BY <2>2
    <2>6. \A j \in 1 .. n + 1 : (f \o gap)[j] = IF j <= Len(f) THEN f[j] ELSE gap[j - Len(f)]
        BY <2>2, <2>5
    <2> QED BY <1>2, <2>2, <2>3, <2>4, <2>5, <2>6
<1> QED BY <1>1, <1>2

LEMMA WrittenFacts ==
  ASSUME NEW f \in Seq(Records), NEW n \in Nat, NEW r \in Records
  PROVE  /\ Written(f, n, r) \in Seq(Records)
         /\ n < Len(Written(f, n, r)) /\ Len(f) <= Len(Written(f, n, r))
         /\ Written(f, n, r)[n + 1] = r
         /\ \A j \in Nat : j < Len(f) /\ j # n => Written(f, n, r)[j + 1] = f[j + 1]
         /\ f = <<>> /\ n # 0 => Written(f, n, r)[1] = Blank
<1> DEFINE g == Reaching(f, n)
<1>1. /\ g \in Seq(Records) /\ n < Len(g) /\ Len(f) <= Len(g)
      /\ \A j \in 1 .. Len(f) : g[j] = f[j]
      /\ \A j \in 1 .. Len(g) : j > Len(f) => g[j] = Blank
    BY ReachingFacts
<1> HIDE DEF g
<1>2. Written(f, n, r) = [g EXCEPT ![n + 1] = r]
    BY DEF Written, g
<1>3. n + 1 \in 1 .. Len(g)
    BY <1>1
<1>4. [g EXCEPT ![n + 1] = r] \in Seq(Records) /\ Len([g EXCEPT ![n + 1] = r]) = Len(g)
    BY <1>1, <1>3
<1>5. \A j \in 1 .. Len(g) : [g EXCEPT ![n + 1] = r][j] = IF j = n + 1 THEN r ELSE g[j]
    BY <1>1, <1>3
<1>6. \A j \in Nat : j < Len(f) /\ j # n => Written(f, n, r)[j + 1] = f[j + 1]
    BY <1>1, <1>2, <1>5
<1>7. f = <<>> /\ n # 0 => Written(f, n, r)[1] = Blank
    <2> SUFFICES ASSUME f = <<>>, n # 0 PROVE Written(f, n, r)[1] = Blank
        OBVIOUS
    <2>1. Len(f) = 0 /\ 1 \in 1 .. Len(g) /\ 1 # n + 1
        BY <1>3
    <2> QED BY <1>1, <1>2, <1>5, <2>1
<1> QED BY <1>1, <1>2, <1>3, <1>4, <1>5, <1>6, <1>7

(* take_write_lock, the writes, release_write_lock.                        *)
Locked(m) == IF m.locked THEN m ELSE [m EXCEPT !.t = Append(@, Lock)]
Saving(m, S, w, i) == IF i \in S THEN Saved(w, m.c[i]) ELSE w
Unlocking(w, release) ==
  [w EXCEPT !.t = IF release THEN Append(@, Unlock) ELSE @, !.locked = ~release]
SavingRun(m, S, g) ==
  g = [s \in SUBSET DOMAIN [i \in DOMAIN m.c |-> i] |->
         IF s = {} THEN Locked(m)
         ELSE Saving(m, S, g[s \ {Max(s)}], [i \in DOMAIN m.c |-> i][Max(s)])]

LEMMA ActTypes ==
  /\ Lock \in Acts /\ Unlock \in Acts
  /\ \A n \in Nat, r \in Records : [call |-> "put", no |-> n, rec |-> r] \in Acts
BY DEF Lock, Unlock, Acts

LEMMA SavedTypes ==
  ASSUME NEW m \in Memories, NEW e \in Entries
  PROVE  /\ Saved(m, e) \in Memories
         /\ Saved(m, e).c = m.c /\ Saved(m, e).tbl = m.tbl
         /\ Saved(m, e).ok = m.ok /\ Saved(m, e).locked = m.locked
         /\ Saved(m, e).f = Written(m.f, e.no, e.rec)
         /\ Saved(m, e).t = Append(m.t, [call |-> "put", no |-> e.no, rec |-> e.rec])
<1> DEFINE act == [call |-> "put", no |-> e.no, rec |-> e.rec]
           f == Written(m.f, e.no, e.rec)
<1>1. e.no \in Nat /\ e.rec \in Records
    BY DEF Entries
<1>2. act \in Acts
    BY <1>1, ActTypes
<1>3. f \in Seq(Records)
    BY <1>1, MemoryFields, WrittenFacts
<1>4. Append(m.t, act) \in Seq(Acts)
    BY <1>2, MemoryFields
<1>5. Saved(m, e) = [m EXCEPT !.f = f, !.t = Append(m.t, act)]
    BY DEF Saved, Memories
<1> HIDE DEF act, f
<1>6. [m EXCEPT !.f = f, !.t = Append(m.t, act)] \in Memories
    BY <1>3, <1>4 DEF Memories
<1>7. LET w == [m EXCEPT !.f = f, !.t = Append(m.t, act)]
      IN  /\ w.c = m.c /\ w.tbl = m.tbl /\ w.ok = m.ok /\ w.locked = m.locked
          /\ w.f = f /\ w.t = Append(m.t, act)
    BY DEF Memories
<1> QED BY <1>5, <1>6, <1>7 DEF act, f

LEMMA LockedTypes ==
  ASSUME NEW m \in Memories
  PROVE  Locked(m) \in Memories
<1>1. Append(m.t, Lock) \in Seq(Acts)
    BY MemoryFields, ActTypes
<1> QED BY <1>1 DEF Locked, Memories

SavingSteps(m, S, release, g) ==
  /\ WriteBack(m, S, release) = Unlocking(g[1 .. Len(m.c)], release)
  /\ g[1 .. 0] = Locked(m)
  /\ \A n \in Nat : n + 1 <= Len(m.c) =>
       g[1 .. n + 1] = Saving(m, S, g[1 .. n], n + 1)

LEMMA WriteBackRuns ==
  ASSUME NEW m \in Memories, NEW S, NEW release
  PROVE  \E g : SavingSteps(m, S, release, g)
<1> DEFINE N == Len(m.c)
           base == Locked(m)
           F == [p \in Memories \X (1 .. N) |-> Saving(m, S, p[1], p[2])]
           ids == [i \in DOMAIN m.c |-> i]
<1>1. N \in Nat /\ DOMAIN m.c = 1 .. N /\ \A i \in 1 .. N : m.c[i] \in Entries
    BY MemoryFields
<1>2. DOMAIN ids = 1 .. N /\ \A i \in 1 .. N : ids[i] = i
    BY <1>1
<1>3. \A w \in Memories, i \in 1 .. N : Saving(m, S, w, i) \in Memories
    BY <1>1, SavedTypes DEF Saving
<1>4. F \in [Memories \X (1 .. N) -> Memories]
    <2> HIDE DEF N
    <2> QED BY <1>3
<1>5. \A w \in Memories, i \in 1 .. N : F[<<w, i>>] = Saving(m, S, w, i)
    OBVIOUS
<1>6. base \in Memories
    BY LockedTypes
<1> HIDE DEF base
<1>7. PICK h \in [SUBSET (1 .. N) -> Memories] : Folded(N, base, F, h)
    <2> HIDE DEF N, F
    <2> QED BY <1>1, <1>4, <1>6, FoldedExists
<1>8. ASSUME NEW s \in SUBSET (1 .. N), s # {}
      PROVE  Max(s) \in 1 .. N /\ s \ {Max(s)} \in SUBSET (1 .. N)
    BY <1>1, <1>8, MaxIn
<1> HIDE DEF N, F
<1>9. \A s \in SUBSET (1 .. N) :
        h[s] = IF s = {} THEN base ELSE Saving(m, S, h[s \ {Max(s)}], ids[Max(s)])
    <2> HIDE DEF ids
    <2> SUFFICES ASSUME NEW s \in SUBSET (1 .. N), s # {}
                 PROVE  h[s] = Saving(m, S, h[s \ {Max(s)}], ids[Max(s)])
        BY <1>7 DEF Folded
    <2>1. h[s] = F[<<h[s \ {Max(s)}], Max(s)>>]
        BY <1>7 DEF Folded
    <2>2. h[s \ {Max(s)}] \in Memories /\ Max(s) \in 1 .. N
        BY <1>7, <1>8
    <2>3. ids[Max(s)] = Max(s)
        BY <1>2, <2>2
    <2> QED BY <1>5, <2>1, <2>2, <2>3
<1>10. \E g : SavingRun(m, S, g)
    <2>1. h = [s \in SUBSET DOMAIN ids |->
                 IF s = {} THEN base
                 ELSE Saving(m, S, h[s \ {Max(s)}], ids[Max(s)])]
        <3> HIDE DEF ids
        <3> QED BY <1>2, <1>7, <1>9
    <2>2. SavingRun(m, S, h)
        BY <2>1 DEF SavingRun, base
    <2> QED BY <2>2
<1> DEFINE g == CHOOSE g : SavingRun(m, S, g)
<1>11. SavingRun(m, S, g)
    BY <1>10
<1>12. WriteBack(m, S, release) = Unlocking(g[DOMAIN ids], release)
    BY DEF WriteBack, FoldLeftDomain, FoldLeft, MapThenFoldSet, SavingRun, Saving,
           Locked, Unlocking
<1> HIDE DEF g
<1>13. \A s \in SUBSET (1 .. N) :
        g[s] = IF s = {} THEN base ELSE Saving(m, S, g[s \ {Max(s)}], ids[Max(s)])
    <2>1. g = [s \in SUBSET DOMAIN ids |->
                 IF s = {} THEN base
                 ELSE Saving(m, S, g[s \ {Max(s)}], ids[Max(s)])]
        BY <1>11 DEF SavingRun, base
    <2> HIDE DEF ids
    <2> QED BY <1>2, <2>1
<1> HIDE DEF ids
<1>14. g[1 .. 0] = base
    <2>1. 1 .. 0 = {} /\ {} \in SUBSET (1 .. N)
        OBVIOUS
    <2> QED BY <1>13, <2>1
<1>15. ASSUME NEW n \in Nat, n + 1 <= N
       PROVE  g[1 .. n + 1] = Saving(m, S, g[1 .. n], n + 1)
    <2>1. 1 .. n + 1 \in SUBSET (1 .. N) /\ n + 1 \in 1 .. N
        BY <1>1, <1>15
    <2>2. 1 .. n + 1 # {} /\ Max(1 .. n + 1) = n + 1 /\ (1 .. n + 1) \ {n + 1} = 1 .. n
        BY LastOfAll
    <2> QED BY <1>2, <1>13, <2>1, <2>2
<1>16. SavingSteps(m, S, release, g)
    BY <1>2, <1>12, <1>14, <1>15 DEF N, base, SavingSteps
<1> QED BY <1>16

(* What no write and no lock or unlock changes, a write-back keeps.        *)
LEMMA WriteBackStays ==
  ASSUME NEW G \in SUBSET Memories, NEW m \in G, NEW S, NEW release \in BOOLEAN,
         \A w \in G : \A i \in S \cap DOMAIN m.c : Saved(w, m.c[i]) \in G,
         \A w \in G : \A a \in {Lock, Unlock} : [w EXCEPT !.t = Append(w.t, a)] \in G,
         \A w \in G : \A l \in BOOLEAN : [w EXCEPT !.locked = l] \in G
  PROVE  WriteBack(m, S, release) \in G
<1>1. PICK g : SavingSteps(m, S, release, g)
    BY WriteBackRuns
<1>2. Len(m.c) \in Nat /\ DOMAIN m.c = 1 .. Len(m.c)
    BY MemoryFields
<1>3. g[1 .. 0] \in G
    BY <1>1 DEF SavingSteps, Locked
<1>4. ASSUME NEW n \in Nat, n + 1 <= Len(m.c), g[1 .. n] \in G
      PROVE  g[1 .. n + 1] \in G
    <2>1. n + 1 \in DOMAIN m.c
        BY <1>2, <1>4
    <2>2. g[1 .. n + 1] = Saving(m, S, g[1 .. n], n + 1)
        BY <1>1, <1>4 DEF SavingSteps
    <2> QED BY <1>4, <2>1, <2>2 DEF Saving
<1>5. g[1 .. Len(m.c)] \in G
    BY <1>2, <1>3, <1>4, StaysInSet
<1> DEFINE w == g[1 .. Len(m.c)]
<1>6. WriteBack(m, S, release) = Unlocking(w, release)
    BY <1>1 DEF SavingSteps
<1>7. Unlocking(w, release) \in G
    <2> DEFINE v == IF release THEN [w EXCEPT !.t = Append(w.t, Unlock)] ELSE w
    <2>1. w \in G
        BY <1>5
    <2> HIDE DEF w
    <2>2. v \in G
        BY <2>1
    <2>3. Unlocking(w, release) = [v EXCEPT !.locked = ~release]
        <3>1. w \in Memories
            BY <2>1
        <3> QED BY <3>1 DEF Unlocking, Memories
    <2> HIDE DEF v
    <2>4. \A l \in BOOLEAN : [v EXCEPT !.locked = l] \in G
        BY <2>2
    <2>5. CASE release
        <3>1. [v EXCEPT !.locked = ~release] = [v EXCEPT !.locked = FALSE]
            BY <2>5
        <3> QED BY <2>3, <2>4, <3>1
    <2>6. CASE ~release
        <3>1. [v EXCEPT !.locked = ~release] = [v EXCEPT !.locked = TRUE]
            BY <2>6
        <3> QED BY <2>3, <2>4, <3>1
    <2> QED BY <2>5, <2>6
<1> QED BY <1>6, <1>7

LEMMA WriteBackTypes ==
  ASSUME NEW m \in Memories, NEW S, NEW release \in BOOLEAN
  PROVE  LET w == WriteBack(m, S, release)
         IN  /\ w \in Memories /\ w.c = m.c /\ w.tbl = m.tbl /\ w.ok = m.ok
             /\ Len(m.f) <= Len(w.f)
<1> DEFINE G == {w \in Memories : /\ w.c = m.c /\ w.tbl = m.tbl /\ w.ok = m.ok
                                  /\ Len(m.f) <= Len(w.f)}
<1>1. G \in SUBSET Memories /\ m \in G
    BY MemoryFields
<1>2. ASSUME NEW w \in G, NEW i \in S \cap DOMAIN m.c PROVE Saved(w, m.c[i]) \in G
    <2>1. w \in Memories /\ m.c[i] \in Entries
        BY MemoryFields
    <2>2. Saved(w, m.c[i]) \in Memories
        BY <2>1, SavedTypes
    <2>3. Saved(w, m.c[i]).f = Written(w.f, m.c[i].no, m.c[i].rec)
        BY <2>1, SavedTypes
    <2>4. Len(w.f) <= Len(Saved(w, m.c[i]).f)
        <3>1. w.f \in Seq(Records) /\ m.c[i].no \in Nat /\ m.c[i].rec \in Records
            BY <2>1, MemoryFields DEF Entries
        <3>2. Len(w.f) <= Len(Written(w.f, m.c[i].no, m.c[i].rec))
            BY <3>1, WrittenFacts
        <3> QED BY <2>3, <3>2
    <2>5. Len(m.f) <= Len(Saved(w, m.c[i]).f)
        BY <2>1, <2>2, <2>4, MemoryFields
    <2> QED BY <2>1, <2>2, <2>5, SavedTypes
<1>3. ASSUME NEW w \in G, NEW a \in {Lock, Unlock}
      PROVE  [w EXCEPT !.t = Append(w.t, a)] \in G
    <2>1. Append(w.t, a) \in Seq(Acts)
        BY MemoryFields, ActTypes
    <2> QED BY <2>1 DEF Memories
<1>4. ASSUME NEW w \in G, NEW l \in BOOLEAN PROVE [w EXCEPT !.locked = l] \in G
    BY DEF Memories
<1>5. WriteBack(m, S, release) \in G
    <2> HIDE DEF G
    <2> QED BY <1>1, <1>2, <1>3, <1>4, WriteBackStays
<1> QED BY <1>5

-----------------------------------------------------------------------------
(* The cache: entries stored, dropped and made clean.                      *)
LEMMA FailedTypes ==
  ASSUME NEW m \in Memories
  PROVE  /\ Failed(m) \in Memories /\ ~Failed(m).ok
         /\ Failed(m).c = m.c /\ Failed(m).f = m.f /\ Failed(m).t = m.t
         /\ Failed(m).tbl = m.tbl
BY DEF Failed, Memories

LEMMA FirstOfFacts ==
  ASSUME NEW N \in Nat, NEW S \in SUBSET (1 .. N), S # {}, NEW n \in Nat, n >= 1
  PROVE  FirstOf(S, n) \subseteq S /\ FirstOf(S, n) # {}
<1>1. S \in SUBSET Nat
    OBVIOUS
<1>2. Min(S) \in S /\ \A y \in S : Min(S) <= y
    BY <1>1, MinFacts
<1>3. {j \in S : j <= Min(S)} = {Min(S)}
    <2> DEFINE k == Min(S)
    <2>1. k \in S /\ \A y \in S : k <= y /\ y \in Nat
        BY <1>1, <1>2
    <2> HIDE DEF k
    <2>2. \A j \in S : j <= k <=> j = k
        BY <2>1
    <2>3. {j \in S : j <= k} = {k}
        BY <2>1, <2>2
    <2> QED BY <2>3 DEF k
<1>4. Cardinality({j \in S : j <= Min(S)}) = 1
    BY <1>3, FS_Singleton
<1>5. Min(S) \in FirstOf(S, n)
    BY <1>2, <1>4 DEF FirstOf
<1> QED BY <1>5 DEF FirstOf

LEMMA AtLeast ==
  ASSUME NEW N \in Nat, NEW S \in SUBSET (1 .. N), NEW d \in Nat, d > 0
  PROVE  AtLeastOne(Cardinality(S) \div d) \in Nat /\ AtLeastOne(Cardinality(S) \div d) >= 1
<1>1. IsFiniteSet(1 .. N)
    BY FS_Interval
<1>2. IsFiniteSet(S)
    BY <1>1, FS_Subset
<1>3. Cardinality(S) \in Nat
    BY <1>2, FS_CardinalityType
<1> DEFINE c == Cardinality(S)
<1> HIDE DEF c
<1>4. c \in Nat
    BY <1>3 DEF c
<1>5. c \div d \in Nat
    BY <1>4
<1>6. AtLeastOne(c \div d) \in Nat /\ AtLeastOne(c \div d) >= 1
    BY <1>5 DEF AtLeastOne
<1> QED BY <1>6 DEF c

LEMMA OldFacts ==
  ASSUME NEW c \in Seq(Entries)
  PROVE  /\ OldClean(c) \subseteq CleanIn(c) /\ (CleanIn(c) # {} => OldClean(c) # {})
         /\ OldDirty(c) \subseteq DirtyIn(c) /\ (DirtyIn(c) # {} => OldDirty(c) # {})
<1>1. Len(c) \in Nat /\ CleanIn(c) \in SUBSET (1 .. Len(c)) /\ DirtyIn(c) \in SUBSET (1 .. Len(c))
    BY DEF CleanIn, DirtyIn
<1>2. OldClean(c) \subseteq CleanIn(c) /\ OldDirty(c) \subseteq DirtyIn(c)
    BY DEF OldClean, OldDirty, FirstOf
<1>3. CleanIn(c) # {} => OldClean(c) # {}
    <2> DEFINE n == AtLeastOne(Cardinality(CleanIn(c)) \div 3)
    <2>1. n \in Nat /\ n >= 1
        <3> DEFINE N == Len(c)
                   s == CleanIn(c)
        <3>1. N \in Nat /\ s \in SUBSET (1 .. N) /\ 3 \in Nat /\ 3 > 0
            BY <1>1
        <3> HIDE DEF s, N
        <3>2. /\ AtLeastOne(Cardinality(s) \div 3) \in Nat
              /\ AtLeastOne(Cardinality(s) \div 3) >= 1
            BY <3>1, AtLeast
        <3> QED BY <3>2 DEF s
    <2> HIDE DEF n
    <2>2. CleanIn(c) # {} => FirstOf(CleanIn(c), n) # {}
        BY <1>1, <2>1, FirstOfFacts
    <2> QED BY <2>2 DEF OldClean, n
<1>4. DirtyIn(c) # {} => OldDirty(c) # {}
    <2> DEFINE n == AtLeastOne(Cardinality(DirtyIn(c)) \div 5)
    <2>1. n \in Nat /\ n >= 1
        <3> DEFINE N == Len(c)
                   s == DirtyIn(c)
        <3>1. N \in Nat /\ s \in SUBSET (1 .. N) /\ 5 \in Nat /\ 5 > 0
            BY <1>1
        <3> HIDE DEF s, N
        <3>2. /\ AtLeastOne(Cardinality(s) \div 5) \in Nat
              /\ AtLeastOne(Cardinality(s) \div 5) >= 1
            BY <3>1, AtLeast
        <3> QED BY <3>2 DEF s
    <2> HIDE DEF n
    <2>2. DirtyIn(c) # {} => FirstOf(DirtyIn(c), n) # {}
        BY <1>1, <2>1, FirstOfFacts
    <2> QED BY <2>2 DEF OldDirty, n
<1> QED BY <1>2, <1>3, <1>4

LEMMA WithoutFacts ==
  ASSUME NEW c \in Caches, NEW S
  PROVE  /\ Without(c, S) \in Caches /\ Len(Without(c, S)) = Len(c)
         /\ \A i \in 1 .. Len(c) :
              /\ Without(c, S)[i].used <=> c[i].used /\ i \notin S
              /\ Without(c, S)[i].dirty = c[i].dirty
              /\ Without(c, S)[i].no = c[i].no /\ Without(c, S)[i].rec = c[i].rec
<1>1. c \in Seq(Entries) /\ Len(c) \in Nat /\ Len(c) <= CacheSoft /\ Len(c) = Len(c)
    BY DEF Caches
<1>2. \A i \in 1 .. Len(c) :
        LET e == [c[i] EXCEPT !.used = @ /\ i \notin S]
        IN  /\ e \in Entries /\ (e.used <=> c[i].used /\ i \notin S)
            /\ e.dirty = c[i].dirty /\ e.no = c[i].no /\ e.rec = c[i].rec
    <2> SUFFICES ASSUME NEW i \in 1 .. Len(c)
                 PROVE  LET e == [c[i] EXCEPT !.used = c[i].used /\ i \notin S]
                        IN  /\ e \in Entries /\ (e.used <=> c[i].used /\ i \notin S)
                            /\ e.dirty = c[i].dirty /\ e.no = c[i].no /\ e.rec = c[i].rec
        OBVIOUS
    <2>1. c[i] \in Entries
        BY <1>1
    <2> DEFINE x == c[i]
    <2>2. x \in Entries
        BY <2>1
    <2> HIDE DEF x
    <2>3. ASSUME NEW b \in BOOLEAN
          PROVE  LET e == [x EXCEPT !.used = b]
                 IN  /\ e \in Entries /\ e.used = b
                     /\ e.dirty = x.dirty /\ e.no = x.no /\ e.rec = x.rec
        BY <2>2 DEF Entries
    <2>4. (x.used /\ i \notin S) \in BOOLEAN
        OBVIOUS
    <2> QED BY <2>3, <2>4 DEF x
<1>3. \A i \in 1 .. Len(c) : Without(c, S)[i] = [c[i] EXCEPT !.used = @ /\ i \notin S]
    BY DEF Without
<1>4. Without(c, S) \in Seq(Entries) /\ Len(Without(c, S)) = Len(c)
    BY <1>1, <1>2 DEF Without
<1> QED BY <1>1, <1>2, <1>3, <1>4 DEF Caches

(* The entries of record n, of which there is at most one.                 *)
At(c, n) == {i \in 1 .. Len(c) : c[i].used /\ c[i].no = n}
Held(c, n) == {c[i] : i \in At(c, n)}
Once(c, n) == \A i, j \in At(c, n) : i = j

LEMMA InIsAt ==
  ASSUME NEW c \in Seq(Entries), NEW n
  PROVE  /\ At(c, n) = {} <=> In(c, n) = 0
         /\ In(c, n) # 0 => In(c, n) \in At(c, n) /\ c[In(c, n)] \in Held(c, n)
BY InFacts DEF At, Held

Fits(c, i, n) == i \in At(c, n) \/ (c[i].used = FALSE /\ At(c, n) = {})

Kept(c, d, n) ==
  \A z \in Nat : z # n => Held(d, z) = Held(c, z) /\ (Once(c, z) => Once(d, z))
Sole(d, n, e) == Once(d, n) /\ Held(d, n) = {e}
Replacing(c, i, e) == [c EXCEPT ![i] = e]

LEMMA Replaced ==
  ASSUME NEW c \in Seq(Entries), NEW i \in DOMAIN c, NEW e \in Entries, e.used = TRUE,
         Fits(c, i, e.no), NEW d, d = Replacing(c, i, e)
  PROVE  /\ d \in Seq(Entries) /\ Len(d) = Len(c)
         /\ Kept(c, d, e.no) /\ (Once(c, e.no) => Sole(d, e.no, e))
<1>1. d \in Seq(Entries) /\ Len(d) = Len(c) /\ Len(c) \in Nat
    BY DEF Replacing
<1>2. \A j \in 1 .. Len(c) : d[j] = IF j = i THEN e ELSE c[j]
    BY DEF Replacing
<1>3. ASSUME NEW z \in Nat, z # e.no
      PROVE  At(d, z) = At(c, z) /\ Held(d, z) = Held(c, z)
    <2>1. ~(c[i].used /\ c[i].no = z) /\ ~(d[i].used /\ d[i].no = z)
        BY <1>2, <1>3 DEF At, Fits
    <2>2. \A j \in 1 .. Len(c) : d[j].used /\ d[j].no = z <=> c[j].used /\ c[j].no = z
        BY <1>2, <2>1
    <2>3. At(d, z) = At(c, z)
        BY <1>1, <2>2 DEF At
    <2>4. \A j \in At(c, z) : d[j] = c[j]
        BY <1>2, <2>1 DEF At
    <2> QED BY <2>3, <2>4 DEF Held
<1>4. ASSUME Once(c, e.no) PROVE At(d, e.no) = {i} /\ Held(d, e.no) = {e}
    <2>1. d[i] = e /\ d[i].used /\ d[i].no = e.no
        BY <1>2
    <2>2. \A j \in 1 .. Len(c) : j # i => ~(c[j].used /\ c[j].no = e.no)
        BY <1>4 DEF At, Once, Fits
    <2>3. \A j \in 1 .. Len(c) : d[j].used /\ d[j].no = e.no <=> j = i
        BY <1>2, <2>1, <2>2
    <2>4. At(d, e.no) = {i}
        BY <1>1, <2>3 DEF At
    <2> QED BY <2>1, <2>4 DEF Held
<1>5. Kept(c, d, e.no) /\ (Once(c, e.no) => Sole(d, e.no, e))
    BY <1>3, <1>4 DEF Kept, Sole, Once
<1> QED BY <1>1, <1>5

LEMMA Prepended ==
  ASSUME NEW c \in Seq(Entries), NEW e \in Entries, e.used = TRUE, At(c, e.no) = {},
         NEW d, d = <<e>> \o c
  PROVE  /\ d \in Seq(Entries) /\ Len(d) = Len(c) + 1
         /\ Kept(c, d, e.no) /\ Sole(d, e.no, e)
<1>1. d \in Seq(Entries) /\ Len(d) = Len(c) + 1 /\ Len(c) \in Nat
    OBVIOUS
<1>2. d[1] = e /\ \A j \in 1 .. Len(c) : d[j + 1] = c[j]
    OBVIOUS
<1>3. \A j \in 1 .. Len(d) : j = 1 \/ (j - 1 \in 1 .. Len(c) /\ d[j] = c[j - 1])
    <2> SUFFICES ASSUME NEW j \in 1 .. Len(d), j # 1
                 PROVE  j - 1 \in 1 .. Len(c) /\ d[j] = c[j - 1]
        OBVIOUS
    <2>1. j - 1 \in 1 .. Len(c) /\ (j - 1) + 1 = j
        BY <1>1
    <2> QED BY <1>2, <2>1
<1>4. \A j \in 1 .. Len(c) : j + 1 \in 1 .. Len(d)
    BY <1>1
<1>5. ASSUME NEW z \in Nat, z # e.no
      PROVE  Held(d, z) = Held(c, z) /\ (Once(c, z) => Once(d, z))
    <2>1. \A j \in At(d, z) : j - 1 \in At(c, z) /\ d[j] = c[j - 1]
        BY <1>2, <1>3, <1>5 DEF At
    <2>2. \A j \in At(c, z) : j + 1 \in At(d, z) /\ d[j + 1] = c[j]
        BY <1>2, <1>4 DEF At
    <2>3. Held(d, z) = Held(c, z)
        <3>1. \A x \in Held(d, z) : x \in Held(c, z)
            BY <2>1 DEF Held
        <3>2. \A x \in Held(c, z) : x \in Held(d, z)
            BY <2>2 DEF Held
        <3> QED BY <3>1, <3>2
    <2>4. ASSUME Once(c, z), NEW j \in At(d, z), NEW l \in At(d, z) PROVE j = l
        <3>1. j - 1 = l - 1
            BY <2>1, <2>4 DEF Once
        <3>2. j \in Nat /\ l \in Nat
            BY DEF At
        <3> QED BY <3>1, <3>2
    <2> QED BY <2>3, <2>4 DEF Once
<1>6. At(d, e.no) = {1}
    <2>1. \A j \in 1 .. Len(c) : ~(c[j].used /\ c[j].no = e.no)
        BY DEF At
    <2>2. \A j \in 1 .. Len(d) : d[j].used /\ d[j].no = e.no <=> j = 1
        BY <1>2, <1>3, <2>1
    <2>3. 1 \in 1 .. Len(d)
        BY <1>1
    <2> QED BY <2>2, <2>3 DEF At
<1>7. Once(d, e.no) /\ Held(d, e.no) = {e}
    BY <1>2, <1>6 DEF Once, Held
<1>8. Kept(c, d, e.no) /\ Sole(d, e.no, e)
    BY <1>5, <1>7 DEF Kept, Sole
<1> QED BY <1>1, <1>8

Room(c, n) == In(c, n) # 0 \/ Free(c) # 0 \/ Len(c) < CacheSoft

LEMMA StoredFacts ==
  ASSUME NEW c \in Caches, NEW n \in Nat, NEW r \in Records, Room(c, n)
  PROVE  LET d == Stored(c, n, r)
         IN  /\ d \in Caches
             /\ Kept(c, d, n)
             /\ Once(c, n) =>
                  \E e \in Entries :
                       /\ Sole(d, n, e) /\ e.rec = r
                       /\ ~e.dirty => \E o \in Held(c, n) : ~o.dirty /\ o.rec = r
<1> DEFINE d == Stored(c, n, r)
<1>0. c \in Seq(Entries) /\ Len(c) \in Nat /\ Len(c) <= CacheSoft
    BY DEF Caches
<1>1. \A b \in BOOLEAN : LET e == Entry(n, r, b)
                         IN  e \in Entries /\ e.used = TRUE /\ e.no = n /\ e.rec = r /\ e.dirty = b
    BY DEF Entry, Entries
<1>2. CASE In(c, n) # 0
    <2> DEFINE i == In(c, n)
               b == c[i].dirty \/ c[i].rec # r
               e == Entry(n, r, b)
    <2>1. i \in At(c, n) /\ i \in 1 .. Len(c) /\ c[i] \in Held(c, n) /\ c[i] \in Entries
        BY <1>0, <1>2, InIsAt DEF At
    <2>2. d = Replacing(c, i, e)
        BY <1>2 DEF Stored, Replacing
    <2>3. b \in BOOLEAN
        OBVIOUS
    <2>4. ~b => ~c[i].dirty /\ c[i].rec = r
        OBVIOUS
    <2> HIDE DEF b, i, d
    <2>5. e \in Entries /\ e.used = TRUE /\ e.no = n /\ e.rec = r /\ e.dirty = b
        BY <1>1, <2>3
    <2> HIDE DEF e
    <2>6. /\ d \in Seq(Entries) /\ Len(d) = Len(c)
          /\ Kept(c, d, n) /\ (Once(c, n) => Sole(d, n, e))
        <3>1. Fits(c, i, e.no) /\ i \in DOMAIN c
            BY <1>0, <2>1, <2>5 DEF Fits
        <3>2. /\ d \in Seq(Entries) /\ Len(d) = Len(c)
              /\ Kept(c, d, e.no) /\ (Once(c, e.no) => Sole(d, e.no, e))
            BY <1>0, <2>1, <2>2, <2>5, <3>1, Replaced
        <3> QED BY <2>5, <3>2
    <2>7. d \in Caches
        BY <1>0, <2>6 DEF Caches
    <2>10. ~e.dirty => \E o \in Held(c, n) : ~o.dirty /\ o.rec = r
        BY <2>1, <2>4, <2>5
    <2> QED BY <2>5, <2>6, <2>7, <2>10 DEF d
<1>3. CASE In(c, n) = 0 /\ Free(c) # 0
    <2> DEFINE i == Free(c)
               e == Entry(n, r, TRUE)
    <2>1. i \in 1 .. Len(c) /\ c[i].used = FALSE /\ At(c, n) = {}
        <3>1. i \in 1 .. Len(c) /\ ~c[i].used /\ At(c, n) = {}
            BY <1>0, <1>3, FreeFacts, InIsAt
        <3>2. c[i] \in Entries
            BY <1>0, <3>1
        <3>3. c[i].used \in BOOLEAN
            BY <3>2 DEF Entries
        <3> QED BY <3>1, <3>3
    <2>2. d = Replacing(c, i, e)
        BY <1>3 DEF Stored, Replacing
    <2> HIDE DEF i, d
    <2>5. e \in Entries /\ e.used = TRUE /\ e.no = n /\ e.rec = r /\ e.dirty
        BY <1>1
    <2> HIDE DEF e
    <2>6. /\ d \in Seq(Entries) /\ Len(d) = Len(c)
          /\ Kept(c, d, n) /\ (Once(c, n) => Sole(d, n, e))
        <3>1. Fits(c, i, e.no) /\ i \in DOMAIN c
            BY <1>0, <2>1, <2>5 DEF Fits
        <3>2. /\ d \in Seq(Entries) /\ Len(d) = Len(c)
              /\ Kept(c, d, e.no) /\ (Once(c, e.no) => Sole(d, e.no, e))
            BY <1>0, <2>1, <2>2, <2>5, <3>1, Replaced
        <3> QED BY <2>5, <3>2
    <2>7. d \in Caches
        BY <1>0, <2>6 DEF Caches
    <2> QED BY <2>5, <2>6, <2>7 DEF d
<1>4. CASE In(c, n) = 0 /\ Free(c) = 0
    <2> DEFINE e == Entry(n, r, TRUE)
    <2>1. At(c, n) = {} /\ Len(c) < CacheSoft
        BY <1>0, <1>4, InIsAt DEF Room
    <2>2. d = <<e>> \o c
        BY <1>4 DEF Stored
    <2> HIDE DEF d
    <2>5. e \in Entries /\ e.used = TRUE /\ e.no = n /\ e.rec = r /\ e.dirty
        BY <1>1
    <2> HIDE DEF e
    <2>6. /\ d \in Seq(Entries) /\ Len(d) = Len(c) + 1
          /\ Kept(c, d, n) /\ Sole(d, n, e)
        <3>1. At(c, e.no) = {}
            BY <2>1, <2>5
        <3>2. /\ d \in Seq(Entries) /\ Len(d) = Len(c) + 1
              /\ Kept(c, d, e.no) /\ Sole(d, e.no, e)
            BY <1>0, <2>1, <2>2, <2>5, <3>1, Prepended
        <3> QED BY <2>5, <3>2
    <2>7. d \in Caches
        BY <1>0, <2>1, <2>6, Sizes DEF Caches
    <2> QED BY <2>5, <2>6, <2>7 DEF d
<1> QED BY <1>2, <1>3, <1>4

LEMMA MakeRoomFacts ==
  ASSUME NEW m \in Memories, Free(m.c) = 0, Len(m.c) >= CacheSoft
  PROVE  LET w == MakeRoom(m)
         IN  /\ w \in Memories /\ w.ok = m.ok /\ w.tbl = m.tbl
             /\ Len(m.f) <= Len(w.f) /\ Free(w.c) # 0
             /\ \/ w.c = Without(m.c, OldClean(m.c)) /\ w.f = m.f /\ w.t = m.t
                \/ LET v == WriteBack(m, OldDirty(m.c), ~LockOnce)
                   IN  w.c = Without(m.c, OldDirty(m.c)) /\ w.f = v.f /\ w.t = v.t
<1> DEFINE c == m.c
<1>1. /\ c \in Caches /\ c \in Seq(Entries) /\ Len(c) \in Nat /\ Len(c) > 0
      /\ m.f \in Seq(Records) /\ Len(m.f) \in Nat
    BY MemoryFields, Sizes
<1>2. ASSUME NEW S, S \subseteq 1 .. Len(c), S # {}
      PROVE  Without(c, S) \in Caches /\ Free(Without(c, S)) # 0
    <2> DEFINE d == Without(c, S)
    <2>1. /\ d \in Caches /\ Len(d) = Len(c)
          /\ \A i \in 1 .. Len(c) : d[i].used <=> c[i].used /\ i \notin S
        BY <1>1, WithoutFacts
    <2>2. PICK i \in S : TRUE
        BY <1>2
    <2>3. i \in 1 .. Len(d) /\ ~d[i].used
        BY <1>2, <2>1
    <2> HIDE DEF d
    <2>4. Free(d) # 0
        <3>1. d \in Seq(Entries)
            BY <2>1 DEF Caches
        <3> QED BY <2>3, <3>1, FreeFacts
    <2> QED BY <2>1, <2>4 DEF d
<1>3. OldClean(c) \subseteq 1 .. Len(c) /\ OldDirty(c) \subseteq 1 .. Len(c)
    BY <1>1, OldFacts DEF CleanIn, DirtyIn
<1>4. CASE CleanIn(c) # {}
    <2> DEFINE d == Without(c, OldClean(c))
    <2>1. d \in Caches /\ Free(d) # 0
        BY <1>1, <1>2, <1>3, <1>4, OldFacts
    <2> HIDE DEF d
    <2>2. MakeRoom(m) = [m EXCEPT !.c = d]
        BY <1>4 DEF MakeRoom, Memories, d
    <2>3. LET w == [m EXCEPT !.c = d]
          IN  /\ w \in Memories /\ w.ok = m.ok /\ w.tbl = m.tbl
              /\ w.c = d /\ w.f = m.f /\ w.t = m.t
        BY <2>1 DEF Memories
    <2>4. Len(m.f) <= Len(m.f)
        BY <1>1
    <2> QED BY <2>1, <2>2, <2>3, <2>4 DEF d
<1>5. CASE CleanIn(c) = {}
    <2> DEFINE d == Without(c, OldDirty(c))
               v == WriteBack(m, OldDirty(c), ~LockOnce)
    <2>1. DirtyIn(c) # {}
        <3>1. c[1].used /\ 1 \in 1 .. Len(c)
            BY <1>1, FreeFacts
        <3> QED BY <1>5, <3>1 DEF CleanIn, DirtyIn
    <2>2. d \in Caches /\ Free(d) # 0
        BY <1>1, <1>2, <1>3, <2>1, OldFacts
    <2>3. \E l \in BOOLEAN : v = WriteBack(m, OldDirty(c), l)
        <3>1. CASE LockOnce
            <4>1. v = WriteBack(m, OldDirty(c), FALSE)
                BY <3>1
            <4> QED BY <4>1
        <3>2. CASE ~LockOnce
            <4>1. v = WriteBack(m, OldDirty(c), TRUE)
                BY <3>2
            <4> QED BY <4>1
        <3> QED BY <3>1, <3>2
    <2>4. /\ v \in Memories /\ v.c = c /\ v.tbl = m.tbl /\ v.ok = m.ok
          /\ Len(m.f) <= Len(v.f)
        BY <2>3, WriteBackTypes
    <2> HIDE DEF d, v
    <2>5. MakeRoom(m) = [v EXCEPT !.c = d]
        <3>1. MakeRoom(m) = [v EXCEPT !.c = Without(v.c, OldDirty(v.c))]
            BY <1>5, <2>4 DEF MakeRoom, Memories, v
        <3> QED BY <2>4, <3>1 DEF d
    <2>6. LET w == [v EXCEPT !.c = d]
          IN  /\ w \in Memories /\ w.ok = v.ok /\ w.tbl = v.tbl
              /\ w.c = d /\ w.f = v.f /\ w.t = v.t
        BY <2>2, <2>4 DEF Memories
    <2> QED BY <2>2, <2>4, <2>5, <2>6 DEF d, v
<1> QED BY <1>4, <1>5

(* The memory with room for record n, and with the record put in it.       *)
Roomy(m, n) == IF Full(m.c, n) THEN MakeRoom(m) ELSE m

LEMMA RoomyFacts ==
  ASSUME NEW m \in Memories, NEW n \in Nat
  PROVE  LET w == Roomy(m, n)
         IN  /\ w \in Memories /\ w.ok = m.ok /\ w.tbl = m.tbl
             /\ Len(m.f) <= Len(w.f) /\ Room(w.c, n)
             /\ \/ w = m
                \/ w.c = Without(m.c, OldClean(m.c)) /\ w.f = m.f /\ w.t = m.t
                \/ LET v == WriteBack(m, OldDirty(m.c), ~LockOnce)
                   IN  w.c = Without(m.c, OldDirty(m.c)) /\ w.f = v.f /\ w.t = v.t
<1>1. CASE Full(m.c, n)
    <2>1. Free(m.c) = 0 /\ Len(m.c) >= CacheSoft
        BY <1>1 DEF Full
    <2>2. Roomy(m, n) = MakeRoom(m)
        BY <1>1 DEF Roomy
    <2> QED BY <2>1, <2>2, MakeRoomFacts DEF Room
<1>2. CASE ~Full(m.c, n)
    <2>1. Roomy(m, n) = m
        BY <1>2 DEF Roomy
    <2>2. Len(m.f) \in Nat /\ Len(m.c) \in Nat
        BY MemoryFields
    <2>3. Room(m.c, n)
        BY <1>2, <2>2, Sizes DEF Full, Room
    <2> QED BY <2>1, <2>2, <2>3
<1> QED BY <1>1, <1>2

LEMMA PutTypes ==
  ASSUME NEW m \in Memories, NEW n \in Nat, NEW r \in Records
  PROVE  /\ Put(m, n, r) \in Memories /\ Put(m, n, r).ok = m.ok
         /\ Put(m, n, r).tbl = m.tbl /\ Len(m.f) <= Len(Put(m, n, r).f)
         /\ m.ok => /\ Put(m, n, r).c = Stored(Roomy(m, n).c, n, r)
                    /\ Put(m, n, r).f = Reaching(Roomy(m, n).f, n)
                    /\ Put(m, n, r).t = Roomy(m, n).t
<1>0. Len(m.f) \in Nat
    BY MemoryFields
<1>1. CASE ~m.ok
    BY <1>0, <1>1 DEF Put
<1>2. CASE m.ok
    <2> DEFINE w == Roomy(m, n)
               c == Stored(w.c, n, r)
               f == Reaching(w.f, n)
    <2>1. /\ w \in Memories /\ w.ok = m.ok /\ w.tbl = m.tbl
          /\ Len(m.f) <= Len(w.f) /\ Room(w.c, n)
        BY RoomyFacts
    <2>2. c \in Caches
        <3>1. w.c \in Caches
            BY <2>1, MemoryFields
        <3> HIDE DEF w
        <3> QED BY <2>1, <3>1, StoredFacts
    <2>3. f \in Seq(Records) /\ Len(w.f) <= Len(f) /\ w.f \in Seq(Records)
        <3>1. w.f \in Seq(Records)
            BY <2>1, MemoryFields
        <3> HIDE DEF w
        <3> QED BY <3>1, ReachingFacts
    <2>4. Put(m, n, r) = [w EXCEPT !.c = c, !.f = f]
        <3>1. Put(m, n, r) = [w EXCEPT !.c = Stored(@, n, r), !.f = Reaching(@, n)]
            BY <1>2 DEF Put, Roomy
        <3> HIDE DEF w
        <3> QED BY <2>1, <3>1 DEF Memories
    <2> HIDE DEF w, c, f
    <2>5. LET x == [w EXCEPT !.c = c, !.f = f]
          IN  /\ x \in Memories /\ x.ok = w.ok /\ x.tbl = w.tbl
              /\ x.c = c /\ x.f = f /\ x.t = w.t
        BY <2>1, <2>2, <2>3 DEF Memories
    <2>6. Len(m.f) <= Len(f)
        BY <1>0, <2>1, <2>3
    <2> QED BY <2>1, <2>4, <2>5, <2>6 DEF w, c, f
<1> QED BY <1>1, <1>2

(* After a write-back all entries are clean.                               *)
Cleaned(c) == [i \in 1 .. Len(c) |-> [c[i] EXCEPT !.dirty = FALSE]]

LEMMA CleanedFacts ==
  ASSUME NEW c \in Caches
  PROVE  /\ Cleaned(c) \in Caches /\ Len(Cleaned(c)) = Len(c)
         /\ \A i \in 1 .. Len(c) :
              /\ Cleaned(c)[i].used = c[i].used /\ ~Cleaned(c)[i].dirty
              /\ Cleaned(c)[i].no = c[i].no /\ Cleaned(c)[i].rec = c[i].rec
<1>1. c \in Seq(Entries) /\ Len(c) \in Nat /\ Len(c) <= CacheSoft
    BY DEF Caches
<1>2. \A x \in Entries :
        LET e == [x EXCEPT !.dirty = FALSE]
        IN  e \in Entries /\ e.used = x.used /\ ~e.dirty /\ e.no = x.no /\ e.rec = x.rec
    BY DEF Entries
<1>3. \A i \in 1 .. Len(c) : c[i] \in Entries
    BY <1>1
<1>4. Cleaned(c) \in Seq(Entries) /\ Len(Cleaned(c)) = Len(c)
    BY <1>1, <1>2, <1>3 DEF Cleaned
<1>5. \A i \in 1 .. Len(c) : Cleaned(c)[i] = [c[i] EXCEPT !.dirty = FALSE]
    BY DEF Cleaned
<1> QED BY <1>1, <1>2, <1>3, <1>4, <1>5 DEF Caches

LEMMA SyncTypes ==
  ASSUME NEW m \in Memories
  PROVE  /\ Sync(m) \in Memories /\ Sync(m).ok = m.ok
         /\ Sync(m).tbl = m.tbl /\ Len(m.f) <= Len(Sync(m).f)
         /\ \/ Sync(m) = m /\ (m.ok => DirtyIn(m.c) = {})
            \/ \E l \in BOOLEAN :
                 LET w == WriteBack(m, DirtyIn(m.c), l)
                 IN  /\ Sync(m).c = Cleaned(m.c) /\ Sync(m).f = w.f /\ Sync(m).t = w.t
                     /\ w \in Memories
<1>0. m.c \in Caches /\ Len(m.f) \in Nat
    BY MemoryFields
<1>1. CASE DirtyIn(m.c) = {} \/ ~m.ok
    BY <1>0, <1>1 DEF Sync
<1>2. CASE ~(DirtyIn(m.c) = {} \/ ~m.ok)
    <2> DEFINE b == ~m.locked /\ ~LockOnce
               w == WriteBack(m, DirtyIn(m.c), b)
               c == Cleaned(m.c)
    <2>1. b \in BOOLEAN
        OBVIOUS
    <2> HIDE DEF b
    <2>2. w \in Memories /\ w.c = m.c /\ w.tbl = m.tbl /\ w.ok = m.ok /\ Len(m.f) <= Len(w.f)
        BY <2>1, WriteBackTypes
    <2>3. c \in Caches
        BY <1>0, CleanedFacts
    <2>4. Sync(m) = [w EXCEPT !.c = c]
        <3>1. Sync(m) = [w EXCEPT !.c = [i \in 1 .. Len(@) |-> [@[i] EXCEPT !.dirty = FALSE]]]
            BY <1>2 DEF Sync, b
        <3> HIDE DEF w
        <3>2. [w EXCEPT !.c = [i \in 1 .. Len(@) |-> [@[i] EXCEPT !.dirty = FALSE]]]
                = [w EXCEPT !.c = Cleaned(w.c)]
            BY DEF Cleaned
        <3> QED BY <2>2, <3>1, <3>2
    <2> HIDE DEF w, c
    <2>5. LET x == [w EXCEPT !.c = c]
          IN  /\ x \in Memories /\ x.ok = w.ok /\ x.tbl = w.tbl
              /\ x.c = c /\ x.f = w.f /\ x.t = w.t
        BY <2>2, <2>3 DEF Memories
    <2>6. Sync(m) \in Memories /\ Sync(m).ok = m.ok /\ Sync(m).tbl = m.tbl
          /\ Len(m.f) <= Len(Sync(m).f)
        BY <2>2, <2>4, <2>5
    <2>7. Sync(m).c = Cleaned(m.c) /\ Sync(m).f = w.f /\ Sync(m).t = w.t /\ w \in Memories
        BY <2>2, <2>4, <2>5 DEF c
    <2> QED BY <2>1, <2>6, <2>7 DEF w
<1> QED BY <1>1, <1>2

-----------------------------------------------------------------------------
(* What the puts of the records in N, the syncs and the failures keep, a   *)
(* sequence of calls that writes no other record keeps.                    *)
CallsTo(N) == [call : {"write"}, no : N, rec : Records] \cup {Fail, Skip}
Steady(G, N) ==
  /\ G \subseteq Memories /\ N \subseteq Nat
  /\ \A m \in G : Failed(m) \in G /\ Sync(m) \in G
  /\ \A m \in G, n \in N, r \in Records : Put(m, n, r) \in G

LEMMA MemoriesSteady == Steady(Memories, Nat)
BY FailedTypes, SyncTypes, PutTypes DEF Steady

LEMMA CalledStays ==
  ASSUME NEW G, NEW N, Steady(G, N), NEW m \in G, NEW d \in CallsTo(N)
  PROVE  Called(m, d) \in G
<1>1. CASE d \in [call : {"write"}, no : N, rec : Records]
    BY <1>1 DEF Called, Steady
<1>2. CASE d = Fail
    BY <1>2 DEF Called, Fail, Steady
<1>3. CASE d = Skip
    BY <1>3 DEF Called, Skip
<1> QED BY <1>1, <1>2, <1>3 DEF CallsTo

CalledRun(m, calls, g) ==
  g = [s \in SUBSET DOMAIN calls |->
         IF s = {} THEN m ELSE Called(g[s \ {Max(s)}], calls[Max(s)])]

LEMMA CalledFold ==
  ASSUME NEW G, NEW m \in G, NEW calls, NEW n \in Nat, DOMAIN calls = 1 .. n,
         \A w \in G, i \in 1 .. n : Called(w, calls[i]) \in G
  PROVE  FoldLeft(Called, m, calls) \in G
<1> DEFINE F == [p \in G \X (1 .. n) |-> Called(p[1], calls[p[2]])]
<1>1. F \in [G \X (1 .. n) -> G]
    OBVIOUS
<1>2. \A w \in G, i \in 1 .. n : F[<<w, i>>] = Called(w, calls[i])
    OBVIOUS
<1> HIDE DEF F
<1>3. PICK h \in [SUBSET (1 .. n) -> G] : Folded(n, m, F, h)
    BY <1>1, FoldedExists
<1>4. ASSUME NEW s \in SUBSET (1 .. n), s # {}
      PROVE  Max(s) \in 1 .. n /\ s \ {Max(s)} \in SUBSET (1 .. n)
    BY <1>4, MaxIn
<1>5. \A s \in SUBSET (1 .. n) :
        h[s] = IF s = {} THEN m ELSE Called(h[s \ {Max(s)}], calls[Max(s)])
    <2> SUFFICES ASSUME NEW s \in SUBSET (1 .. n), s # {}
                 PROVE  h[s] = Called(h[s \ {Max(s)}], calls[Max(s)])
        BY <1>3 DEF Folded
    <2>1. h[s] = F[<<h[s \ {Max(s)}], Max(s)>>]
        BY <1>3 DEF Folded
    <2>2. h[s \ {Max(s)}] \in G /\ Max(s) \in 1 .. n
        BY <1>3, <1>4
    <2> QED BY <1>2, <2>1, <2>2
<1>6. \E g : CalledRun(m, calls, g)
    <2>1. h = [s \in SUBSET DOMAIN calls |->
                 IF s = {} THEN m ELSE Called(h[s \ {Max(s)}], calls[Max(s)])]
        BY <1>3, <1>5
    <2>2. CalledRun(m, calls, h)
        BY <2>1 DEF CalledRun
    <2> QED BY <2>2
<1> DEFINE g == CHOOSE g : CalledRun(m, calls, g)
<1>7. CalledRun(m, calls, g)
    BY <1>6
<1>8. FoldLeft(Called, m, calls) = g[DOMAIN calls]
    BY DEF FoldLeft, MapThenFoldSet, CalledRun
<1> HIDE DEF g
<1>9. \A s \in SUBSET (1 .. n) :
        g[s] = IF s = {} THEN m ELSE Called(g[s \ {Max(s)}], calls[Max(s)])
    BY <1>7 DEF CalledRun
<1>10. g[1 .. 0] \in G
    <2>1. 1 .. 0 = {} /\ {} \in SUBSET (1 .. n)
        OBVIOUS
    <2> QED BY <1>9, <2>1
<1>11. ASSUME NEW i \in Nat, i + 1 <= n, g[1 .. i] \in G
       PROVE  g[1 .. i + 1] \in G
    <2>1. 1 .. i + 1 \in SUBSET (1 .. n) /\ i + 1 \in 1 .. n
        BY <1>11
    <2>2. 1 .. i + 1 # {} /\ Max(1 .. i + 1) = i + 1 /\ (1 .. i + 1) \ {i + 1} = 1 .. i
        BY LastOfAll
    <2>3. g[1 .. i + 1] = Called(g[1 .. i], calls[i + 1])
        BY <1>9, <2>1, <2>2
    <2> QED BY <1>11, <2>1, <2>3
<1>12. g[1 .. n] \in G
    BY <1>10, <1>11, StaysInSet
<1> QED BY <1>8, <1>12

LEMMA DoStays ==
  ASSUME NEW G, NEW N, Steady(G, N), NEW m \in G, NEW calls \in Seq(CallsTo(N))
  PROVE  Do(m, calls) \in G
<1>1. Len(calls) \in Nat /\ DOMAIN calls = 1 .. Len(calls)
    OBVIOUS
<1>2. \A w \in G, i \in 1 .. Len(calls) : Called(w, calls[i]) \in G
    BY CalledStays
<1> QED BY <1>1, <1>2, CalledFold DEF Do

ImportRun(m, entries, g) ==
  g = [s \in SUBSET DOMAIN entries |->
         IF s = {} THEN m ELSE ImportLine(g[s \ {Max(s)}], entries[Max(s)])]

LEMMA ImportFold ==
  ASSUME NEW G, NEW m \in G, NEW entries, NEW n \in Nat, DOMAIN entries = 1 .. n,
         \A w \in G, i \in 1 .. n : ImportLine(w, entries[i]) \in G
  PROVE  FoldLeft(ImportLine, m, entries) \in G
<1> DEFINE F == [p \in G \X (1 .. n) |-> ImportLine(p[1], entries[p[2]])]
<1>1. F \in [G \X (1 .. n) -> G]
    OBVIOUS
<1>2. \A w \in G, i \in 1 .. n : F[<<w, i>>] = ImportLine(w, entries[i])
    OBVIOUS
<1> HIDE DEF F
<1>3. PICK h \in [SUBSET (1 .. n) -> G] : Folded(n, m, F, h)
    BY <1>1, FoldedExists
<1>4. ASSUME NEW s \in SUBSET (1 .. n), s # {}
      PROVE  Max(s) \in 1 .. n /\ s \ {Max(s)} \in SUBSET (1 .. n)
    BY <1>4, MaxIn
<1>5. \A s \in SUBSET (1 .. n) :
        h[s] = IF s = {} THEN m ELSE ImportLine(h[s \ {Max(s)}], entries[Max(s)])
    <2> SUFFICES ASSUME NEW s \in SUBSET (1 .. n), s # {}
                 PROVE  h[s] = ImportLine(h[s \ {Max(s)}], entries[Max(s)])
        BY <1>3 DEF Folded
    <2>1. h[s] = F[<<h[s \ {Max(s)}], Max(s)>>]
        BY <1>3 DEF Folded
    <2>2. h[s \ {Max(s)}] \in G /\ Max(s) \in 1 .. n
        BY <1>3, <1>4
    <2> QED BY <1>2, <2>1, <2>2
<1>6. \E g : ImportRun(m, entries, g)
    <2>1. h = [s \in SUBSET DOMAIN entries |->
                 IF s = {} THEN m ELSE ImportLine(h[s \ {Max(s)}], entries[Max(s)])]
        BY <1>3, <1>5
    <2>2. ImportRun(m, entries, h)
        BY <2>1 DEF ImportRun
    <2> QED BY <2>2
<1> DEFINE g == CHOOSE g : ImportRun(m, entries, g)
<1>7. ImportRun(m, entries, g)
    BY <1>6
<1>8. FoldLeft(ImportLine, m, entries) = g[DOMAIN entries]
    BY DEF FoldLeft, MapThenFoldSet, ImportRun
<1> HIDE DEF g
<1>9. \A s \in SUBSET (1 .. n) :
        g[s] = IF s = {} THEN m ELSE ImportLine(g[s \ {Max(s)}], entries[Max(s)])
    BY <1>7 DEF ImportRun
<1>10. g[1 .. 0] \in G
    <2>1. 1 .. 0 = {} /\ {} \in SUBSET (1 .. n)
        OBVIOUS
    <2> QED BY <1>9, <2>1
<1>11. ASSUME NEW i \in Nat, i + 1 <= n, g[1 .. i] \in G
       PROVE  g[1 .. i + 1] \in G
    <2>1. 1 .. i + 1 \in SUBSET (1 .. n) /\ i + 1 \in 1 .. n
        BY <1>11
    <2>2. 1 .. i + 1 # {} /\ Max(1 .. i + 1) = i + 1 /\ (1 .. i + 1) \ {i + 1} = 1 .. i
        BY LastOfAll
    <2>3. g[1 .. i + 1] = ImportLine(g[1 .. i], entries[i + 1])
        BY <1>9, <2>1, <2>2
    <2> QED BY <1>11, <2>1, <2>3
<1>12. g[1 .. n] \in G
    BY <1>10, <1>11, StaysInSet
<1> QED BY <1>8, <1>12

StoreRun(m, keys, g) ==
  g = [s \in SUBSET DOMAIN keys |->
         IF s = {} THEN m ELSE StoreValidity(g[s \ {Max(s)}], keys[Max(s)])]

LEMMA StoreFold ==
  ASSUME NEW G, NEW m \in G, NEW keys, NEW n \in Nat, DOMAIN keys = 1 .. n,
         \A w \in G, i \in 1 .. n : StoreValidity(w, keys[i]) \in G
  PROVE  FoldLeft(StoreValidity, m, keys) \in G
<1> DEFINE F == [p \in G \X (1 .. n) |-> StoreValidity(p[1], keys[p[2]])]
<1>1. F \in [G \X (1 .. n) -> G]
    OBVIOUS
<1>2. \A w \in G, i \in 1 .. n : F[<<w, i>>] = StoreValidity(w, keys[i])
    OBVIOUS
<1> HIDE DEF F
<1>3. PICK h \in [SUBSET (1 .. n) -> G] : Folded(n, m, F, h)
    BY <1>1, FoldedExists
<1>4. ASSUME NEW s \in SUBSET (1 .. n), s # {}
      PROVE  Max(s) \in 1 .. n /\ s \ {Max(s)} \in SUBSET (1 .. n)
    BY <1>4, MaxIn
<1>5. \A s \in SUBSET (1 .. n) :
        h[s] = IF s = {} THEN m ELSE StoreValidity(h[s \ {Max(s)}], keys[Max(s)])
    <2> SUFFICES ASSUME NEW s \in SUBSET (1 .. n), s # {}
                 PROVE  h[s] = StoreValidity(h[s \ {Max(s)}], keys[Max(s)])
        BY <1>3 DEF Folded
    <2>1. h[s] = F[<<h[s \ {Max(s)}], Max(s)>>]
        BY <1>3 DEF Folded
    <2>2. h[s \ {Max(s)}] \in G /\ Max(s) \in 1 .. n
        BY <1>3, <1>4
    <2> QED BY <1>2, <2>1, <2>2
<1>6. \E g : StoreRun(m, keys, g)
    <2>1. h = [s \in SUBSET DOMAIN keys |->
                 IF s = {} THEN m ELSE StoreValidity(h[s \ {Max(s)}], keys[Max(s)])]
        BY <1>3, <1>5
    <2>2. StoreRun(m, keys, h)
        BY <2>1 DEF StoreRun
    <2> QED BY <2>2
<1> DEFINE g == CHOOSE g : StoreRun(m, keys, g)
<1>7. StoreRun(m, keys, g)
    BY <1>6
<1>8. FoldLeft(StoreValidity, m, keys) = g[DOMAIN keys]
    BY DEF FoldLeft, MapThenFoldSet, StoreRun
<1> HIDE DEF g
<1>9. \A s \in SUBSET (1 .. n) :
        g[s] = IF s = {} THEN m ELSE StoreValidity(g[s \ {Max(s)}], keys[Max(s)])
    BY <1>7 DEF StoreRun
<1>10. g[1 .. 0] \in G
    <2>1. 1 .. 0 = {} /\ {} \in SUBSET (1 .. n)
        OBVIOUS
    <2> QED BY <1>9, <2>1
<1>11. ASSUME NEW i \in Nat, i + 1 <= n, g[1 .. i] \in G
       PROVE  g[1 .. i + 1] \in G
    <2>1. 1 .. i + 1 \in SUBSET (1 .. n) /\ i + 1 \in 1 .. n
        BY <1>11
    <2>2. 1 .. i + 1 # {} /\ Max(1 .. i + 1) = i + 1 /\ (1 .. i + 1) \ {i + 1} = 1 .. i
        BY LastOfAll
    <2>3. g[1 .. i + 1] = StoreValidity(g[1 .. i], keys[i + 1])
        BY <1>9, <2>1, <2>2
    <2> QED BY <1>11, <2>1, <2>3
<1>12. g[1 .. n] \in G
    BY <1>10, <1>11, StaysInSet
<1> QED BY <1>8, <1>12

-----------------------------------------------------------------------------
(* Lookups: the hash table, the lists, and what is found there.            *)
LEMMA BucketTypes ==
  ASSUME NEW m \in Memories, NEW k \in Fpr
  PROVE  Bucket(m, k) \in Nat /\ Slot(k) \in 0 .. PerHtbl - 1
<1>1. Byte[k] \in Nat /\ PerHtbl \in Nat /\ PerHtbl > 0 /\ m.tbl \in Nat
    BY ByteAssumption, Sizes, MemoryFields
<1>2. Byte[k] \div PerHtbl \in Nat /\ Byte[k] % PerHtbl \in 0 .. PerHtbl - 1
    BY <1>1
<1> QED BY <1>1, <1>2 DEF Bucket, Slot

LEMMA ItemTypes ==
  ASSUME NEW m \in Memories, NEW k \in Fpr, Is(Read(m, Bucket(m, k)), "htbl")
  PROVE  Read(m, Bucket(m, k)).item[Slot(k)] \in Nat
<1>1. Bucket(m, k) \in Nat /\ Slot(k) \in 0 .. PerHtbl - 1
    BY BucketTypes
<1>2. Read(m, Bucket(m, k)) \in HtblRecords
    BY <1>1, IsKind
<1> QED BY <1>1, <1>2 DEF HtblRecords

Chains == {chain \in Seq(Nat) : Len(chain) > 0}
Linked(m, n, N, links) ==
  links = [i \in 0 .. N |-> IF i = 0 THEN <<n>> ELSE Followed(m, links[i - 1])]

LEMMA ChainEnds ==
  ASSUME NEW chain \in Chains
  PROVE  Last(chain) \in Nat /\ \A i \in 1 .. Len(chain) : chain[i] \in Nat
<1>1. chain \in Seq(Nat) /\ Len(chain) \in Nat /\ Len(chain) > 0
    BY DEF Chains
<1>2. Len(chain) \in 1 .. Len(chain)
    BY <1>1
<1> QED BY <1>1, <1>2 DEF Last

LEMMA FollowedTypes ==
  ASSUME NEW m \in Memories, NEW chain \in Chains
  PROVE  Followed(m, chain) \in Chains
<1> DEFINE r == Read(m, Last(chain))
<1>1. Last(chain) \in Nat /\ chain \in Seq(Nat) /\ Len(chain) \in Nat
    BY ChainEnds DEF Chains
<1>2. Is(r, "hlst") => r \in HlstRecords
    BY <1>1, IsKind
<1> HIDE DEF r
<1>3. Is(r, "hlst") => r.next \in Nat
    BY <1>2 DEF HlstRecords
<1>4. ASSUME NEW i \in Nat PROVE Append(chain, i) \in Chains
    BY <1>1 DEF Chains
<1> QED BY <1>3, <1>4 DEF Followed, r

LEMMA LinksExist ==
  ASSUME NEW m \in Memories, NEW n \in Nat, NEW N \in Nat
  PROVE  \E links \in [0 .. N -> Chains] : Linked(m, n, N, links)
<1> DEFINE T == {i \in Nat : \E links \in [0 .. i -> Chains] : Linked(m, n, i, links)}
<1>1. 0 \in T
    <2> DEFINE links == [j \in 0 .. 0 |-> <<n>>]
    <2>1. <<n>> \in Chains
        BY DEF Chains
    <2>2. links \in [0 .. 0 -> Chains]
        BY <2>1
    <2>3. links = [j \in 0 .. 0 |-> IF j = 0 THEN <<n>> ELSE Followed(m, links[j - 1])]
        OBVIOUS
    <2> HIDE DEF links
    <2>4. Linked(m, n, 0, links)
        BY <2>3 DEF Linked
    <2> QED BY <2>2, <2>4
<1>2. ASSUME NEW i \in T PROVE i + 1 \in T
    <2>1. PICK links \in [0 .. i -> Chains] : Linked(m, n, i, links)
        OBVIOUS
    <2>2. i \in Nat /\ \A j \in 0 .. i :
            links[j] = IF j = 0 THEN <<n>> ELSE Followed(m, links[j - 1])
        BY <2>1 DEF Linked
    <2> DEFINE more == [j \in 0 .. i + 1 |-> IF j <= i THEN links[j] ELSE Followed(m, links[i])]
    <2>3. Followed(m, links[i]) \in Chains
        BY <2>2, FollowedTypes
    <2>4. more \in [0 .. i + 1 -> Chains]
        BY <2>2, <2>3
    <2>5. \A j \in 0 .. i + 1 : more[j] = IF j <= i THEN links[j] ELSE Followed(m, links[i])
        OBVIOUS
    <2> HIDE DEF more
    <2>6. ASSUME NEW j \in 0 .. i + 1
          PROVE  more[j] = IF j = 0 THEN <<n>> ELSE Followed(m, more[j - 1])
        <3>1. CASE j = 0
            BY <2>2, <2>5, <3>1
        <3>2. CASE j # 0 /\ j <= i
            <4>1. j - 1 \in 0 .. i + 1 /\ j - 1 <= i /\ j \in 0 .. i
                BY <2>2, <3>2
            <4>2. more[j] = links[j] /\ more[j - 1] = links[j - 1]
                BY <2>5, <3>2, <4>1
            <4> QED BY <2>2, <3>2, <4>1, <4>2
        <3>3. CASE j = i + 1
            <4>1. j # 0 /\ ~(j <= i) /\ j - 1 = i /\ i \in 0 .. i + 1 /\ i <= i
                BY <2>2, <3>3
            <4>2. more[j] = Followed(m, links[i]) /\ more[i] = links[i]
                BY <2>5, <4>1
            <4> QED BY <4>1, <4>2
        <3> QED BY <2>2, <3>1, <3>2, <3>3
    <2>7. more = [j \in 0 .. i + 1 |-> IF j = 0 THEN <<n>> ELSE Followed(m, more[j - 1])]
        BY <2>4, <2>6
    <2>8. Linked(m, n, i + 1, more)
        BY <2>7 DEF Linked
    <2> QED BY <2>2, <2>4, <2>8
<1>3. N \in T
    <2> HIDE DEF T
    <2>1. T \in SUBSET Nat
        BY DEF T
    <2> QED BY <1>1, <1>2, <2>1, Climb
<1> QED BY <1>3

LEMMA ChainTypes ==
  ASSUME NEW m \in Memories, NEW n \in Nat
  PROVE  Chain(m, n) \in Chains
<1> DEFINE N == Len(m.f)
           links == CHOOSE links : Linked(m, n, N, links)
<1>1. N \in Nat
    BY MemoryFields
<1>2. Chain(m, n) = links[N]
    BY DEF Chain, Linked
<1>3. \E l : Linked(m, n, N, l)
    BY <1>1, LinksExist
<1>4. Linked(m, n, N, links)
    BY <1>3
<1> HIDE DEF links, N
<1>5. \A i \in 0 .. N : links[i] = IF i = 0 THEN <<n>> ELSE Followed(m, links[i - 1])
    BY <1>4 DEF Linked
<1> DEFINE T == {i \in Nat : i <= N => links[i] \in Chains}
<1>6. 0 \in T
    <2>1. <<n>> \in Chains
        BY DEF Chains
    <2> QED BY <1>1, <1>5, <2>1
<1>7. ASSUME NEW i \in T PROVE i + 1 \in T
    <2> SUFFICES ASSUME i + 1 <= N PROVE links[i + 1] \in Chains
        OBVIOUS
    <2>1. i \in Nat /\ i + 1 \in 0 .. N /\ i + 1 # 0 /\ (i + 1) - 1 = i
        BY <1>1
    <2>2. links[i] \in Chains
        BY <1>1, <2>1
    <2>3. links[i + 1] = Followed(m, links[i])
        BY <1>5, <2>1
    <2> QED BY <2>2, <2>3, FollowedTypes
<1>8. N \in T
    <2> HIDE DEF T
    <2>1. T \in SUBSET Nat
        BY DEF T
    <2> QED BY <1>1, <1>6, <1>7, <2>1, Climb
<1> QED BY <1>1, <1>2, <1>8

LEMMA HitsFacts ==
  ASSUME NEW m \in Memories, NEW n \in Nat, NEW k
  PROVE  /\ Hits(m, n, k) \in SUBSET (1 .. PerHlst)
         /\ Hits(m, n, k) # {} => Read(m, n) \in HlstRecords
         /\ \A i \in Hits(m, n, k) : /\ Read(m, n).rnum[i] \in Nat
                                     /\ Read(m, n).rnum[i] # 0
                                     /\ \/ IsOf(m, Read(m, n).rnum[i], k)
                                        \/ Read(m, Read(m, n).rnum[i]) = Absent
<1>1. CASE Is(Read(m, n), "hlst")
    <2>1. Read(m, n) \in HlstRecords
        BY <1>1, IsKind
    <2>2. \A i \in 1 .. PerHlst : Read(m, n).rnum[i] \in Nat
        BY <2>1 DEF HlstRecords
    <2> QED BY <1>1, <2>1, <2>2 DEF Hits
<1>2. CASE ~Is(Read(m, n), "hlst")
    BY <1>2 DEF Hits
<1> QED BY <1>1, <1>2

LEMMA InListFacts ==
  ASSUME NEW m \in Memories, NEW chain \in Chains, NEW k
  PROVE  /\ InList(m, chain, k) \in Nat \cup {Absent}
         /\ InList(m, chain, k) \notin {0, Absent} => IsOf(m, InList(m, chain, k), k)
<1> DEFINE I == {i \in 1 .. Len(chain) : Hits(m, chain[i], k) # {}}
           at == SelectInSeq(chain, LAMBDA n : Hits(m, n, k) # {})
<1>1. at = IF I # {} THEN Min(I) ELSE 0
    BY DEF SelectInSeq
<1>2. I \in SUBSET Nat /\ Len(chain) \in Nat
    BY DEF Chains
<1>3. I # {} => Min(I) \in I
    <2> HIDE DEF I
    <2> QED BY <1>2, MinFacts
<1>4. at # 0 => at \in 1 .. Len(chain) /\ Hits(m, chain[at], k) # {}
    BY <1>1, <1>3
<1>5. InList(m, chain, k) =
        IF at # 0 THEN Found(m, Read(m, chain[at]).rnum[Min(Hits(m, chain[at], k))])
        ELSE IF Unbroken(m, chain) \/ Read(m, Last(chain)) = Absent THEN 0 ELSE Absent
    BY DEF InList
<1> HIDE DEF at
<1>6. CASE at # 0
    <2> DEFINE n == chain[at]
               H == Hits(m, n, k)
    <2>1. n \in Nat /\ H # {}
        BY <1>4, <1>6, ChainEnds
    <2> HIDE DEF n
    <2>2. H \in SUBSET (1 .. PerHlst)
        BY <2>1, HitsFacts
    <2>3. Min(H) \in H
        <3>1. H \in SUBSET Nat
            BY <2>2
        <3> HIDE DEF H
        <3> QED BY <2>1, <3>1, MinFacts
    <2>4. /\ Read(m, n).rnum[Min(H)] \in Nat
          /\ IsOf(m, Read(m, n).rnum[Min(H)], k) \/ Read(m, Read(m, n).rnum[Min(H)]) = Absent
        BY <2>1, <2>3, HitsFacts
    <2>5. InList(m, chain, k) = Found(m, Read(m, n).rnum[Min(H)])
        BY <1>5, <1>6 DEF n
    <2> QED BY <2>4, <2>5 DEF Found
<1>7. CASE at = 0
    BY <1>5, <1>7
<1> QED BY <1>6, <1>7

LEMMA LookupFacts ==
  ASSUME NEW m \in Memories, NEW k \in Fpr
  PROVE  /\ Lookup(m, k) \in Nat \cup {Absent}
         /\ Lookup(m, k) \notin {0, Absent} =>
              Lookup(m, k) \in Nat /\ IsOf(m, Lookup(m, k), k)
<1> DEFINE r == Read(m, Bucket(m, k))
           n == r.item[Slot(k)]
<1>1. Lookup(m, k) =
        IF ~Is(r, "htbl") THEN (IF r = Absent THEN 0 ELSE Absent)
        ELSE IF n = 0 THEN 0
        ELSE IF Is(Read(m, n), "hlst") THEN InList(m, Chain(m, n), k)
        ELSE IF IsOf(m, n, k) THEN n ELSE 0
    BY DEF Lookup
<1>2. Is(r, "htbl") => n \in Nat
    BY ItemTypes
<1> HIDE DEF r, n
<1>3. CASE Is(r, "htbl") /\ n # 0 /\ Is(Read(m, n), "hlst")
    <2>1. Chain(m, n) \in Chains
        BY <1>2, <1>3, ChainTypes
    <2>2. Lookup(m, k) = InList(m, Chain(m, n), k)
        BY <1>1, <1>3
    <2> QED BY <2>1, <2>2, InListFacts
<1>4. CASE ~(Is(r, "htbl") /\ n # 0 /\ Is(Read(m, n), "hlst"))
    BY <1>1, <1>2, <1>4
<1> QED BY <1>3, <1>4

-----------------------------------------------------------------------------
(* The calls of the operations, and the numbers of the records that they   *)
(* write: records of the hash table, lists, keys, and new ones.            *)
Writable(m, N) ==
  /\ N \subseteq Nat
  /\ \A n \in Nat : Is(Read(m, n), "htbl") => n \in N
  /\ \A n \in Nat : Is(Read(m, n), "hlst") => n \in N
  /\ \A n \in Nat : Is(Read(m, n), "trust") => n \in N
  /\ \A n \in Nat : Is(Read(m, n), "valid") => n \in N
  /\ \A n \in Nat : n >= Len(m.f) => n \in N

LEMMA NatWritable == \A m : Writable(m, Nat)
BY DEF Writable

LEMMA OneCall ==
  ASSUME NEW N, NEW n \in N, NEW r \in Records
  PROVE  Write(n, r) \in CallsTo(N) /\ <<Write(n, r)>> \in Seq(CallsTo(N))
<1>1. Write(n, r) \in CallsTo(N)
    BY DEF Write, CallsTo
<1> QED BY <1>1

LEMMA FailCall == \A N : <<Fail>> \in Seq(CallsTo(N)) /\ <<>> \in Seq(CallsTo(N))
<1>1. \A N : Fail \in CallsTo(N)
    BY DEF CallsTo
<1> QED BY <1>1

LEMMA TwoCalls ==
  ASSUME NEW N, NEW c \in CallsTo(N), NEW d \in CallsTo(N)
  PROVE  <<c, d>> \in Seq(CallsTo(N))
OBVIOUS

LEMMA ListTypes ==
  ASSUME NEW items \in Seq(Nat)
  PROVE  List(items) \in [1 .. PerHlst -> Nat]
<1>1. \A i \in 1 .. PerHlst : (IF i <= Len(items) THEN items[i] ELSE 0) \in Nat
    <2> SUFFICES ASSUME NEW i \in 1 .. PerHlst, i <= Len(items) PROVE items[i] \in Nat
        OBVIOUS
    <2>1. i \in 1 .. Len(items)
        BY Sizes
    <2> QED BY <2>1
<1> QED BY <1>1 DEF List

LEMMA ToHtblCall ==
  ASSUME NEW m \in Memories, NEW N, Writable(m, N), NEW k \in Fpr, NEW n \in Nat,
         Is(Read(m, Bucket(m, k)), "htbl")
  PROVE  ToHtbl(m, k, n) \in CallsTo(N)
<1> DEFINE h == Bucket(m, k)
           item == [Read(m, h).item EXCEPT ![Slot(k)] = n]
<1>1. h \in Nat /\ Slot(k) \in 0 .. PerHtbl - 1
    BY BucketTypes
<1>2. Read(m, h) \in HtblRecords
    BY <1>1, IsKind
<1>3. Read(m, h).item \in [0 .. PerHtbl - 1 -> Nat]
    BY <1>2 DEF HtblRecords
<1>4. item \in [0 .. PerHtbl - 1 -> Nat]
    <2> DEFINE f == Read(m, h).item
    <2> HIDE DEF f
    <2>1. [f EXCEPT ![Slot(k)] = n] \in [0 .. PerHtbl - 1 -> Nat]
        BY <1>1, <1>3 DEF f
    <2> QED BY <2>1 DEF f
<1>5. h \in N
    BY <1>1 DEF Writable
<1> HIDE DEF item
<1>6. Htbl(item) \in Records
    BY <1>4, MadeRecords, KindsAreRecords
<1>7. ToHtbl(m, k, n) = Write(h, Htbl(item))
    BY DEF ToHtbl, item
<1> HIDE DEF h
<1> QED BY <1>5, <1>6, <1>7, OneCall

LEMMA ToChainCalls ==
  ASSUME NEW m \in Memories, NEW N, Writable(m, N), NEW n \in Nat, NEW new \in N,
         NEW end \in Nat, Is(Read(m, end), "hlst")
  PROVE  ToChain(m, end, n, new) \in Seq(CallsTo(N))
<1> DEFINE e == Read(m, end)
           room == SelectInSeq(e.rnum, LAMBDA i : i = 0)
           more == Hlst([e.rnum EXCEPT ![room] = n], e.next)
<1>1. e \in HlstRecords /\ end \in N /\ new \in Nat
    BY IsKind DEF Writable
<1>2. ToChain(m, end, n, new) =
        IF room # 0 THEN <<Write(end, more)>>
        ELSE <<Write(end, Hlst(e.rnum, new)), Write(new, Hlst(List(<<n>>), 0))>>
    BY DEF ToChain
<1> HIDE DEF room, e
<1>3. e.rnum \in [1 .. PerHlst -> Nat] /\ e.next \in Nat
    BY <1>1 DEF HlstRecords
<1>4. [e.rnum EXCEPT ![room] = n] \in [1 .. PerHlst -> Nat]
    <2> DEFINE f == e.rnum
    <2> HIDE DEF f
    <2>1. [f EXCEPT ![room] = n] \in [1 .. PerHlst -> Nat]
        BY <1>3 DEF f
    <2> QED BY <2>1 DEF f
<1>5. List(<<n>>) \in [1 .. PerHlst -> Nat]
    <2>1. <<n>> \in Seq(Nat)
        OBVIOUS
    <2> QED BY <2>1, ListTypes
<1>6. /\ more \in Records /\ Hlst(e.rnum, new) \in Records
      /\ Hlst(List(<<n>>), 0) \in Records
    BY <1>1, <1>3, <1>4, <1>5, MadeRecords, KindsAreRecords
<1> HIDE DEF more
<1> QED BY <1>1, <1>2, <1>6, OneCall, TwoCalls

LEMMA UpdCalls ==
  ASSUME NEW m \in Memories, NEW N, Writable(m, N),
         NEW k \in Fpr, NEW n \in Nat, NEW new \in N
  PROVE  UpdHashtable(m, k, n, new) \in Seq(CallsTo(N))
<1> DEFINE r == Read(m, Bucket(m, k))
           old == r.item[Slot(k)]
           chain == Chain(m, old)
<1>1. UpdHashtable(m, k, n, new) =
        IF ~Is(r, "htbl") THEN <<Fail>>
        ELSE IF old = 0 THEN <<ToHtbl(m, k, n)>>
        ELSE IF old = n THEN <<>>
        ELSE IF Is(Read(m, old), "trust")
          THEN <<Write(new, Hlst(List(<<old, n>>), 0)), ToHtbl(m, k, new)>>
        ELSE IF Listed(m, chain, n) THEN <<>>
        ELSE IF Unbroken(m, chain) THEN ToChain(m, Last(chain), n, new) ELSE <<Fail>>
    BY DEF UpdHashtable
<1>2. CASE ~Is(r, "htbl")
    BY <1>1, <1>2, FailCall
<1>3. CASE Is(r, "htbl")
    <2>1. old \in Nat /\ new \in Nat
        BY <1>3, ItemTypes DEF Writable
    <2>2. ToHtbl(m, k, n) \in CallsTo(N) /\ ToHtbl(m, k, new) \in CallsTo(N)
        BY <1>3, <2>1, ToHtblCall
    <2>3. <<ToHtbl(m, k, n)>> \in Seq(CallsTo(N))
        BY <2>2
    <2> HIDE DEF r, old
    <2>4. Write(new, Hlst(List(<<old, n>>), 0)) \in CallsTo(N)
        <3>1. <<old, n>> \in Seq(Nat)
            BY <2>1
        <3>2. List(<<old, n>>) \in [1 .. PerHlst -> Nat]
            BY <3>1, ListTypes
        <3>3. Hlst(List(<<old, n>>), 0) \in Records
            BY <3>2, MadeRecords, KindsAreRecords
        <3> QED BY <3>3, OneCall
    <2>5. <<Write(new, Hlst(List(<<old, n>>), 0)), ToHtbl(m, k, new)>> \in Seq(CallsTo(N))
        BY <2>2, <2>4, TwoCalls
    <2>6. Unbroken(m, chain) => ToChain(m, Last(chain), n, new) \in Seq(CallsTo(N))
        <3>1. Last(chain) \in Nat
            BY <2>1, ChainTypes, ChainEnds
        <3> HIDE DEF chain
        <3> QED BY <3>1, ToChainCalls DEF Unbroken
    <2> HIDE DEF chain
    <2> QED BY <1>1, <1>3, <2>3, <2>5, <2>6, FailCall
<1> QED BY <1>2, <1>3

LEMMA PutTrustCalls ==
  ASSUME NEW m \in Memories, NEW N, Writable(m, N), NEW n \in N, NEW new \in N,
         NEW r \in TrustRecords
  PROVE  PutTrust(m, n, r, new) \in Seq(CallsTo(N))
<1>1. n \in Nat /\ r \in Records /\ r.fpr \in Fpr
    BY KindsAreRecords DEF Writable, TrustRecords
<1>2. <<Write(n, r)>> \in Seq(CallsTo(N))
    BY <1>1, OneCall
<1>3. UpdHashtable(m, r.fpr, n, new) \in Seq(CallsTo(N))
    BY <1>1, UpdCalls
<1> QED BY <1>2, <1>3 DEF PutTrust

LEMMA NewNumbers ==
  ASSUME NEW m \in Memories, NEW N, Writable(m, N)
  PROVE  /\ NewRecnum(m) \in N /\ NewRecnum(m) + 1 \in N /\ NewRecnum(m) + 2 \in N
         /\ NewRecnum(m) \in Nat
<1>1. Len(m.f) \in Nat
    BY MemoryFields
<1> QED BY <1>1 DEF NewRecnum, Writable

LEMMA FoundTrust ==
  ASSUME NEW m \in Memories, NEW N, Writable(m, N), NEW k \in Fpr,
         Lookup(m, k) \notin {0, Absent}
  PROVE  Lookup(m, k) \in N /\ Read(m, Lookup(m, k)) \in TrustRecords
<1>1. Lookup(m, k) \in Nat /\ IsOf(m, Lookup(m, k), k)
    BY LookupFacts
<1> DEFINE n == Lookup(m, k)
<1> HIDE DEF n
<1>2. n \in Nat /\ Is(Read(m, n), "trust")
    BY <1>1 DEF IsOf, n
<1>3. n \in N /\ Read(m, n) \in TrustRecords
    BY <1>2, IsKind DEF Writable
<1> QED BY <1>3 DEF n

LEMMA SetOtCalls ==
  ASSUME NEW m \in Memories, NEW N, Writable(m, N), NEW k \in Fpr, NEW ot \in Nat,
         Lookup(m, k) # Absent
  PROVE  SetOt(m, k, ot) \in Seq(CallsTo(N))
<1> DEFINE n == Lookup(m, k)
           new == NewRecnum(m)
<1>1. new \in N /\ new + 1 \in N
    BY NewNumbers
<1>2. CASE n = 0
    <2>1. Trust(k, ot, 0) \in TrustRecords
        BY MadeRecords
    <2>2. SetOt(m, k, ot) = PutTrust(m, new, Trust(k, ot, 0), new + 1)
        BY <1>2 DEF SetOt
    <2> HIDE DEF new
    <2> QED BY <1>1, <2>1, <2>2, PutTrustCalls
<1>3. CASE n # 0
    <2> DEFINE t == Read(m, n)
               r == [t EXCEPT !.ot = ot]
    <2>1. n \in N /\ t \in TrustRecords
        BY <1>3, FoundTrust
    <2>2. SetOt(m, k, ot) = IF t.ot = ot THEN <<>> ELSE PutTrust(m, n, r, new)
        BY <1>3 DEF SetOt
    <2> HIDE DEF t, n, new
    <2>3. r \in TrustRecords
        BY <2>1 DEF TrustRecords
    <2> HIDE DEF r
    <2>4. PutTrust(m, n, r, new) \in Seq(CallsTo(N))
        BY <1>1, <2>1, <2>3, PutTrustCalls
    <2> QED BY <2>2, <2>4, FailCall
<1> QED BY <1>2, <1>3

LEMMA UpdateValidityCalls ==
  ASSUME NEW m \in Memories, NEW N, Writable(m, N), NEW k \in Fpr
  PROVE  UpdateValidity(m, k) \in Seq(CallsTo(N))
<1> DEFINE n == Lookup(m, k)
           t == Read(m, n)
           new == NewRecnum(m)
           fresh == <<Write(new + 1, Valid(1))>>
                      \o PutTrust(m, new, Trust(k, 0, new + 1), new + 2)
           first == <<Write(new, Valid(1))>>
                      \o PutTrust(m, n, [t EXCEPT !.valid = new], new + 1)
           again == <<Write(t.valid, Valid(1))>> \o PutTrust(m, n, t, new)
<1>1. UpdateValidity(m, k) =
        IF n = Absent THEN <<Fail>>
        ELSE IF n = 0 THEN fresh
        ELSE IF t.valid = 0 THEN first
        ELSE IF Is(Read(m, t.valid), "valid") THEN again ELSE <<Fail>>
    BY DEF UpdateValidity
<1>2. new \in N /\ new + 1 \in N /\ new + 2 \in N /\ new \in Nat
    BY NewNumbers
<1>3. n \notin {0, Absent} => n \in N /\ t \in TrustRecords
    BY FoundTrust
<1>4. Valid(1) \in Records
    BY MadeRecords, KindsAreRecords
<1> HIDE DEF new, n, t
<1>5. fresh \in Seq(CallsTo(N))
    <2>1. Trust(k, 0, new + 1) \in TrustRecords
        BY <1>2, MadeRecords
    <2>2. PutTrust(m, new, Trust(k, 0, new + 1), new + 2) \in Seq(CallsTo(N))
        BY <1>2, <2>1, PutTrustCalls
    <2>3. <<Write(new + 1, Valid(1))>> \in Seq(CallsTo(N))
        BY <1>2, <1>4, OneCall
    <2> QED BY <2>2, <2>3
<1>6. n \notin {0, Absent} => first \in Seq(CallsTo(N))
    <2> SUFFICES ASSUME n \notin {0, Absent} PROVE first \in Seq(CallsTo(N))
        OBVIOUS
    <2>1. [t EXCEPT !.valid = new] \in TrustRecords
        BY <1>2, <1>3 DEF TrustRecords
    <2>2. PutTrust(m, n, [t EXCEPT !.valid = new], new + 1) \in Seq(CallsTo(N))
        BY <1>2, <1>3, <2>1, PutTrustCalls
    <2>3. <<Write(new, Valid(1))>> \in Seq(CallsTo(N))
        BY <1>2, <1>4, OneCall
    <2> QED BY <2>2, <2>3
<1>7. n \notin {0, Absent} /\ Is(Read(m, t.valid), "valid") => again \in Seq(CallsTo(N))
    <2> SUFFICES ASSUME n \notin {0, Absent}, Is(Read(m, t.valid), "valid")
                 PROVE  again \in Seq(CallsTo(N))
        OBVIOUS
    <2>1. t.valid \in Nat
        BY <1>3 DEF TrustRecords
    <2>2. t.valid \in N
        BY <2>1 DEF Writable
    <2>3. PutTrust(m, n, t, new) \in Seq(CallsTo(N))
        BY <1>2, <1>3, PutTrustCalls
    <2>4. <<Write(t.valid, Valid(1))>> \in Seq(CallsTo(N))
        BY <1>4, <2>2, OneCall
    <2> QED BY <2>3, <2>4
<1> HIDE DEF fresh, first, again
<1> QED BY <1>1, <1>5, <1>6, <1>7, FailCall

ResetCalls(m) ==
  [n \in 1 .. Len(m.f) |-> IF Is(Read(m, n), "valid") /\ Read(m, n).value # 0
                             THEN Write(n, Valid(0)) ELSE Skip]
LEMMA ResetCallTypes ==
  ASSUME NEW m \in Memories, NEW N, Writable(m, N)
  PROVE  Reset(m) = Do(m, ResetCalls(m)) /\ ResetCalls(m) \in Seq(CallsTo(N))
<1>1. Len(m.f) \in Nat
    BY MemoryFields
<1>2. Valid(0) \in Records
    BY MadeRecords, KindsAreRecords
<1>3. Skip \in CallsTo(N)
    BY DEF CallsTo
<1>4. \A n \in 1 .. Len(m.f) :
        (IF Is(Read(m, n), "valid") /\ Read(m, n).value # 0
           THEN Write(n, Valid(0)) ELSE Skip) \in CallsTo(N)
    <2> SUFFICES ASSUME NEW n \in 1 .. Len(m.f), Is(Read(m, n), "valid")
                 PROVE  Write(n, Valid(0)) \in CallsTo(N)
        BY <1>3
    <2>1. n \in N
        BY DEF Writable
    <2> QED BY <1>2, <2>1, OneCall
<1>5. ResetCalls(m) \in Seq(CallsTo(N))
    BY <1>1, <1>4 DEF ResetCalls
<1> QED BY <1>5 DEF Reset, ResetCalls

-----------------------------------------------------------------------------
(* The operations: what all their puts and syncs keep, they keep.          *)
Sound(G, N) == Steady(G, N) /\ \A m \in G : Writable(m, N)
Puts(G, next) == \A m \in G, tbl \in Nat : Put(m, 0, Ver(tbl, next)) \in G

LEMMA MemoriesSound == Sound(Memories, Nat) /\ \A next \in Nat : Puts(Memories, next)
<1>1. \A tbl, next \in Nat : Ver(tbl, next) \in Records
    BY MadeRecords, KindsAreRecords
<1> QED BY <1>1, MemoriesSteady, NatWritable DEF Sound, Puts, Steady

LEMMA ScheduleStays ==
  ASSUME NEW G, NEW N, Sound(G, N), NEW next \in Nat, Puts(G, next), NEW m \in G
  PROVE  Schedule(m, next) \in G
<1>1. m \in Memories
    BY DEF Sound, Steady
<1>2. Is(Read(m, 0), "ver") => Read(m, 0).tbl \in Nat
    BY <1>1, IsKind DEF VerRecords
<1> DEFINE w == Put(m, 0, Ver(Read(m, 0).tbl, next))
<1>3. Is(Read(m, 0), "ver") => w \in G
    BY <1>2 DEF Puts
<1> HIDE DEF w
<1>4. Schedule(m, next) = IF ~Is(Read(m, 0), "ver") THEN Failed(m) ELSE Sync(w)
    BY DEF Schedule, w
<1> QED BY <1>3, <1>4 DEF Sound, Steady

LEMMA MarkStays ==
  ASSUME NEW G, NEW N, Sound(G, N), Puts(G, 1), NEW m \in G
  PROVE  Mark(m) \in G
BY ScheduleStays DEF Mark

LEMMA SetOtStays ==
  ASSUME NEW G, NEW N, Sound(G, N), NEW m \in G, NEW k \in Fpr, NEW ot \in Nat,
         Lookup(m, k) # Absent
  PROVE  Do(m, SetOt(m, k, ot)) \in G
<1>1. m \in Memories /\ Writable(m, N) /\ Steady(G, N)
    BY DEF Sound, Steady
<1>2. SetOt(m, k, ot) \in Seq(CallsTo(N))
    BY <1>1, SetOtCalls
<1> QED BY <1>1, <1>2, DoStays

LEMMA UpdateOwnertrustStays ==
  ASSUME NEW G, NEW N, Sound(G, N), Puts(G, 1), NEW m \in G,
         NEW k \in Fpr, NEW ot \in Nat
  PROVE  UpdateOwnertrust(m, k, ot) \in G
<1>1. CASE ~m.ok \/ Lookup(m, k) = Absent
    BY <1>1 DEF UpdateOwnertrust, Sound, Steady
<1>2. CASE ~(~m.ok \/ Lookup(m, k) = Absent)
    <2> DEFINE w == Do(m, SetOt(m, k, ot))
    <2>1. w \in G
        BY <1>2, SetOtStays
    <2>2. UpdateOwnertrust(m, k, ot) = IF SetOt(m, k, ot) = <<>> THEN m ELSE Sync(Mark(w))
        BY <1>2 DEF UpdateOwnertrust
    <2> HIDE DEF w
    <2>3. Mark(w) \in G
        BY <2>1, MarkStays
    <2> QED BY <2>2, <2>3 DEF Sound, Steady
<1> QED BY <1>1, <1>2

LEMMA ClearOwnertrustsStays ==
  ASSUME NEW G, NEW N, Sound(G, N), Puts(G, 1), NEW m \in G, NEW k \in Fpr
  PROVE  ClearOwnertrusts(m, k) \in G
<1>1. UpdateOwnertrust(m, k, 0) \in G
    BY UpdateOwnertrustStays
<1> QED BY <1>1 DEF ClearOwnertrusts, Sound, Steady

LEMMA ImportLineStays ==
  ASSUME NEW G, NEW N, Sound(G, N), NEW m \in G, NEW e \in Fpr \X (Nat \ {0})
  PROVE  ImportLine(m, e) \in G
<1>1. e[1] \in Fpr /\ e[2] \in Nat
    OBVIOUS
<1>2. Lookup(m, e[1]) # Absent => Do(m, SetOt(m, e[1], e[2])) \in G
    BY <1>1, SetOtStays
<1> QED BY <1>2 DEF ImportLine

LEMMA ImportedStays ==
  ASSUME NEW G, NEW N, Sound(G, N), NEW m \in G, NEW entries \in Imports
  PROVE  FoldLeft(ImportLine, m, entries) \in G
<1>1. entries \in Seq(Fpr \X (Nat \ {0}))
    BY ImportsAssumption
<1>2. Len(entries) \in Nat /\ DOMAIN entries = 1 .. Len(entries)
    BY <1>1
<1>3. \A w \in G, i \in 1 .. Len(entries) : ImportLine(w, entries[i]) \in G
    BY <1>1, ImportLineStays
<1> QED BY <1>2, <1>3, ImportFold

LEMMA ImportEntriesStays ==
  ASSUME NEW G, NEW N, Sound(G, N), Puts(G, 1), NEW m \in G, NEW entries \in Imports
  PROVE  ImportEntries(m, entries) \in G
<1> DEFINE w == FoldLeft(ImportLine, m, entries)
<1>1. w \in G
    BY ImportedStays
<1>2. ImportEntries(m, entries) = IF w = m THEN m ELSE Sync(Mark(w))
    BY DEF ImportEntries
<1> HIDE DEF w
<1>3. Mark(w) \in G
    BY <1>1, MarkStays
<1> QED BY <1>2, <1>3 DEF Sound, Steady

LEMMA ResetStays ==
  ASSUME NEW G, NEW N, Sound(G, N), NEW m \in G
  PROVE  Reset(m) \in G
<1>1. m \in Memories /\ Writable(m, N) /\ Steady(G, N)
    BY DEF Sound, Steady
<1>2. Reset(m) = Do(m, ResetCalls(m)) /\ ResetCalls(m) \in Seq(CallsTo(N))
    BY <1>1, ResetCallTypes
<1> QED BY <1>1, <1>2, DoStays

LEMMA StoreValidityStays ==
  ASSUME NEW G, NEW N, Sound(G, N), NEW m \in G, NEW k \in Fpr
  PROVE  StoreValidity(m, k) \in G
<1>1. m \in Memories /\ Writable(m, N) /\ Steady(G, N)
    BY DEF Sound, Steady
<1>2. UpdateValidity(m, k) \in Seq(CallsTo(N))
    BY <1>1, UpdateValidityCalls
<1>3. Do(m, UpdateValidity(m, k)) \in G
    BY <1>1, <1>2, DoStays
<1> QED BY <1>1, <1>3 DEF StoreValidity, Steady

LEMMA SetToSeqTypes ==
  ASSUME NEW K, IsFiniteSet(K)
  PROVE  /\ Cardinality(K) \in Nat
         /\ SetToSeq(K) \in [1 .. Cardinality(K) -> K]
<1> DEFINE N == Cardinality(K)
<1>1. N \in Nat /\ ExistsBijection(1 .. N, K)
    BY FS_CardinalityType
<1> HIDE DEF N
<1>2. \E f \in [1 .. N -> K] : IsInjective(f)
    BY <1>1 DEF ExistsBijection, Bijection, Injection
<1>3. SetToSeq(K) \in [1 .. N -> K]
    BY <1>2 DEF SetToSeq, N
<1> QED BY <1>1, <1>3 DEF N

LEMMA StoredStays ==
  ASSUME NEW G, NEW N, Sound(G, N), NEW m \in G, NEW K \in Checks
  PROVE  FoldLeft(StoreValidity, Reset(m), SetToSeq(K)) \in G
<1> DEFINE keys == SetToSeq(K)
           n == Cardinality(K)
           r == Reset(m)
<1>1. K \subseteq Fpr /\ IsFiniteSet(K)
    BY ChecksAssumption
<1>2. n \in Nat /\ keys \in [1 .. n -> K]
    BY <1>1, SetToSeqTypes
<1> HIDE DEF keys, n
<1>3. \A v \in G, i \in 1 .. n : StoreValidity(v, keys[i]) \in G
    BY <1>1, <1>2, StoreValidityStays
<1>4. r \in G /\ DOMAIN keys = 1 .. n
    BY <1>2, ResetStays
<1> HIDE DEF r
<1>5. FoldLeft(StoreValidity, r, keys) \in G
    BY <1>2, <1>3, <1>4, StoreFold
<1> QED BY <1>5 DEF r, keys

LEMMA ValidateKeysStays ==
  ASSUME NEW G, NEW N, Sound(G, N), Puts(G, 0), NEW m \in G, NEW K \in Checks
  PROVE  ValidateKeys(m, K) \in G
<1> DEFINE w == FoldLeft(StoreValidity, Reset(m), SetToSeq(K))
<1>1. w \in G
    BY StoredStays
<1>2. ValidateKeys(m, K) = IF ~m.ok THEN m ELSE Schedule(w, 0)
    BY DEF ValidateKeys
<1> HIDE DEF w
<1>3. Schedule(w, 0) \in G
    BY <1>1, ScheduleStays
<1> QED BY <1>2, <1>3

-----------------------------------------------------------------------------
(* The types of the variables, for any number of processes.                *)
Places == {"off", "create", "check", "idle", "busy"}
Jobs(W) == [after : W, mid : W, at_risk : SUBSET Fpr,
            due : BOOLEAN, cut : BOOLEAN, fails : BOOLEAN]
IsJob(j) == /\ j.at_risk \subseteq Fpr /\ j.due \in BOOLEAN
            /\ j.cut \in BOOLEAN /\ j.fails \in BOOLEAN
Types ==
  /\ pc \in [Proc -> Places] /\ lock \in Proc \cup {NoProc}
  /\ todo \in [Proc -> Seq(Acts)]
  /\ DOMAIN job = Proc /\ \A p \in Proc : pc[p] = "busy" => IsJob(job[p])
  /\ cache \in [Proc -> Caches] /\ table \in [Proc -> Nat]
  /\ file \in Seq(Records) \cup {Absent}
  /\ \A p \in Proc : pc[p] \in {"idle", "busy"} => file # Absent
  /\ hurt \subseteq Fpr /\ due \in BOOLEAN /\ ops \in 0 .. MaxOps

LEMMA EmptyFile == <<>> \in Seq(Records) /\ <<>> # Absent
<1>1. <<>> \in Seq(Records)
    OBVIOUS
<1> QED BY <1>1, AbsentAssumption

LEMMA BlankGap ==
  ASSUME NEW n \in Int
  PROVE  [i \in 1 .. n |-> Blank] \in Seq(Records)
<1>1. Blank \in Records
    BY MadeRecords
<1>2. CASE n \in Nat
    BY <1>1, <1>2
<1>3. CASE n \notin Nat
    <2>1. 1 .. n = 1 .. 0
        BY <1>3
    <2>2. [i \in 1 .. 0 |-> Blank] \in Seq(Records)
        BY <1>1
    <2> QED BY <2>1, <2>2
<1> QED BY <1>2, <1>3

LEMMA MemoryTypes ==
  ASSUME Types, NEW p \in Proc, NEW f \in Seq(Records)
  PROVE  /\ Memory(p, f) \in Memories
         /\ Memory(p, f).c = cache[p] /\ Memory(p, f).f = f /\ Memory(p, f).t = <<>>
         /\ Memory(p, f).ok /\ Memory(p, f).tbl = table[p]
<1>1. cache[p] \in Caches /\ table[p] \in Nat
    BY DEF Types
<1>2. (lock = p) \in BOOLEAN /\ <<>> \in Seq(Acts)
    OBVIOUS
<1> QED BY <1>1, <1>2 DEF Memory, Memories

LEMMA WithTableTypes ==
  ASSUME NEW m \in Memories
  PROVE  /\ WithTable(m) \in Memories
         /\ WithTable(m).c = m.c /\ WithTable(m).f = m.f /\ WithTable(m).t = m.t
         /\ WithTable(m).ok => m.ok /\ Is(Read(m, 0), "ver")
<1>1. CASE ~Is(Read(m, 0), "ver")
    BY <1>1, FailedTypes DEF WithTable
<1>2. CASE Is(Read(m, 0), "ver")
    <2>1. Read(m, 0).tbl \in Nat
        BY <1>2, IsKind DEF VerRecords
    <2> DEFINE tbl == Read(m, 0).tbl
    <2> HIDE DEF tbl
    <2>2. LET w == [m EXCEPT !.tbl = tbl]
          IN  w \in Memories /\ w.c = m.c /\ w.f = m.f /\ w.t = m.t /\ w.ok = m.ok
        BY <2>1 DEF Memories, tbl
    <2>3. WithTable(m) = IF m.tbl = 0 THEN [m EXCEPT !.tbl = tbl] ELSE m
        BY <1>2 DEF WithTable, tbl
    <2> QED BY <1>2, <2>2, <2>3
<1> QED BY <1>1, <1>2

LEMMA MeTypes ==
  ASSUME Types, NEW p \in Proc, pc[p] = "idle"
  PROVE  /\ Me(p) \in Memories /\ file \in Seq(Records)
         /\ Me(p).c = cache[p] /\ Me(p).f = file /\ Me(p).t = <<>>
<1>1. file \in Seq(Records)
    BY DEF Types
<1> QED BY <1>1, MemoryTypes, WithTableTypes DEF Me

LEMMA CreateTypes ==
  ASSUME NEW m \in Memories
  PROVE  Create(m) \in Memories
<1> DEFINE calls == [n \in 1 .. Tables |-> Write(n, EmptyHtbl)]
           w == Sync(Put(m, 0, Ver(0, 0)))
           v == Do(w, calls)
<1>1. Tables \in Nat
    BY Sizes DEF Tables
<1>2. EmptyHtbl \in Records /\ Ver(0, 0) \in Records /\ Ver(1, 0) \in Records
    <2>1. [i \in 0 .. PerHtbl - 1 |-> 0] \in [0 .. PerHtbl - 1 -> Nat]
        OBVIOUS
    <2> QED BY <2>1, MadeRecords, KindsAreRecords DEF EmptyHtbl
<1>3. calls \in Seq(CallsTo(Nat))
    <2>1. \A n \in 1 .. Tables : Write(n, EmptyHtbl) \in CallsTo(Nat)
        <3> SUFFICES ASSUME NEW n \in 1 .. Tables PROVE Write(n, EmptyHtbl) \in CallsTo(Nat)
            OBVIOUS
        <3>1. n \in Nat
            BY <1>1
        <3> QED BY <1>2, <3>1, OneCall
    <2> QED BY <1>1, <2>1
<1> HIDE DEF calls
<1>4. w \in Memories
    BY <1>2, PutTypes, SyncTypes
<1> HIDE DEF w
<1>5. v \in Memories
    BY <1>3, <1>4, MemoriesSteady, DoStays
<1> HIDE DEF v
<1>6. Create(m) = Sync(Put(v, 0, Ver(1, 0)))
    BY DEF Create, calls, w, v
<1> QED BY <1>2, <1>5, <1>6, PutTypes, SyncTypes

LEMMA NoJobTypes ==
  ASSUME Types
  PROVE  NoJob \in Jobs({want})
BY DEF NoJob, Jobs, Types

LEMMA JobMade ==
  ASSUME Types, NEW a, NEW b, NEW r \in SUBSET Fpr, NEW d \in BOOLEAN, NEW c \in BOOLEAN
  PROVE  [after |-> a, mid |-> b, at_risk |-> r, due |-> d, cut |-> c, fails |-> FALSE]
           \in Jobs({a, b})
BY DEF Jobs

LEMMA OwnertrustJobTypes ==
  ASSUME Types, NEW me, NEW m, NEW new
  PROVE  \E W : /\ OwnertrustJob(me, m, new) \in Jobs(W)
                /\ [OwnertrustJob(me, m, new) EXCEPT !.at_risk = {}] \in Jobs(W)
<1> DEFINE a == [k \in Fpr |-> IF k \in DOMAIN new
                                 THEN {<<new[k], x[2]>> : x \in want[k]}
                                 ELSE want[k]]
           d == due \/ m.t # <<>>
           r == SameSlot(Inserts(me, DOMAIN new))
           job_(s) == [after |-> a, mid |-> a, at_risk |-> s,
                       due |-> d, cut |-> due, fails |-> FALSE]
<1>1. OwnertrustJob(me, m, new) = [NoJob EXCEPT !.after = a, !.mid = a, !.due = d, !.at_risk = r]
    BY DEF OwnertrustJob
<1>2. r \in SUBSET Fpr /\ {} \in SUBSET Fpr /\ d \in BOOLEAN /\ due \in BOOLEAN
    BY DEF SameSlot, Types
<1> HIDE DEF a, d, r
<1>3. OwnertrustJob(me, m, new) = job_(r)
    BY <1>1 DEF NoJob
<1>4. job_(r) \in Jobs({a, a})
    BY <1>2, JobMade
<1> DEFINE o == OwnertrustJob(me, m, new)
<1>5. o \in Jobs({a, a})
    BY <1>3, <1>4
<1> HIDE DEF o
<1>6. [o EXCEPT !.at_risk = {}] \in Jobs({a, a})
    BY <1>5 DEF Jobs
<1> QED BY <1>5, <1>6 DEF o

LEMMA ValidateJobTypes ==
  ASSUME Types, NEW me, NEW K \in Checks
  PROVE  \E W : ValidateJob(me, K) \in Jobs(W)
<1> DEFINE value(k) == IF k \in K THEN 1 ELSE 0
           a == [k \in Fpr |-> {<<x[1], value(k)>> : x \in want[k]}]
           b == [k \in Fpr |-> {<<x[1], v>> : x \in want[k], v \in {0, value(k)}}]
           r == SameSlot(Inserts(me, K)) \cup NewlyValid(me, K)
           j == [after |-> a, mid |-> b, at_risk |-> r,
                 due |-> FALSE, cut |-> FALSE, fails |-> FALSE]
<1>1. ValidateJob(me, K) = [NoJob EXCEPT !.after = a, !.mid = b, !.at_risk = r,
                                         !.due = FALSE, !.cut = FALSE]
    BY DEF ValidateJob
<1>2. r \in SUBSET Fpr
    BY ChecksAssumption DEF SameSlot, NewlyValid
<1> HIDE DEF a, b, r
<1>3. ValidateJob(me, K) = j
    BY <1>1 DEF NoJob
<1>4. j \in Jobs({a, b})
    BY <1>2, JobMade
<1> HIDE DEF j
<1> QED BY <1>3, <1>4

LEMMA TypesInit == Init => Types
<1> SUFFICES ASSUME Init PROVE Types
    OBVIOUS
<1>1. <<>> \in Caches /\ <<>> \in Seq(Acts)
    BY Sizes DEF Caches
<1>2. /\ pc = [p \in Proc |-> "off"] /\ todo = [p \in Proc |-> <<>>]
      /\ job = [p \in Proc |-> Absent]
      /\ cache = [p \in Proc |-> <<>>] /\ table = [p \in Proc |-> 0]
      /\ file = Absent /\ lock = NoProc
      /\ hurt = {} /\ due = FALSE /\ ops = 0
    BY DEF Init
<1>3. \A p \in Proc : pc[p] = "off"
    BY <1>2
<1>4. pc \in [Proc -> Places] /\ todo \in [Proc -> Seq(Acts)] /\ DOMAIN job = Proc
    BY <1>1, <1>2 DEF Places
<1>5. cache \in [Proc -> Caches] /\ table \in [Proc -> Nat] /\ ops \in 0 .. MaxOps
    BY <1>1, <1>2, MaxOpsAssumption
<1> QED BY <1>2, <1>3, <1>4, <1>5 DEF Types

(* The steps of one process: what it sets of its own, and the file.        *)
LEMMA TypesStep ==
  ASSUME Types, NEW p \in Proc, NEW s \in Places, Goto(p, s),
         lock' \in Proc \cup {NoProc},
         todo' \in [Proc -> Seq(Acts)],
         cache' \in [Proc -> Caches], table' \in [Proc -> Nat],
         DOMAIN job' = Proc, \A q \in Proc \ {p} : job'[q] = job[q],
         s = "busy" => IsJob(job'[p]),
         file' = file \/ file' \in Seq(Records),
         s \in {"idle", "busy"} => file' # Absent,
         hurt' \subseteq Fpr, due' \in BOOLEAN, ops' \in 0 .. MaxOps
  PROVE  Types'
<1>1. pc' \in [Proc -> Places] /\ \A q \in Proc : pc'[q] = IF q = p THEN s ELSE pc[q]
    BY DEF Goto, Types
<1>2. ASSUME NEW q \in Proc, pc'[q] = "busy" PROVE IsJob(job'[q])
    <2>1. CASE q = p
        BY <1>1, <1>2, <2>1
    <2>2. CASE q # p
        <3>1. pc[q] = "busy" /\ job'[q] = job[q]
            BY <1>1, <1>2, <2>2
        <3>2. IsJob(job[q])
            BY <3>1 DEF Types
        <3> QED BY <3>1, <3>2
    <2> QED BY <2>1, <2>2
<1>3. file' \in Seq(Records) \cup {Absent} /\ (file # Absent => file' # Absent)
    BY AbsentAssumption DEF Types
<1>4. ASSUME NEW q \in Proc, pc'[q] \in {"idle", "busy"} PROVE file' # Absent
    <2>1. CASE q = p
        BY <1>1, <1>4, <2>1
    <2>2. CASE q # p
        BY <1>1, <1>3, <1>4, <2>2 DEF Types
    <2> QED BY <2>1, <2>2
<1> QED BY <1>1, <1>2, <1>3, <1>4 DEF Types

LEMMA TypesBegin ==
  ASSUME Types, NEW p \in Proc, Ready(p), NEW m \in Memories, NEW W, NEW j \in Jobs(W),
         Begin(p, m, j)
  PROVE  Types'
<1> DEFINE i == [j EXCEPT !.fails = ~m.ok]
           gap == [n \in 1 .. Len(m.f) - Len(file) |-> Blank]
<1>1. file \in Seq(Records)
    BY DEF Ready, Types
<1>2. m.c \in Caches /\ m.t \in Seq(Acts) /\ m.tbl \in Nat /\ Len(m.f) \in Nat
      /\ m.ok \in BOOLEAN
    BY MemoryFields
<1>3. IsJob(i)
    <2>1. (~m.ok) \in BOOLEAN
        OBVIOUS
    <2>2. \A b \in BOOLEAN : [j EXCEPT !.fails = b] \in Jobs(W)
        BY DEF Jobs
    <2>3. i \in Jobs(W)
        BY <2>1, <2>2
    <2> HIDE DEF i
    <2> QED BY <2>3 DEF Jobs, IsJob
<1>4. file' \in Seq(Records)
    <2>1. Len(m.f) - Len(file) \in Int
        BY <1>1, <1>2
    <2> DEFINE n == Len(m.f) - Len(file)
    <2> HIDE DEF n
    <2>2. n \in Int
        BY <2>1 DEF n
    <2>3. [x \in 1 .. n |-> Blank] \in Seq(Records)
        BY <2>2, BlankGap
    <2>4. gap \in Seq(Records)
        BY <2>3 DEF n
    <2> HIDE DEF gap
    <2>5. file' = file \o gap
        BY DEF Begin, gap
    <2> QED BY <1>1, <2>4, <2>5
<1>5. /\ todo' \in [Proc -> Seq(Acts)]
      /\ cache' \in [Proc -> Caches] /\ table' \in [Proc -> Nat]
    BY <1>2 DEF Begin, Types
<1>6. DOMAIN job' = Proc /\ \A q \in Proc : job'[q] = IF q = p THEN i ELSE job[q]
    <2> HIDE DEF i
    <2>1. job' = [job EXCEPT ![p] = i]
        BY DEF Begin, i
    <2> QED BY <2>1 DEF Types
<1>7. ops' \in 0 .. MaxOps
    BY MaxOpsAssumption DEF Begin, Ready, Types
<1>8. lock' \in Proc \cup {NoProc} /\ hurt' \subseteq Fpr /\ due' \in BOOLEAN
    BY DEF Begin, Types
<1>9. Goto(p, "busy") /\ "busy" \in Places
    BY DEF Begin, Places
<1>10. file' # Absent
    BY <1>4, AbsentAssumption
<1> HIDE DEF i, gap
<1> QED BY <1>3, <1>4, <1>5, <1>6, <1>7, <1>8, <1>9, <1>10, TypesStep

LEMMA TypesOwnertrust ==
  ASSUME Types, NEW p \in Proc, SetOwnertrust(p) \/ ClearOwnertrust(p) \/ ImportOwnertrust(p)
  PROVE  Types'
<1>1. CASE SetOwnertrust(p)
    <2>1. PICK k \in Fpr, ot \in Values :
            LET m == UpdateOwnertrust(Me(p), k, ot)
            IN  Begin(p, m, OwnertrustJob(Me(p), m, [j \in {k} |-> ot]))
        BY <1>1 DEF SetOwnertrust
    <2> DEFINE m == UpdateOwnertrust(Me(p), k, ot)
               new == [j \in {k} |-> ot]
    <2>2. Ready(p) /\ pc[p] = "idle"
        BY <1>1 DEF SetOwnertrust, Ready
    <2>3. m \in Memories
        <3>1. Me(p) \in Memories /\ ot \in Nat
            BY <2>2, MeTypes, ValuesAssumption
        <3> QED BY <3>1, MemoriesSound, UpdateOwnertrustStays
    <2>4. Begin(p, m, OwnertrustJob(Me(p), m, new))
        BY <2>1
    <2> HIDE DEF m, new
    <2>5. PICK W : OwnertrustJob(Me(p), m, new) \in Jobs(W)
        BY OwnertrustJobTypes
    <2> QED BY <2>2, <2>3, <2>4, <2>5, TypesBegin
<1>2. CASE ClearOwnertrust(p)
    <2>1. PICK k \in Fpr :
            LET m == ClearOwnertrusts(Me(p), k)
            IN  Begin(p, m, [OwnertrustJob(Me(p), m, [j \in {k} |-> 0]) EXCEPT !.at_risk = {}])
        BY <1>2 DEF ClearOwnertrust
    <2> DEFINE m == ClearOwnertrusts(Me(p), k)
               new == [j \in {k} |-> 0]
    <2>2. Ready(p) /\ pc[p] = "idle"
        BY <1>2 DEF ClearOwnertrust, Ready
    <2>3. m \in Memories
        <3>1. Me(p) \in Memories
            BY <2>2, MeTypes
        <3> QED BY <3>1, MemoriesSound, ClearOwnertrustsStays
    <2>4. Begin(p, m, [OwnertrustJob(Me(p), m, new) EXCEPT !.at_risk = {}])
        BY <2>1
    <2> HIDE DEF m, new
    <2>5. PICK W : [OwnertrustJob(Me(p), m, new) EXCEPT !.at_risk = {}] \in Jobs(W)
        BY OwnertrustJobTypes
    <2> DEFINE j == [OwnertrustJob(Me(p), m, new) EXCEPT !.at_risk = {}]
    <2>6. j \in Jobs(W) /\ Begin(p, m, j)
        BY <2>4, <2>5
    <2> HIDE DEF j
    <2> QED BY <2>2, <2>3, <2>6, TypesBegin
<1>3. CASE ImportOwnertrust(p)
    <2>1. PICK entries \in Imports :
            LET m == ImportEntries(Me(p), entries)
            IN  Begin(p, m, OwnertrustJob(Me(p), m, Assigned(entries)))
        BY <1>3 DEF ImportOwnertrust
    <2> DEFINE m == ImportEntries(Me(p), entries)
    <2>2. Ready(p) /\ pc[p] = "idle"
        BY <1>3 DEF ImportOwnertrust, Ready
    <2>3. m \in Memories
        <3>1. Me(p) \in Memories
            BY <2>2, MeTypes
        <3> QED BY <3>1, MemoriesSound, ImportEntriesStays
    <2>4. Begin(p, m, OwnertrustJob(Me(p), m, Assigned(entries)))
        BY <2>1
    <2> HIDE DEF m
    <2>5. PICK W : OwnertrustJob(Me(p), m, Assigned(entries)) \in Jobs(W)
        BY OwnertrustJobTypes
    <2> QED BY <2>2, <2>3, <2>4, <2>5, TypesBegin
<1> QED BY <1>1, <1>2, <1>3

LEMMA TypesValidate ==
  ASSUME Types, NEW p \in Proc, Validate(p)
  PROVE  Types'
<1>1. PICK K \in Checks :
        Begin(p, ValidateKeys(Me(p), K), ValidateJob(Me(p), K))
    BY DEF Validate
<1>2. Ready(p) /\ pc[p] = "idle"
    BY DEF Validate, Ready
<1> DEFINE m == ValidateKeys(Me(p), K)
<1>3. m \in Memories
    <2>1. Me(p) \in Memories
        BY <1>2, MeTypes
    <2> QED BY <2>1, MemoriesSound, ValidateKeysStays
<1>4. Begin(p, m, ValidateJob(Me(p), K))
    BY <1>1
<1> HIDE DEF m
<1>5. PICK W : ValidateJob(Me(p), K) \in Jobs(W)
    BY ValidateJobTypes
<1> QED BY <1>2, <1>3, <1>4, <1>5, TypesBegin

LEMMA TypesStart ==
  ASSUME Types, NEW p \in Proc, Stat(p) \/ CreateLock(p) \/ CheckThere(p) \/ CheckMissing(p)
  PROVE  Types'
<1>0. {"off", "create", "check", "idle", "busy"} = Places
    BY DEF Places
<1>1. CASE Stat(p)
    <2> DEFINE s == IF file # Absent /\ file # <<>> THEN "idle" ELSE "create"
    <2>1. Goto(p, s) /\ s \in Places /\ (s \in {"idle", "busy"} => file' # Absent) /\ s # "busy"
        BY <1>0, <1>1 DEF Stat
    <2> HIDE DEF s
    <2> QED BY <1>1, <2>1, TypesStep DEF Stat, Types
<1>2. CASE CreateLock(p)
    <2>1. Goto(p, "check") /\ "check" \in Places
        BY <1>0, <1>2 DEF CreateLock
    <2>2. lock' \in Proc \cup {NoProc}
        BY <1>2 DEF CreateLock
    <2> QED BY <1>2, <2>1, <2>2, TypesStep DEF CreateLock, Types
<1>3. CASE CheckThere(p)
    <2>1. Goto(p, "busy") /\ "busy" \in Places /\ file' # Absent
        BY <1>0, <1>3 DEF CheckThere
    <2>2. Unlocked \in Seq(Acts)
        BY ActTypes DEF Unlocked
    <2>3. todo' \in [Proc -> Seq(Acts)]
        BY <1>3, <2>2 DEF CheckThere, Types
    <2>4. IsJob(NoJob)
        BY NoJobTypes DEF Jobs, IsJob
    <2>5. DOMAIN job' = Proc /\ \A q \in Proc : job'[q] = IF q = p THEN NoJob ELSE job[q]
        BY <1>3 DEF CheckThere, Types
    <2>6. IsJob(job'[p])
        BY <2>4, <2>5
    <2> QED BY <1>3, <2>1, <2>3, <2>5, <2>6, TypesStep DEF CheckThere, Types
<1>4. CASE CheckMissing(p)
    <2> DEFINE m == Create(Memory(p, <<>>))
               j == [NoJob EXCEPT !.at_risk = Fpr]
    <2>1. m \in Memories
        BY EmptyFile, MemoryTypes, CreateTypes
    <2>2. m.t \in Seq(Acts) /\ m.c \in Caches
        BY <2>1, MemoryFields
    <2>3. /\ todo' = [todo EXCEPT ![p] = m.t \o Unlocked]
          /\ cache' = [cache EXCEPT ![p] = m.c]
          /\ job' = [job EXCEPT ![p] = j]
        BY <1>4 DEF CheckMissing
    <2>4. Unlocked \in Seq(Acts)
        BY ActTypes DEF Unlocked
    <2>5. j \in Jobs({want})
        BY NoJobTypes DEF Jobs
    <2> HIDE DEF m, j
    <2>6. IsJob(j)
        BY <2>5 DEF Jobs, IsJob
    <2>7. todo' \in [Proc -> Seq(Acts)] /\ cache' \in [Proc -> Caches]
        BY <2>2, <2>3, <2>4 DEF Types
    <2>8. DOMAIN job' = Proc /\ \A q \in Proc : job'[q] = IF q = p THEN j ELSE job[q]
        BY <2>3 DEF Types
    <2>9. IsJob(job'[p])
        BY <2>6, <2>8
    <2>10. file' = <<>> /\ file' \in Seq(Records) /\ file' # Absent
        BY <1>4, EmptyFile DEF CheckMissing
    <2>11. Goto(p, "busy") /\ "busy" \in Places
        BY <1>0, <1>4 DEF CheckMissing
    <2>12. /\ lock' \in Proc \cup {NoProc} /\ table' \in [Proc -> Nat]
           /\ hurt' \subseteq Fpr /\ due' \in BOOLEAN /\ ops' \in 0 .. MaxOps
        BY <1>4 DEF CheckMissing, Types
    <2> QED BY <2>7, <2>8, <2>9, <2>10, <2>11, <2>12, TypesStep
<1> QED BY <1>1, <1>2, <1>3, <1>4

LEMMA TypesDisk ==
  ASSUME Types, NEW p \in Proc, Disk(p)
  PROVE  Types'
<1> DEFINE d == Head(todo[p])
<1>1. pc[p] = "busy" /\ todo[p] # <<>> /\ todo[p] \in Seq(Acts) /\ file \in Seq(Records)
    BY DEF Disk, Types
<1>2. d \in Acts /\ Tail(todo[p]) \in Seq(Acts)
    BY <1>1
<1>3. todo' \in [Proc -> Seq(Acts)]
    BY <1>2 DEF Disk, Types
<1>4. file' \in Seq(Records)
    <2>1. CASE d.call = "put" /\ file' = Written(file, d.no, d.rec)
        <3>1. d.no \in Nat /\ d.rec \in Records
            BY <1>2, <2>1 DEF Acts
        <3> QED BY <1>1, <2>1, <3>1, WrittenFacts
    <2>2. CASE file' = file
        BY <1>1, <2>2
    <2> QED BY <2>1, <2>2 DEF Disk
<1>5. lock' \in Proc \cup {NoProc}
    BY DEF Disk, Types
<1>6. Goto(p, "busy") /\ "busy" \in Places
    BY <1>1 DEF Disk, Goto, Places, Types
<1>7. IsJob(job'[p])
    BY <1>1 DEF Disk, Types
<1>8. file' # Absent
    BY <1>4, AbsentAssumption
<1>9. /\ DOMAIN job' = Proc /\ \A q \in Proc : job'[q] = job[q]
      /\ cache' \in [Proc -> Caches] /\ table' \in [Proc -> Nat]
      /\ hurt' \subseteq Fpr /\ due' \in BOOLEAN /\ ops' \in 0 .. MaxOps
    BY DEF Disk, Types
<1> QED BY <1>3, <1>4, <1>5, <1>6, <1>7, <1>8, <1>9, TypesStep

LEMMA TypesDone ==
  ASSUME Types, NEW p \in Proc, Done(p)
  PROVE  Types'
<1>1. pc[p] = "busy" /\ IsJob(job[p]) /\ file # Absent
    BY DEF Done, Types
<1>2. due' \in BOOLEAN
    BY <1>1 DEF Done, IsJob
<1>3. DOMAIN job' = Proc /\ \A q \in Proc \ {p} : job'[q] = job[q]
    BY DEF Done, Types
<1>4. Goto(p, "idle") /\ "idle" \in Places
    BY DEF Done, Places
<1> QED BY <1>1, <1>2, <1>3, <1>4, TypesStep DEF Done, Types

LEMMA TypesGone ==
  ASSUME Types, NEW p \in Proc, Gone(p), hurt' \subseteq Fpr, due' \in BOOLEAN
  PROVE  Types'
<1>1. <<>> \in Caches /\ <<>> \in Seq(Acts)
    BY Sizes DEF Caches
<1>2. /\ todo' \in [Proc -> Seq(Acts)]
      /\ cache' \in [Proc -> Caches] /\ table' \in [Proc -> Nat]
      /\ DOMAIN job' = Proc /\ \A q \in Proc \ {p} : job'[q] = job[q]
      /\ lock' \in Proc \cup {NoProc}
    BY <1>1 DEF Gone, Types
<1>3. Goto(p, "off") /\ "off" \in Places /\ file' = file /\ ops' \in 0 .. MaxOps
    BY DEF Gone, Places, Types
<1> QED BY <1>2, <1>3, TypesStep

LEMMA TypesNext == Types /\ [Next]_vars => Types'
<1> SUFFICES ASSUME Types, [Next]_vars PROVE Types'
    OBVIOUS
<1>1. CASE UNCHANGED vars
    BY <1>1 DEF vars, Types, IsJob
<1>2. CASE Next
    <2>1. PICK p \in Proc :
            \/ Stat(p) \/ CreateLock(p) \/ CheckThere(p) \/ CheckMissing(p)
            \/ SetOwnertrust(p) \/ ClearOwnertrust(p) \/ ImportOwnertrust(p)
            \/ Validate(p)
            \/ Disk(p) \/ Done(p) \/ Exit(p) \/ HalfDone(p)
        BY <1>2 DEF Next
    <2>2. CASE Exit(p)
        <3>1. Gone(p) /\ hurt' = hurt /\ due' = due
            BY <2>2 DEF Exit
        <3> QED BY <3>1, TypesGone DEF Types
    <2>3. CASE HalfDone(p)
        <3>1. Gone(p) /\ hurt' = hurt \cup job[p].at_risk /\ due' = job[p].cut /\ pc[p] = "busy"
            BY <2>3 DEF HalfDone
        <3>2. IsJob(job[p]) /\ hurt \subseteq Fpr
            BY <3>1 DEF Types
        <3>3. hurt' \subseteq Fpr /\ due' \in BOOLEAN
            BY <3>1, <3>2 DEF IsJob
        <3> QED BY <3>1, <3>3, TypesGone
    <2> QED BY <2>1, <2>2, <2>3, TypesOwnertrust, TypesValidate, TypesStart, TypesDisk, TypesDone
<1> QED BY <1>1, <1>2

LEMMA TypesAlways == Spec => []Types
<1>1. Init => Types
    BY TypesInit
<1>2. Types /\ [Next]_vars => Types'
    BY TypesNext
<1> QED BY <1>1, <1>2, PTL DEF Spec

(* Every variable has its type, and no cache ever holds more entries than  *)
(* it may: room is made before a record is put into a full one.            *)
THEOREM TdbioTypes == Spec => []TypeOK
<1>1. Types => TypeOK
    BY DEF Types, TypeOK, Places, Caches
<1> QED BY <1>1, TypesAlways, PTL

-----------------------------------------------------------------------------
(* The version record, number 0: what the writes to come leave of it.      *)
(* P is what the version records to be written have in common.             *)
Zero(a) == a.call = "put" /\ a.no = 0
Zeros(t, P) == \A i \in 1 .. Len(t) : Zero(t[i]) => t[i].rec \in P
Ends(f, t, r) ==
  \/ \E i \in 1 .. Len(t) : /\ Zero(t[i]) /\ t[i].rec = r
                            /\ \A j \in 1 .. Len(t) : j > i => ~Zero(t[j])
  \/ (\A i \in 1 .. Len(t) : ~Zero(t[i])) /\ f # <<>> /\ f[1] = r
Opens(f, t) ==
  f = <<>> => \A i \in 1 .. Len(t) : t[i].call = "put" => \E j \in 1 .. i : Zero(t[j])
Track(f0, P, f, t) ==
  f # <<>> /\ f[1] \in VerRecords /\ Ends(f0, t, f[1]) /\ Opens(f0, t) /\ Zeros(t, P)

LEMMA TrackOther ==
  ASSUME NEW f0, NEW P, NEW f, NEW t \in Seq(Acts), Track(f0, P, f, t),
         NEW a \in Acts, ~Zero(a), NEW g, g # <<>>, g[1] = f[1]
  PROVE  Track(f0, P, g, Append(t, a))
<1> DEFINE u == Append(t, a)
           N == Len(t)
<1>1. N \in Nat /\ Len(u) = N + 1 /\ u[N + 1] = a /\ \A i \in 1 .. N : u[i] = t[i]
    OBVIOUS
<1>2. 1 .. N + 1 = 1 .. N \cup {N + 1}
    BY <1>1
<1> HIDE DEF u, N
<1>3. Ends(f0, t, f[1]) /\ Opens(f0, t) /\ Zeros(t, P)
    BY DEF Track
<1>4. Zeros(u, P)
    BY <1>1, <1>2, <1>3 DEF Zeros, N
<1>5. Ends(f0, u, f[1])
    <2>1. CASE \E i \in 1 .. N : /\ Zero(t[i]) /\ t[i].rec = f[1]
                                 /\ \A j \in 1 .. N : j > i => ~Zero(t[j])
        <3>1. PICK i \in 1 .. N : /\ Zero(t[i]) /\ t[i].rec = f[1]
                                  /\ \A j \in 1 .. N : j > i => ~Zero(t[j])
            BY <2>1
        <3>2. i \in 1 .. N + 1 /\ Zero(u[i]) /\ u[i].rec = f[1]
            BY <1>1, <3>1
        <3>3. \A j \in 1 .. N + 1 : j > i => ~Zero(u[j])
            BY <1>1, <1>2, <3>1
        <3> QED BY <1>1, <3>2, <3>3 DEF Ends
    <2>2. CASE (\A i \in 1 .. N : ~Zero(t[i])) /\ f0 # <<>> /\ f0[1] = f[1]
        <3>1. \A i \in 1 .. N + 1 : ~Zero(u[i])
            BY <1>1, <1>2, <2>2
        <3> QED BY <1>1, <2>2, <3>1 DEF Ends
    <2> QED BY <1>3, <2>1, <2>2 DEF Ends, N
<1>6. Opens(f0, u)
    <2> SUFFICES ASSUME f0 = <<>>, NEW i \in 1 .. N + 1, u[i].call = "put"
                 PROVE  \E j \in 1 .. i : Zero(u[j])
        BY <1>1 DEF Opens
    <2>1. PICK l \in 1 .. N : Zero(t[l])
        BY <1>3 DEF Ends, N
    <2>2. CASE i = N + 1
        BY <1>1, <2>1, <2>2
    <2>3. CASE i \in 1 .. N
        <3>1. PICK j \in 1 .. i : Zero(t[j])
            BY <1>1, <1>3, <2>3 DEF Opens, N
        <3>2. j \in 1 .. N
            BY <1>1, <2>3
        <3> QED BY <1>1, <3>1, <3>2
    <2> QED BY <1>2, <2>2, <2>3
<1> QED BY <1>4, <1>5, <1>6 DEF Track, u

LEMMA TrackZero ==
  ASSUME NEW f0, NEW P \in SUBSET VerRecords, NEW t \in Seq(Acts), Zeros(t, P),
         f0 = <<>> => \/ \A i \in 1 .. Len(t) : t[i].call # "put"
                      \/ Opens(f0, t),
         NEW a \in Acts, Zero(a), a.rec \in P, NEW g, g # <<>>, g[1] = a.rec
  PROVE  Track(f0, P, g, Append(t, a))
<1> DEFINE u == Append(t, a)
           N == Len(t)
<1>1. N \in Nat /\ Len(u) = N + 1 /\ u[N + 1] = a /\ \A i \in 1 .. N : u[i] = t[i]
    OBVIOUS
<1>2. 1 .. N + 1 = 1 .. N \cup {N + 1}
    BY <1>1
<1> HIDE DEF u, N
<1>3. Zeros(u, P)
    BY <1>1, <1>2 DEF Zeros, N
<1>4. Ends(f0, u, g[1])
    <2>1. N + 1 \in 1 .. N + 1 /\ \A j \in 1 .. N + 1 : ~(j > N + 1)
        BY <1>1
    <2> QED BY <1>1, <2>1 DEF Ends
<1>5. Opens(f0, u)
    <2> SUFFICES ASSUME f0 = <<>>, NEW i \in 1 .. N + 1, u[i].call = "put"
                 PROVE  \E j \in 1 .. i : Zero(u[j])
        BY <1>1 DEF Opens
    <2>1. CASE i = N + 1
        <3>1. i \in 1 .. i /\ Zero(u[i])
            BY <1>1, <2>1
        <3> QED BY <3>1
    <2>2. CASE i \in 1 .. N
        <3>1. u[i] = t[i] /\ Opens(f0, t)
            BY <1>1, <2>2 DEF N
        <3>2. PICK j \in 1 .. i : Zero(t[j])
            BY <2>2, <3>1 DEF Opens, N
        <3>3. j \in 1 .. N
            BY <1>1, <2>2
        <3> QED BY <1>1, <3>2, <3>3
    <2> QED BY <1>2, <2>1, <2>2
<1>6. g[1] \in VerRecords
    OBVIOUS
<1> QED BY <1>3, <1>4, <1>5, <1>6 DEF Track, u

(* The file g that a write of record r as number n leaves of file f begins   *)
(* with r when n is 0, and as f did otherwise.                             *)
BeginsRight(f, n, r, g) ==
  /\ g # <<>>
  /\ n = 0 => g[1] = r
  /\ n # 0 /\ f # <<>> => g[1] = f[1]

(* The first record of the file when one is written.                       *)
LEMMA WrittenFirst ==
  ASSUME NEW f \in Seq(Records), NEW n \in Nat, NEW r \in Records
  PROVE  BeginsRight(f, n, r, Written(f, n, r))
<1> DEFINE g == Reaching(f, n)
           h == Written(f, n, r)
<1>1. g \in Seq(Records) /\ n < Len(g) /\ \A j \in 1 .. Len(f) : g[j] = f[j]
    BY ReachingFacts
<1>2. h = [g EXCEPT ![n + 1] = r]
    BY DEF Written
<1> HIDE DEF g, h
<1>3. Len(g) \in Nat /\ DOMAIN g = 1 .. Len(g) /\ n + 1 \in 1 .. Len(g) /\ 1 \in 1 .. Len(g)
    BY <1>1
<1>4. h \in Seq(Records) /\ Len(h) = Len(g)
    BY <1>1, <1>2, <1>3
<1>5. h # <<>>
    BY <1>3, <1>4
<1>6. n = 0 => h[1] = r
    BY <1>2, <1>3
<1>7. n # 0 => n + 1 # 1
    OBVIOUS
<1>8. n # 0 => h[1] = g[1]
    BY <1>2, <1>3, <1>7
<1>9. f # <<>> => g[1] = f[1]
    <2>1. f # <<>> => 1 \in 1 .. Len(f)
        OBVIOUS
    <2> QED BY <1>1, <2>1
<1>10. n # 0 /\ f # <<>> => h[1] = f[1]
    BY <1>8, <1>9
<1> QED BY <1>5, <1>6, <1>10 DEF h, BeginsRight

(* A record is written back.                                               *)
LEMMA SavedTracks ==
  ASSUME NEW f0, NEW P \in SUBSET VerRecords, NEW m \in Memories,
         Track(f0, P, m.f, m.t), NEW e \in Entries, e.no = 0 => e.rec \in P
  PROVE  /\ Track(f0, P, Saved(m, e).f, Saved(m, e).t)
         /\ Saved(m, e).f[1] = IF e.no = 0 THEN e.rec ELSE m.f[1]
<1> DEFINE a == [call |-> "put", no |-> e.no, rec |-> e.rec]
           g == Written(m.f, e.no, e.rec)
<1>1. Saved(m, e).f = g /\ Saved(m, e).t = Append(m.t, a)
    BY SavedTypes
<1>2. e.no \in Nat /\ e.rec \in Records /\ m.f \in Seq(Records) /\ m.t \in Seq(Acts)
    BY MemoryFields DEF Entries
<1>3. a \in Acts /\ (Zero(a) <=> e.no = 0) /\ a.rec = e.rec
    BY <1>2, ActTypes DEF Zero
<1>0. BeginsRight(m.f, e.no, e.rec, g)
    BY <1>2, WrittenFirst
<1> HIDE DEF a, g
<1>4. /\ g # <<>> /\ (e.no = 0 => g[1] = e.rec)
      /\ e.no # 0 /\ m.f # <<>> => g[1] = m.f[1]
    BY <1>0 DEF BeginsRight
<1>5. g # <<>> /\ m.f # <<>>
    BY <1>4 DEF Track
<1>6. CASE e.no = 0
    <2>1. g[1] = e.rec
        BY <1>4, <1>6
    <2>2. Zeros(m.t, P) /\ Opens(f0, m.t)
        BY DEF Track
    <2>3. Track(f0, P, g, Append(m.t, a))
        BY <1>2, <1>3, <1>5, <1>6, <2>1, <2>2, TrackZero
    <2> QED BY <1>1, <1>6, <2>1, <2>3
<1>7. CASE e.no # 0
    <2>2. g[1] = m.f[1]
        BY <1>4, <1>5, <1>7
    <2>3. Track(f0, P, g, Append(m.t, a))
        BY <1>2, <1>3, <1>5, <1>7, <2>2, TrackOther
    <2> QED BY <1>1, <1>7, <2>2, <2>3
<1> QED BY <1>6, <1>7

LEMMA ActTracks ==
  ASSUME NEW f0, NEW P, NEW m \in Memories, Track(f0, P, m.f, m.t), NEW a \in {Lock, Unlock}
  PROVE  Track(f0, P, m.f, Append(m.t, a))
<1>1. a \in Acts /\ ~Zero(a)
    BY ActTypes DEF Zero, Lock, Unlock
<1>2. m.t \in Seq(Acts) /\ m.f # <<>>
    BY MemoryFields DEF Track
<1> QED BY <1>1, <1>2, TrackOther

(* The last steps of a write-back leave the file as it is.                 *)
LEMMA UnlockingTypes ==
  ASSUME NEW w \in Memories, NEW release \in BOOLEAN
  PROVE  LET v == Unlocking(w, release)
         IN  /\ v \in Memories /\ v.f = w.f /\ v.c = w.c /\ v.ok = w.ok
             /\ v.t = IF release THEN Append(w.t, Unlock) ELSE w.t
<1> DEFINE t == IF release THEN Append(w.t, Unlock) ELSE w.t
           l == ~release
<1>1. t \in Seq(Acts) /\ l \in BOOLEAN
    BY MemoryFields, ActTypes
<1> HIDE DEF t, l
<1>2. LET v == [w EXCEPT !.t = t, !.locked = l]
      IN  v \in Memories /\ v.f = w.f /\ v.c = w.c /\ v.ok = w.ok /\ v.t = t
    BY <1>1 DEF Memories
<1>3. Unlocking(w, release) = [w EXCEPT !.t = t, !.locked = l]
    BY DEF Unlocking, t, l, Memories
<1> QED BY <1>2, <1>3 DEF t

Savable(c, S, P) ==
  \A i \in S : /\ i \in 1 .. Len(c) /\ c[i].used
               /\ c[i].no = 0 => c[i].rec \in P
Lands(m, S, f) ==
  /\ \A i \in S : m.c[i].no = 0 => f[1] = m.c[i].rec
  /\ (\A i \in S : m.c[i].no # 0) => f[1] = m.f[1]

LEMMA WriteBackTracks ==
  ASSUME NEW f0, NEW P \in SUBSET VerRecords, NEW m \in Memories, Track(f0, P, m.f, m.t),
         NEW S, Once(m.c, 0), NEW release \in BOOLEAN,
         Savable(m.c, S, P)
  PROVE  LET w == WriteBack(m, S, release)
         IN  Track(f0, P, w.f, w.t) /\ Lands(m, S, w.f)
<1> DEFINE Wrote(w, n) ==
             /\ \A i \in S : i <= n /\ m.c[i].no = 0 => w.f[1] = m.c[i].rec
             /\ (\A i \in S : i <= n => m.c[i].no # 0) => w.f[1] = m.f[1]
           H == [n \in Nat |-> {w \in Memories : Track(f0, P, w.f, w.t) /\ Wrote(w, n)}]
           N == Len(m.c)
<1>1. PICK g : SavingSteps(m, S, release, g)
    BY WriteBackRuns
<1>2. N \in Nat /\ \A i \in 1 .. N : m.c[i] \in Entries
    BY MemoryFields
<1>3. g[1 .. 0] \in H[0]
    <2> DEFINE w == Locked(m)
    <2>1. w \in Memories
        BY LockedTypes
    <2>2. w.f = m.f /\ Track(f0, P, w.f, w.t)
        <3>1. CASE m.locked
            BY <3>1 DEF Locked
        <3>2. CASE ~m.locked
            <4>1. w = [m EXCEPT !.t = Append(m.t, Lock)]
                BY <3>2 DEF Locked, Memories
            <4>2. w.f = m.f /\ w.t = Append(m.t, Lock)
                BY <4>1 DEF Memories
            <4> HIDE DEF w
            <4> QED BY <4>2, ActTracks
        <3> QED BY <3>1, <3>2
    <2> HIDE DEF w
    <2>3. \A i \in S : ~(i <= 0)
        BY <1>2 DEF Savable
    <2>4. Wrote(w, 0)
        BY <2>2, <2>3
    <2>5. g[1 .. 0] = w
        BY <1>1 DEF SavingSteps, w
    <2> QED BY <2>1, <2>2, <2>4, <2>5
<1>4. ASSUME NEW n \in Nat, n + 1 <= N, g[1 .. n] \in H[n]
      PROVE  g[1 .. n + 1] \in H[n + 1]
    <2> DEFINE w == g[1 .. n]
               e == m.c[n + 1]
    <2>1. w \in Memories /\ Track(f0, P, w.f, w.t) /\ Wrote(w, n)
        BY <1>4
    <2>2. g[1 .. n + 1] = IF n + 1 \in S THEN Saved(w, e) ELSE w
        BY <1>1, <1>4 DEF SavingSteps, Saving
    <2>3. \A i \in S : i <= n + 1 <=> i <= n \/ i = n + 1
        BY <1>2 DEF Savable
    <2>4. CASE n + 1 \notin S
        <3>1. Wrote(w, n + 1)
            BY <2>1, <2>3, <2>4
        <3> QED BY <2>1, <2>2, <2>4, <3>1
    <2>5. CASE n + 1 \in S
        <3> DEFINE v == Saved(w, e)
        <3>1. e \in Entries /\ (e.no = 0 => e.rec \in P) /\ e.used
            BY <1>2, <2>5 DEF Savable
        <3> HIDE DEF w, e
        <3>2. v \in Memories /\ Track(f0, P, v.f, v.t)
              /\ v.f[1] = IF e.no = 0 THEN e.rec ELSE w.f[1]
            BY <2>1, <3>1, SavedTypes, SavedTracks
        <3> HIDE DEF v
        <3>3. ASSUME NEW i \in S, m.c[i].no = 0, e.no = 0 PROVE i = n + 1
            BY <2>5, <3>3 DEF Once, At, Savable, e
        <3>4. Wrote(v, n + 1)
            <4>1. CASE e.no = 0
                <5>1. \A i \in S : i <= n + 1 /\ m.c[i].no = 0 => v.f[1] = m.c[i].rec
                    BY <3>2, <3>3, <4>1 DEF e
                <5>2. ~(\A i \in S : i <= n + 1 => m.c[i].no # 0)
                    BY <2>3, <2>5, <4>1 DEF e
                <5> QED BY <5>1, <5>2
            <4>2. CASE e.no # 0
                <5>1. v.f[1] = w.f[1]
                    BY <3>2, <4>2
                <5>2. \A i \in S : i <= n + 1 /\ m.c[i].no = 0 => i <= n
                    BY <2>3, <4>2 DEF e
                <5>3. (\A i \in S : i <= n + 1 => m.c[i].no # 0)
                        => \A i \in S : i <= n => m.c[i].no # 0
                    BY <2>3
                <5> QED BY <2>1, <5>1, <5>2, <5>3
            <4> QED BY <4>1, <4>2
        <3>5. g[1 .. n + 1] = v
            BY <2>2, <2>5 DEF v
        <3> QED BY <3>2, <3>4, <3>5
    <2> QED BY <2>4, <2>5
<1>5. g[1 .. N] \in H[N]
    <2> HIDE DEF H, N
    <2> QED BY <1>2, <1>3, <1>4, StaysIn
<1> DEFINE w == g[1 .. N]
<1>6. w \in Memories /\ Track(f0, P, w.f, w.t) /\ Wrote(w, N)
    BY <1>2, <1>5
<1>7. WriteBack(m, S, release) = Unlocking(w, release)
    BY <1>1 DEF SavingSteps
<1> HIDE DEF w
<1> DEFINE v == Unlocking(w, release)
<1>8. v.f = w.f /\ v.t = IF release THEN Append(w.t, Unlock) ELSE w.t
    BY <1>6, UnlockingTypes
<1>9. Track(f0, P, v.f, v.t)
    <2>1. CASE release
        BY <1>6, <1>8, <2>1, ActTracks
    <2>2. CASE ~release
        BY <1>6, <1>8, <2>2
    <2> QED BY <2>1, <2>2
<1>10. \A i \in S : i <= N
    BY <1>2 DEF Savable
<1> HIDE DEF v
<1>11. Lands(m, S, v.f)
    BY <1>6, <1>8, <1>10 DEF Lands
<1> QED BY <1>7, <1>9, <1>11 DEF v

-----------------------------------------------------------------------------
(* The memories in which the cached version record, when it is clean, is   *)
(* the one that the file will have, and when it is dirty is one of P.      *)
Agrees(P, f, e) ==
  e.rec \in VerRecords /\ (e.dirty => e.rec \in P) /\ (~e.dirty => e.rec = f[1])
Agreed(P, f, c) == Once(c, 0) /\ \A i \in At(c, 0) : Agrees(P, f, c[i])
Zeroed(f0, P) == {m \in Memories : Track(f0, P, m.f, m.t) /\ Agreed(P, m.f, m.c)}
Clean0(c) == \A i \in At(c, 0) : ~c[i].dirty

LEMMA Retracked ==
  ASSUME NEW f0, NEW P, NEW f, NEW t, Track(f0, P, f, t), NEW g, g # <<>>, g[1] = f[1]
  PROVE  Track(f0, P, g, t)
BY DEF Track

LEMMA ReachingFirst ==
  ASSUME NEW f \in Seq(Records), f # <<>>, NEW n \in Nat
  PROVE  Reaching(f, n) # <<>> /\ Reaching(f, n)[1] = f[1]
<1>1. 1 \in 1 .. Len(f) /\ Len(f) \in Nat
    OBVIOUS
<1>2. n < Len(Reaching(f, n)) /\ Reaching(f, n) \in Seq(Records)
      /\ Reaching(f, n)[1] = f[1]
    BY <1>1, ReachingFacts
<1>3. Reaching(f, n) # <<>>
    BY <1>2
<1> QED BY <1>2, <1>3

LEMMA ReadZero ==
  ASSUME NEW f0, NEW P, NEW m \in Zeroed(f0, P)
  PROVE  /\ Read(m, 0) \in VerRecords /\ Read(m, 0) # Absent /\ Read(m, 0).type = "ver"
         /\ \A i \in At(m.c, 0) : Read(m, 0) = m.c[i].rec
         /\ At(m.c, 0) = {} => Read(m, 0) = m.f[1]
<1>1. /\ m.c \in Seq(Entries) /\ m.f \in Seq(Records) /\ Len(m.f) \in Nat
      /\ m.f # <<>> /\ m.f[1] \in VerRecords /\ Agreed(P, m.f, m.c)
    BY MemoryFields DEF Zeroed, Track
<1>2. Read(m, 0) = IF In(m.c, 0) # 0 THEN m.c[In(m.c, 0)].rec ELSE m.f[1]
    <2>1. 0 < Len(m.f) /\ 0 + 1 = 1
        BY <1>1
    <2> QED BY <2>1 DEF Read
<1>3. \A i \in At(m.c, 0) : Read(m, 0) = m.c[i].rec
    <2> SUFFICES ASSUME NEW i \in At(m.c, 0) PROVE Read(m, 0) = m.c[i].rec
        OBVIOUS
    <2>1. In(m.c, 0) # 0 /\ In(m.c, 0) \in At(m.c, 0)
        BY <1>1, InIsAt
    <2>2. In(m.c, 0) = i
        BY <1>1, <2>1 DEF Agreed, Once
    <2> QED BY <1>2, <2>1, <2>2
<1>4. At(m.c, 0) = {} => Read(m, 0) = m.f[1]
    BY <1>1, <1>2, InIsAt
<1>5. Read(m, 0) \in VerRecords
    <2>1. \A i \in At(m.c, 0) : m.c[i].rec \in VerRecords
        BY <1>1 DEF Agreed, Agrees
    <2> QED BY <1>1, <1>3, <1>4, <2>1
<1>6. Read(m, 0) # Absent /\ Read(m, 0).type = "ver"
    BY <1>5, KindsAreRecords, AbsentAssumption DEF VerRecords
<1> QED BY <1>3, <1>4, <1>5, <1>6

(* Dropping entries, some of which are written back first.                 *)
LEMMA DroppedAgrees ==
  ASSUME NEW P, NEW f, NEW c \in Caches, Agreed(P, f, c), NEW S
  PROVE  Agreed(P, f, Without(c, S))
<1> DEFINE d == Without(c, S)
<1>1. Len(d) = Len(c) /\ \A i \in 1 .. Len(c) :
              /\ d[i].used <=> c[i].used /\ i \notin S
              /\ d[i].dirty = c[i].dirty
              /\ d[i].no = c[i].no /\ d[i].rec = c[i].rec
    BY WithoutFacts
<1> HIDE DEF d
<1>2. \A i \in At(d, 0) : /\ i \in At(c, 0)
                          /\ d[i].dirty = c[i].dirty /\ d[i].rec = c[i].rec
    BY <1>1 DEF At
<1>3. Once(d, 0)
    BY <1>2 DEF Agreed, Once
<1>4. \A i \in At(d, 0) : Agrees(P, f, d[i])
    BY <1>2 DEF Agreed, Agrees
<1>5. Agreed(P, f, d)
    BY <1>3, <1>4 DEF Agreed
<1> QED BY <1>5 DEF d

LEMMA DroppedDirty ==
  ASSUME NEW f0, NEW P \in SUBSET VerRecords, NEW m \in Zeroed(f0, P), NEW r \in BOOLEAN,
         NEW S, S \subseteq DirtyIn(m.c)
  PROVE  LET w == WriteBack(m, S, r)
         IN  /\ Track(f0, P, w.f, w.t)
             /\ \A i \in At(m.c, 0) : w.f[1] = IF i \in S THEN m.c[i].rec ELSE m.f[1]
             /\ At(m.c, 0) = {} => w.f[1] = m.f[1]
             /\ Agreed(P, w.f, Without(m.c, S))
<1> DEFINE w == WriteBack(m, S, r)
           c == m.c
           d == Without(c, S)
<1>1. m \in Memories /\ c \in Caches /\ Agreed(P, m.f, c) /\ Track(f0, P, m.f, m.t)
    BY MemoryFields DEF Zeroed
<1>2. Once(c, 0) /\ \A i \in S : /\ i \in 1 .. Len(c) /\ c[i].used
                                 /\ c[i].no = 0 => i \in At(c, 0) /\ c[i].rec \in P
    <2> SUFFICES ASSUME NEW i \in S
                 PROVE  /\ i \in 1 .. Len(c) /\ c[i].used
                        /\ c[i].no = 0 => i \in At(c, 0) /\ c[i].rec \in P
        BY <1>1 DEF Agreed
    <2>1. i \in 1 .. Len(c) /\ c[i].used /\ c[i].dirty
        BY DEF DirtyIn
    <2>2. c[i].no = 0 => i \in At(c, 0)
        BY <2>1 DEF At
    <2> QED BY <1>1, <2>1, <2>2 DEF Agreed, Agrees
<1>3. /\ Track(f0, P, w.f, w.t)
      /\ \A i \in S : c[i].no = 0 => w.f[1] = c[i].rec
      /\ (\A i \in S : c[i].no # 0) => w.f[1] = m.f[1]
    <2>1. Once(m.c, 0) /\ Savable(m.c, S, P)
        BY <1>2 DEF Savable
    <2>2. Track(f0, P, w.f, w.t) /\ Lands(m, S, w.f)
        BY <1>1, <2>1, WriteBackTracks
    <2> HIDE DEF w
    <2> QED BY <2>2 DEF Lands
<1>4. \A i \in At(c, 0) : w.f[1] = IF i \in S THEN c[i].rec ELSE m.f[1]
    <2> SUFFICES ASSUME NEW i \in At(c, 0)
                 PROVE  w.f[1] = IF i \in S THEN c[i].rec ELSE m.f[1]
        OBVIOUS
    <2>1. CASE i \in S
        BY <1>3, <2>1 DEF At
    <2>2. CASE i \notin S
        <3>1. \A j \in S : c[j].no # 0
            BY <1>2, <2>2 DEF Once
        <3> QED BY <1>3, <2>2, <3>1
    <2> QED BY <2>1, <2>2
<1>5. At(c, 0) = {} => w.f[1] = m.f[1]
    <2>1. At(c, 0) = {} => \A j \in S : c[j].no # 0
        BY <1>2
    <2> QED BY <1>3, <2>1
<1> HIDE DEF w
<1>6. Agreed(P, m.f, d)
    BY <1>1, DroppedAgrees
<1>7. \A i \in At(d, 0) : i \in At(c, 0) /\ i \notin S
    BY <1>1, WithoutFacts DEF At
<1> HIDE DEF d
<1>8. Agreed(P, w.f, d)
    <2>1. \A i \in At(d, 0) : w.f[1] = m.f[1]
        BY <1>4, <1>7
    <2> QED BY <1>6, <2>1 DEF Agreed, Agrees
<1> QED BY <1>3, <1>4, <1>5, <1>8 DEF w, d

LEMMA RoomyZeroed ==
  ASSUME NEW f0, NEW P \in SUBSET VerRecords, NEW m \in Zeroed(f0, P), NEW n \in Nat
  PROVE  Roomy(m, n) \in Zeroed(f0, P)
<1> DEFINE w == Roomy(m, n)
<1>1. m \in Memories /\ m.c \in Caches /\ m.c \in Seq(Entries)
      /\ Agreed(P, m.f, m.c) /\ Track(f0, P, m.f, m.t)
    BY MemoryFields DEF Zeroed
<1>2. /\ w \in Memories
      /\ \/ w = m
         \/ w.c = Without(m.c, OldClean(m.c)) /\ w.f = m.f /\ w.t = m.t
         \/ LET v == WriteBack(m, OldDirty(m.c), ~LockOnce)
            IN  w.c = Without(m.c, OldDirty(m.c)) /\ w.f = v.f /\ w.t = v.t
    BY <1>1, RoomyFacts
<1> HIDE DEF w
<1>3. CASE w.c = Without(m.c, OldClean(m.c)) /\ w.f = m.f /\ w.t = m.t
    BY <1>1, <1>2, <1>3, DroppedAgrees DEF Zeroed, w
<1>4. CASE LET v == WriteBack(m, OldDirty(m.c), ~LockOnce)
           IN  w.c = Without(m.c, OldDirty(m.c)) /\ w.f = v.f /\ w.t = v.t
    <2> DEFINE b == ~LockOnce
               S == OldDirty(m.c)
               v == WriteBack(m, S, b)
    <2>1. b \in BOOLEAN /\ S \subseteq DirtyIn(m.c)
        BY <1>1, OldFacts
    <2> HIDE DEF b, S
    <2>2. Track(f0, P, v.f, v.t) /\ Agreed(P, v.f, Without(m.c, S))
        BY <2>1, DroppedDirty
    <2>3. w.c = Without(m.c, S) /\ w.f = v.f /\ w.t = v.t
        BY <1>4 DEF S, b
    <2> HIDE DEF v
    <2> QED BY <1>2, <2>2, <2>3 DEF Zeroed, w
<1>5. CASE w = m
    BY <1>5 DEF w
<1> QED BY <1>2, <1>3, <1>4, <1>5

(* Another record is put in the cache, or a version record of P.           *)
LEMMA PutZeroed ==
  ASSUME NEW f0, NEW P \in SUBSET VerRecords, NEW m \in Zeroed(f0, P), NEW n \in Nat,
         NEW r \in Records, n = 0 => r \in P
  PROVE  /\ Put(m, n, r) \in Zeroed(f0, P)
         /\ n = 0 /\ m.ok => Read(Put(m, n, r), 0) = r
<1>1. m \in Memories
    BY DEF Zeroed
<1>2. CASE ~m.ok
    BY <1>2 DEF Put
<1>3. CASE m.ok
    <2> DEFINE w == Roomy(m, n)
               v == Put(m, n, r)
               d == Stored(w.c, n, r)
    <2>1. w \in Zeroed(f0, P)
        BY RoomyZeroed
    <2>2. Room(w.c, n)
        BY <1>1, RoomyFacts
    <2>3. v \in Memories /\ v.c = d /\ v.f = Reaching(w.f, n) /\ v.t = w.t
        BY <1>1, <1>3, PutTypes
    <2> HIDE DEF w, v
    <2>4. /\ w \in Memories /\ w.c \in Caches /\ w.f \in Seq(Records) /\ w.f # <<>>
          /\ Track(f0, P, w.f, w.t) /\ Agreed(P, w.f, w.c)
        BY <2>1, MemoryFields DEF Zeroed, Track
    <2>5. /\ Kept(w.c, d, n)
          /\ Once(w.c, n) => \E e \in Entries :
                               /\ Sole(d, n, e) /\ e.rec = r
                               /\ ~e.dirty => \E o \in Held(w.c, n) : ~o.dirty /\ o.rec = r
        BY <2>2, <2>4, StoredFacts
    <2> HIDE DEF d
    <2>6. v.f # <<>> /\ v.f[1] = w.f[1]
        BY <2>3, <2>4, ReachingFirst
    <2>7. Track(f0, P, v.f, v.t)
        BY <2>3, <2>4, <2>6, Retracked
    <2>8. Agreed(P, v.f, d)
        <3>1. CASE n # 0
            <4>1. Held(d, 0) = Held(w.c, 0) /\ (Once(w.c, 0) => Once(d, 0))
                BY <2>5, <3>1 DEF Kept
            <4>2. \A i \in At(d, 0) : \E j \in At(w.c, 0) : d[i] = w.c[j]
                BY <4>1 DEF Held
            <4>3. \A i \in At(d, 0) : Agrees(P, w.f, d[i])
                BY <2>4, <4>2 DEF Agreed
            <4>4. \A i \in At(d, 0) : Agrees(P, v.f, d[i])
                BY <2>6, <4>3 DEF Agrees
            <4> QED BY <2>4, <4>1, <4>4 DEF Agreed
        <3>2. CASE n = 0
            <4>1. PICK e \in Entries :
                    /\ Sole(d, 0, e) /\ e.rec = r
                    /\ ~e.dirty => \E o \in Held(w.c, 0) : ~o.dirty /\ o.rec = r
                BY <2>4, <2>5, <3>2 DEF Agreed
            <4>2. ~e.dirty => r = w.f[1]
                BY <2>4, <4>1 DEF Agreed, Agrees, Held
            <4>3. r \in VerRecords /\ r \in P
                BY <3>2
            <4>4. Agrees(P, v.f, e)
                BY <2>6, <4>1, <4>2, <4>3 DEF Agrees
            <4>5. \A i \in At(d, 0) : d[i] = e
                BY <4>1 DEF Sole, Held
            <4> QED BY <4>1, <4>4, <4>5 DEF Agreed, Sole
        <3> QED BY <3>1, <3>2
    <2>9. v \in Zeroed(f0, P)
        BY <2>3, <2>7, <2>8 DEF Zeroed
    <2>10. ASSUME n = 0 PROVE Read(v, 0) = r
        <3>1. PICK e \in Entries : Sole(d, 0, e) /\ e.rec = r
            BY <2>4, <2>5, <2>10 DEF Agreed
        <3>2. e \in Held(d, 0)
            BY <3>1 DEF Sole
        <3>3. PICK i \in At(d, 0) : d[i] = e
            BY <3>2 DEF Held
        <3> QED BY <2>3, <2>9, <3>1, <3>3, ReadZero
    <2> QED BY <2>9, <2>10 DEF v
<1> QED BY <1>2, <1>3

(* After tdbio_sync the cached version record is clean, and read as before.*)
LEMMA SyncZeroed ==
  ASSUME NEW f0, NEW P \in SUBSET VerRecords, NEW m \in Zeroed(f0, P)
  PROVE  /\ Sync(m) \in Zeroed(f0, P)
         /\ m.ok => Clean0(Sync(m).c)
         /\ Read(Sync(m), 0) = Read(m, 0)
<1>1. m \in Memories /\ m.c \in Caches /\ Agreed(P, m.f, m.c)
    BY MemoryFields DEF Zeroed
<1>2. CASE Sync(m) = m /\ (m.ok => DirtyIn(m.c) = {})
    BY <1>2 DEF Clean0, DirtyIn, At
<1>3. ASSUME NEW l \in BOOLEAN,
             LET w == WriteBack(m, DirtyIn(m.c), l)
             IN  /\ Sync(m).c = Cleaned(m.c) /\ Sync(m).f = w.f /\ Sync(m).t = w.t
                 /\ w \in Memories
      PROVE  /\ Sync(m) \in Zeroed(f0, P)
             /\ m.ok => Clean0(Sync(m).c)
             /\ Read(Sync(m), 0) = Read(m, 0)
    <2> DEFINE w == WriteBack(m, DirtyIn(m.c), l)
               c == m.c
               d == Cleaned(c)
               s == Sync(m)
    <2>1. s \in Memories /\ s.c = d /\ s.f = w.f /\ s.t = w.t
        BY <1>1, <1>3, SyncTypes
    <2>2. /\ Track(f0, P, w.f, w.t)
          /\ \A i \in At(c, 0) : w.f[1] = IF i \in DirtyIn(c) THEN c[i].rec ELSE m.f[1]
          /\ At(c, 0) = {} => w.f[1] = m.f[1]
        BY DroppedDirty
    <2>3. Len(d) = Len(c) /\ \A i \in 1 .. Len(c) :
              /\ d[i].used = c[i].used /\ ~d[i].dirty
              /\ d[i].no = c[i].no /\ d[i].rec = c[i].rec
        BY <1>1, CleanedFacts
    <2> HIDE DEF w, d, s
    <2>4. At(d, 0) = At(c, 0) /\ \A i \in At(c, 0) : ~d[i].dirty /\ d[i].rec = c[i].rec
        BY <2>3 DEF At
    <2>5. \A i \in At(c, 0) : w.f[1] = c[i].rec /\ c[i].rec \in VerRecords
        <3> SUFFICES ASSUME NEW i \in At(c, 0)
                     PROVE  w.f[1] = c[i].rec /\ c[i].rec \in VerRecords
            OBVIOUS
        <3>1. Agrees(P, m.f, c[i])
            BY <1>1 DEF Agreed
        <3>2. i \in DirtyIn(c) <=> c[i].dirty
            BY DEF At, DirtyIn
        <3> QED BY <2>2, <3>1, <3>2 DEF Agrees
    <2>6. Agreed(P, w.f, d)
        <3>1. Once(d, 0)
            BY <1>1, <2>4 DEF Agreed, Once
        <3>2. \A i \in At(d, 0) : Agrees(P, w.f, d[i])
            BY <2>4, <2>5 DEF Agrees
        <3> QED BY <3>1, <3>2 DEF Agreed
    <2>7. s \in Zeroed(f0, P)
        BY <2>1, <2>2, <2>6 DEF Zeroed
    <2>8. Clean0(d)
        BY <2>4 DEF Clean0
    <2>9. Read(s, 0) = Read(m, 0)
        <3>1. CASE At(c, 0) = {}
            <4>1. Read(s, 0) = s.f[1]
                BY <2>1, <2>4, <2>7, <3>1, ReadZero
            <4>2. Read(m, 0) = m.f[1]
                BY <3>1, ReadZero
            <4> QED BY <2>1, <2>2, <3>1, <4>1, <4>2
        <3>2. CASE At(c, 0) # {}
            <4>1. PICK i \in At(c, 0) : TRUE
                BY <3>2
            <4>2. i \in At(s.c, 0) /\ s.c[i].rec = c[i].rec
                BY <2>1, <2>4, <4>1
            <4>3. Read(s, 0) = s.c[i].rec
                BY <2>7, <4>2, ReadZero
            <4>4. Read(m, 0) = c[i].rec
                BY <4>1, ReadZero
            <4> QED BY <4>2, <4>3, <4>4
        <3> QED BY <3>1, <3>2
    <2> QED BY <2>1, <2>7, <2>8, <2>9 DEF s
<1> QED BY <1>1, <1>2, <1>3, SyncTypes

-----------------------------------------------------------------------------
(* The operations keep the version record so.  An operation that succeeds  *)
(* leaves it clean; one that has changed an ownertrust, with a next check. *)
Takes(P, next) == P \in SUBSET VerRecords /\ \A tbl \in Nat : Ver(tbl, next) \in P
Finished(f0, P) == {m \in Zeroed(f0, P) : m.ok => Clean0(m.c)}
Scheduled(f0, P) ==
  {m \in Finished(f0, P) : m.ok /\ m.t # <<>> => m.f[1].next # 0}

LEMMA ZeroedSound ==
  ASSUME NEW f0, NEW P \in SUBSET VerRecords
  PROVE  Sound(Zeroed(f0, P), Nat \ {0})
<1> DEFINE N == Nat \ {0}
<1>1. ASSUME NEW m \in Zeroed(f0, P) PROVE Failed(m) \in Zeroed(f0, P)
    <2>1. m \in Memories
        BY DEF Zeroed
    <2> DEFINE w == Failed(m)
    <2>2. w \in Memories /\ w.c = m.c /\ w.f = m.f /\ w.t = m.t
        BY <2>1, FailedTypes
    <2> HIDE DEF w
    <2>3. w \in Zeroed(f0, P)
        BY <2>2 DEF Zeroed
    <2> QED BY <2>3 DEF w
<1>2. ASSUME NEW m \in Zeroed(f0, P), NEW n \in N, NEW r \in Records
      PROVE  Put(m, n, r) \in Zeroed(f0, P)
    <2>1. n \in Nat /\ n # 0
        OBVIOUS
    <2> QED BY <2>1, PutZeroed
<1>3. Steady(Zeroed(f0, P), N)
    <2>1. Zeroed(f0, P) \subseteq Memories /\ N \subseteq Nat
        BY DEF Zeroed
    <2> HIDE DEF N
    <2> QED BY <1>1, <1>2, <2>1, SyncZeroed DEF Steady
<1>4. ASSUME NEW m \in Zeroed(f0, P) PROVE Writable(m, N)
    <2>1. Read(m, 0).type = "ver"
        BY ReadZero
    <2>2. ASSUME NEW n \in Nat, n >= Len(m.f) PROVE n \in N
        <3>1. m.f # <<>> /\ Len(m.f) \in Nat /\ m.f \in Seq(Records)
            BY MemoryFields DEF Zeroed, Track
        <3>2. Len(m.f) # 0
            BY <3>1
        <3> QED BY <2>2, <3>1, <3>2
    <2>3. \A n \in Nat : \/ n \in N
                         \/ /\ ~Is(Read(m, n), "htbl") /\ ~Is(Read(m, n), "hlst")
                            /\ ~Is(Read(m, n), "trust") /\ ~Is(Read(m, n), "valid")
        BY <2>1 DEF Is
    <2> HIDE DEF N
    <2>4. N \subseteq Nat
        BY DEF N
    <2> QED BY <2>2, <2>3, <2>4 DEF Writable
<1> HIDE DEF N
<1>5. Sound(Zeroed(f0, P), N)
    BY <1>3, <1>4 DEF Sound
<1> QED BY <1>5 DEF N

LEMMA CleanReads ==
  ASSUME NEW f0, NEW P, NEW m \in Zeroed(f0, P), Clean0(m.c)
  PROVE  Read(m, 0) = m.f[1]
<1>1. CASE At(m.c, 0) = {}
    BY <1>1, ReadZero
<1>2. CASE At(m.c, 0) # {}
    <2>1. PICK i \in At(m.c, 0) : TRUE
        BY <1>2
    <2>2. Agrees(P, m.f, m.c[i]) /\ ~m.c[i].dirty
        BY <2>1 DEF Zeroed, Agreed, Clean0
    <2>3. m.c[i].rec = m.f[1]
        BY <2>2 DEF Agrees
    <2> QED BY <2>1, <2>3, ReadZero
<1> QED BY <1>1, <1>2

LEMMA ScheduleReads ==
  ASSUME NEW f0, NEW P, NEW next \in Nat, Takes(P, next), NEW m \in Zeroed(f0, P)
  PROVE  /\ Schedule(m, next) \in Finished(f0, P)
         /\ Schedule(m, next).ok => Read(Schedule(m, next), 0).next = next
<1> DEFINE tbl == Read(m, 0).tbl
           r == Ver(tbl, next)
           w == Put(m, 0, r)
           s == Sync(w)
<1>1. Is(Read(m, 0), "ver") /\ tbl \in Nat /\ P \in SUBSET VerRecords /\ m \in Memories
    BY ReadZero DEF Is, VerRecords, Takes, Zeroed
<1>2. r \in P /\ r \in Records /\ r.next = next
    BY <1>1, MadeRecords, KindsAreRecords DEF Takes, Ver
<1>3. Schedule(m, next) = s
    BY <1>1 DEF Schedule
<1> HIDE DEF tbl, r, s, w
<1>4. w \in Zeroed(f0, P) /\ (m.ok => Read(w, 0) = r)
    BY <1>1, <1>2, PutZeroed DEF w
<1>5. w \in Memories /\ w.ok = m.ok
    BY <1>1, <1>2, PutTypes DEF w
<1>6. s \in Zeroed(f0, P) /\ (w.ok => Clean0(s.c)) /\ Read(s, 0) = Read(w, 0) /\ s.ok = w.ok
    BY <1>1, <1>4, <1>5, SyncZeroed, SyncTypes DEF s
<1> QED BY <1>2, <1>3, <1>4, <1>5, <1>6 DEF Finished

LEMMA MarkedAndSynced ==
  ASSUME NEW f0, NEW P, Takes(P, 1), NEW m \in Zeroed(f0, P)
  PROVE  Sync(Mark(m)) \in Scheduled(f0, P)
<1> DEFINE w == Mark(m)
           s == Sync(w)
<1>1. w \in Zeroed(f0, P) /\ (w.ok => Read(w, 0).next = 1)
    <2>1. Is(Read(m, 0), "ver")
        BY ReadZero DEF Is
    <2>2. CASE Read(m, 0).next = 1
        BY <2>1, <2>2 DEF Mark
    <2>3. CASE Read(m, 0).next # 1
        <3>1. w = Schedule(m, 1)
            BY <2>3 DEF Mark
        <3> HIDE DEF w
        <3>2. 1 \in Nat
            OBVIOUS
        <3>3. /\ Schedule(m, 1) \in Finished(f0, P)
              /\ Schedule(m, 1).ok => Read(Schedule(m, 1), 0).next = 1
            BY <3>2, ScheduleReads
        <3> QED BY <3>1, <3>3 DEF Finished
    <2> QED BY <2>2, <2>3
<1> HIDE DEF w
<1>2. P \in SUBSET VerRecords /\ w \in Memories
    BY <1>1 DEF Takes, Zeroed
<1>3. s \in Zeroed(f0, P) /\ (w.ok => Clean0(s.c)) /\ Read(s, 0) = Read(w, 0) /\ s.ok = w.ok
    BY <1>1, <1>2, SyncZeroed, SyncTypes
<1> HIDE DEF s
<1>4. s.ok => s.f[1].next = 1
    BY <1>1, <1>3, CleanReads
<1>5. s \in Scheduled(f0, P)
    BY <1>3, <1>4 DEF Finished, Scheduled
<1> QED BY <1>5 DEF s, w

LEMMA FailedScheduled ==
  ASSUME NEW f0, NEW P \in SUBSET VerRecords, NEW m \in Zeroed(f0, P)
  PROVE  Failed(m) \in Scheduled(f0, P)
<1>1. Failed(m) \in Zeroed(f0, P)
    BY ZeroedSound DEF Sound, Steady
<1>2. ~Failed(m).ok
    BY FailedTypes DEF Zeroed
<1> QED BY <1>1, <1>2 DEF Finished, Scheduled

LEMMA UpdateOwnertrustMarks ==
  ASSUME NEW f0, NEW P, Takes(P, 1), NEW m \in Scheduled(f0, P),
         NEW k \in Fpr, NEW ot \in Nat
  PROVE  UpdateOwnertrust(m, k, ot) \in Scheduled(f0, P)
<1>1. m \in Zeroed(f0, P) /\ P \in SUBSET VerRecords
    BY DEF Scheduled, Finished, Takes
<1>2. CASE ~m.ok \/ Lookup(m, k) = Absent
    BY <1>1, <1>2, FailedScheduled DEF UpdateOwnertrust
<1>3. CASE ~(~m.ok \/ Lookup(m, k) = Absent)
    <2> DEFINE w == Do(m, SetOt(m, k, ot))
    <2>1. w \in Zeroed(f0, P)
        BY <1>1, <1>3, ZeroedSound, SetOtStays
    <2>2. UpdateOwnertrust(m, k, ot) = IF SetOt(m, k, ot) = <<>> THEN m ELSE Sync(Mark(w))
        BY <1>3 DEF UpdateOwnertrust
    <2> HIDE DEF w
    <2>3. Sync(Mark(w)) \in Scheduled(f0, P)
        BY <2>1, MarkedAndSynced
    <2> QED BY <2>2, <2>3
<1> QED BY <1>2, <1>3

LEMMA ClearOwnertrustsMarks ==
  ASSUME NEW f0, NEW P, Takes(P, 1), NEW m \in Scheduled(f0, P), NEW k \in Fpr
  PROVE  ClearOwnertrusts(m, k) \in Scheduled(f0, P)
<1>1. m \in Zeroed(f0, P) /\ P \in SUBSET VerRecords
    BY DEF Scheduled, Finished, Takes
<1>2. UpdateOwnertrust(m, k, 0) \in Scheduled(f0, P)
    BY UpdateOwnertrustMarks
<1>3. Failed(m) \in Scheduled(f0, P)
    BY <1>1, FailedScheduled
<1> QED BY <1>2, <1>3 DEF ClearOwnertrusts

LEMMA ImportEntriesMarks ==
  ASSUME NEW f0, NEW P, Takes(P, 1), NEW m \in Scheduled(f0, P), NEW entries \in Imports
  PROVE  ImportEntries(m, entries) \in Scheduled(f0, P)
<1> DEFINE w == FoldLeft(ImportLine, m, entries)
<1>1. m \in Zeroed(f0, P) /\ P \in SUBSET VerRecords
    BY DEF Scheduled, Finished, Takes
<1>2. w \in Zeroed(f0, P)
    BY <1>1, ZeroedSound, ImportedStays
<1>3. ImportEntries(m, entries) = IF w = m THEN m ELSE Sync(Mark(w))
    BY DEF ImportEntries
<1> HIDE DEF w
<1>4. Sync(Mark(w)) \in Scheduled(f0, P)
    BY <1>2, MarkedAndSynced
<1> QED BY <1>3, <1>4

LEMMA ValidateKeysCleans ==
  ASSUME NEW f0, NEW P, Takes(P, 0), NEW m \in Finished(f0, P), NEW K \in Checks
  PROVE  ValidateKeys(m, K) \in Finished(f0, P)
<1> DEFINE w == FoldLeft(StoreValidity, Reset(m), SetToSeq(K))
<1>1. m \in Zeroed(f0, P) /\ Sound(Zeroed(f0, P), Nat \ {0})
    BY ZeroedSound DEF Finished, Takes
<1>2. w \in Zeroed(f0, P)
    BY <1>1, StoredStays
<1>3. ValidateKeys(m, K) = IF ~m.ok THEN m ELSE Schedule(w, 0)
    BY DEF ValidateKeys
<1> HIDE DEF w
<1>4. Schedule(w, 0) \in Finished(f0, P)
    BY <1>2, ScheduleReads
<1> QED BY <1>3, <1>4

(* Without a version record nothing is read, written or kept.              *)
Stuck(m) == {w \in Memories : ~w.ok /\ w.c = m.c /\ w.f = m.f /\ w.t = m.t}

LEMMA StuckSound ==
  ASSUME NEW m
  PROVE  Sound(Stuck(m), Nat) /\ \A next \in Nat : Puts(Stuck(m), next)
<1>1. \A w \in Stuck(m) : \A n, r : Put(w, n, r) = w /\ Sync(w) = w
    BY DEF Stuck, Put, Sync
<1>2. \A w \in Stuck(m) : Failed(w) \in Stuck(m)
    <2> SUFFICES ASSUME NEW w \in Stuck(m) PROVE Failed(w) \in Stuck(m)
        OBVIOUS
    <2> DEFINE v == Failed(w)
    <2>1. v \in Memories /\ ~v.ok /\ v.c = w.c /\ v.f = w.f /\ v.t = w.t
        BY FailedTypes DEF Stuck
    <2> HIDE DEF v
    <2>2. v \in Stuck(m)
        BY <2>1 DEF Stuck
    <2> QED BY <2>2 DEF v
<1>3. Stuck(m) \subseteq Memories
    BY DEF Stuck
<1>4. Steady(Stuck(m), Nat)
    BY <1>1, <1>2, <1>3 DEF Steady
<1>5. \A next \in Nat : Puts(Stuck(m), next)
    BY <1>1 DEF Puts
<1> QED BY <1>4, <1>5, NatWritable DEF Sound

-----------------------------------------------------------------------------
(* A file just created gets its version record before any other record.    *)
Empty(m) == m \in Memories /\ m.c = <<>> /\ m.f = <<>> /\ m.t = <<>> /\ m.ok

LEMMA FirstPut ==
  ASSUME NEW m, Empty(m), NEW r \in VerRecords
  PROVE  LET w == Put(m, 0, r)
         IN  /\ w \in Memories /\ w.ok /\ w.t = <<>> /\ w.c = <<Entry(0, r, TRUE)>>
<1> DEFINE w == Put(m, 0, r)
<1>1. m \in Memories /\ m.c = <<>> /\ m.f = <<>> /\ m.t = <<>> /\ m.ok /\ r \in Records
    BY KindsAreRecords DEF Empty
<1>2. Roomy(m, 0) = m
    <2>1. ~(Len(<<>>) >= CacheSoft)
        BY Sizes
    <2> QED BY <1>1, <2>1 DEF Roomy, Full
<1>3. w \in Memories /\ w.ok /\ w.t = <<>> /\ w.c = Stored(<<>>, 0, r)
    BY <1>1, <1>2, PutTypes
<1>4. In(<<>>, 0) = 0 /\ Free(<<>>) = 0
    <2>1. <<>> \in Seq(Entries) /\ 1 .. Len(<<>>) = {}
        OBVIOUS
    <2> QED BY <2>1, InFacts, FreeFacts
<1>5. Stored(<<>>, 0, r) = <<Entry(0, r, TRUE)>> \o <<>>
    BY <1>4 DEF Stored
<1> DEFINE e == Entry(0, r, TRUE)
<1> HIDE DEF e
<1>6. <<e>> \o <<>> = <<e>>
    OBVIOUS
<1> QED BY <1>3, <1>5, <1>6 DEF e

LEMMA FirstWrite ==
  ASSUME NEW m \in Memories, m.t = <<>>, NEW r \in VerRecords, m.c = <<Entry(0, r, TRUE)>>,
         NEW l \in BOOLEAN, NEW S, S = {1}
  PROVE  LET w == WriteBack(m, S, l)
         IN  Track(<<>>, VerRecords, w.f, w.t) /\ w.f[1] = r
<1> DEFINE e == Entry(0, r, TRUE)
           x == Locked(m)
           y == Saved(x, e)
           a == [call |-> "put", no |-> 0, rec |-> r]
<1>1. r \in Records /\ e \in Entries /\ e.no = 0 /\ e.rec = r
    BY KindsAreRecords DEF Entry, Entries
<1>2. PICK g : SavingSteps(m, S, l, g)
    BY WriteBackRuns
<1>3. Len(m.c) = 1 /\ m.c[1] = e
    OBVIOUS
<1>4. WriteBack(m, S, l) = Unlocking(y, l)
    <2>1. 0 \in Nat /\ 0 + 1 <= Len(m.c) /\ 0 + 1 = 1
        BY <1>3
    <2>2. g[1 .. 0] = x /\ WriteBack(m, S, l) = Unlocking(g[1 .. 1], l)
        BY <1>2, <1>3 DEF SavingSteps
    <2>3. g[1 .. 1] = Saving(m, S, g[1 .. 0], 1)
        BY <1>2, <2>1 DEF SavingSteps
    <2>4. Saving(m, S, x, 1) = y
        BY <1>3 DEF Saving
    <2> QED BY <2>2, <2>3, <2>4
<1> HIDE DEF e
<1>5. x \in Memories /\ (x.t = <<>> \/ x.t = <<Lock>>)
    <2>1. x \in Memories
        BY LockedTypes
    <2>2. CASE m.locked
        BY <2>1, <2>2 DEF Locked
    <2>3. CASE ~m.locked
        <3>1. x = [m EXCEPT !.t = Append(m.t, Lock)]
            BY <2>3 DEF Locked, Memories
        <3>2. x.t = Append(m.t, Lock)
            BY <3>1 DEF Memories
        <3> HIDE DEF x
        <3>3. x.t = <<Lock>>
            BY <3>2
        <3> QED BY <2>1, <3>3 DEF x
    <2> QED BY <2>2, <2>3
<1> HIDE DEF x
<1>6. y \in Memories /\ y.f = Written(x.f, 0, r) /\ y.t = Append(x.t, a)
    BY <1>1, <1>5, SavedTypes
<1> HIDE DEF y
<1>7. y.f # <<>> /\ y.f[1] = r
    <2>1. x.f \in Seq(Records)
        BY <1>5, MemoryFields
    <2>2. 0 \in Nat /\ r \in Records
        BY <1>1
    <2>3. BeginsRight(x.f, 0, r, Written(x.f, 0, r))
        BY <2>1, <2>2, WrittenFirst
    <2> QED BY <1>6, <2>3 DEF BeginsRight
<1>8. a \in Acts /\ Zero(a) /\ a.rec = r
    BY <1>1, ActTypes DEF Zero
<1>9. x.t \in Seq(Acts) /\ \A i \in 1 .. Len(x.t) : x.t[i].call # "put"
    <2>1. x.t \in Seq(Acts)
        BY <1>5, MemoryFields
    <2>2. CASE x.t = <<>>
        <3>1. 1 .. Len(x.t) = {}
            BY <2>2
        <3> QED BY <2>1, <3>1
    <2>3. CASE x.t = <<Lock>>
        <3>1. \A i \in 1 .. Len(x.t) : x.t[i] = Lock
            BY <2>3
        <3>2. Lock.call # "put"
            BY DEF Lock
        <3> QED BY <2>1, <3>1, <3>2
    <2> QED BY <1>5, <2>2, <2>3
<1> HIDE DEF a
<1>10. Zeros(x.t, VerRecords)
    BY <1>9 DEF Zeros, Zero
<1>11. Track(<<>>, VerRecords, y.f, y.t)
    <2> DEFINE t == x.t
               f == y.f
    <2>1. /\ t \in Seq(Acts) /\ Zeros(t, VerRecords)
          /\ \A i \in 1 .. Len(t) : t[i].call # "put"
          /\ f # <<>> /\ f[1] = a.rec /\ VerRecords \in SUBSET VerRecords
        BY <1>7, <1>8, <1>9, <1>10
    <2> HIDE DEF t, f
    <2>2. Track(<<>>, VerRecords, f, Append(t, a))
        BY <1>8, <2>1, TrackZero
    <2> QED BY <1>6, <2>2 DEF t, f
<1> DEFINE v == Unlocking(y, l)
<1>12. v.f = y.f /\ v.t = IF l THEN Append(y.t, Unlock) ELSE y.t
    BY <1>6, UnlockingTypes
<1> HIDE DEF v
<1>13. Track(<<>>, VerRecords, v.f, v.t)
    <2>1. CASE l
        BY <1>6, <1>11, <1>12, <2>1, ActTracks
    <2>2. CASE ~l
        BY <1>11, <1>12, <2>2
    <2> QED BY <2>1, <2>2
<1> QED BY <1>4, <1>7, <1>12, <1>13 DEF v

LEMMA FirstSync ==
  ASSUME NEW m, Empty(m), NEW r \in VerRecords
  PROVE  LET w == Sync(Put(m, 0, r))
         IN  w \in Zeroed(<<>>, VerRecords) /\ w.ok
<1> DEFINE x == Put(m, 0, r)
           w == Sync(x)
           e == Entry(0, r, TRUE)
<1>1. x \in Memories /\ x.ok /\ x.t = <<>> /\ x.c = <<e>>
    BY FirstPut
<1> HIDE DEF x
<1>2. e.used /\ e.dirty /\ e.no = 0 /\ e.rec = r
    BY DEF Entry
<1> HIDE DEF e
<1>3. Len(x.c) = 1 /\ x.c[1] = e /\ x.c \in Caches
    BY <1>1, MemoryFields
<1>4. DirtyIn(x.c) = {1}
    <2>1. \A i \in 1 .. Len(x.c) : i = 1 /\ x.c[i].used /\ x.c[i].dirty
        BY <1>2, <1>3
    <2>2. 1 \in 1 .. Len(x.c)
        BY <1>3
    <2> QED BY <2>1, <2>2 DEF DirtyIn
<1>5. PICK l \in BOOLEAN :
        LET v == WriteBack(x, DirtyIn(x.c), l)
        IN  w.c = Cleaned(x.c) /\ w.f = v.f /\ w.t = v.t /\ v \in Memories
    <2>1. DirtyIn(x.c) # {}
        BY <1>4
    <2> QED BY <1>1, <2>1, SyncTypes
<1>6. w \in Memories /\ w.ok
    BY <1>1, SyncTypes
<1> HIDE DEF w
<1>7. Track(<<>>, VerRecords, w.f, w.t) /\ w.f[1] = r
    <2> DEFINE S == DirtyIn(x.c)
    <2>1. S = {1} /\ x.c = <<Entry(0, r, TRUE)>>
        BY <1>1, <1>4 DEF e
    <2> HIDE DEF S
    <2>2. LET v == WriteBack(x, S, l)
          IN  Track(<<>>, VerRecords, v.f, v.t) /\ v.f[1] = r
        BY <1>1, <2>1, FirstWrite
    <2> QED BY <1>5, <2>2 DEF S
<1>8. Agreed(VerRecords, w.f, w.c)
    <2> DEFINE d == Cleaned(x.c)
    <2>1. Len(d) = 1 /\ ~d[1].dirty /\ d[1].rec = r
        <3>1. Len(d) = Len(x.c) /\ \A i \in 1 .. Len(x.c) :
                ~d[i].dirty /\ d[i].rec = x.c[i].rec
            BY <1>3, CleanedFacts
        <3>2. 1 \in 1 .. Len(x.c)
            BY <1>3
        <3> HIDE DEF d
        <3> QED BY <1>2, <1>3, <3>1, <3>2
    <2> HIDE DEF d
    <2>2. \A i \in At(d, 0) : i = 1
        BY <2>1 DEF At
    <2>3. Once(d, 0)
        BY <2>2 DEF Once
    <2>4. Agrees(VerRecords, w.f, d[1])
        BY <1>7, <2>1 DEF Agrees
    <2>5. Agreed(VerRecords, w.f, d)
        BY <2>2, <2>3, <2>4 DEF Agreed
    <2> QED BY <1>5, <2>5 DEF d
<1> QED BY <1>6, <1>7, <1>8 DEF Zeroed, w, x

LEMMA Created ==
  ASSUME NEW m, Empty(m)
  PROVE  LET w == Create(m)
         IN  w \in Zeroed(<<>>, VerRecords) /\ w.ok /\ Clean0(w.c)
<1> DEFINE G == {w \in Zeroed(<<>>, VerRecords) : w.ok}
           calls == [n \in 1 .. Tables |-> Write(n, EmptyHtbl)]
           r == Ver(0, 0)
           s == Ver(1, 0)
           w == Sync(Put(m, 0, r))
           v == Do(w, calls)
           u == Put(v, 0, s)
<1>1. r \in VerRecords /\ s \in VerRecords /\ s \in Records
    BY MadeRecords, KindsAreRecords
<1>2. Tables \in Nat
    BY Sizes DEF Tables
<1>3. EmptyHtbl \in Records
    <2>1. [i \in 0 .. PerHtbl - 1 |-> 0] \in [0 .. PerHtbl - 1 -> Nat]
        OBVIOUS
    <2> QED BY <2>1, MadeRecords, KindsAreRecords DEF EmptyHtbl
<1> HIDE DEF r, s
<1>4. w \in G
    BY <1>1, FirstSync
<1>5. ASSUME NEW x \in G, NEW i \in 1 .. Tables PROVE Called(x, calls[i]) \in G
    <2>1. i \in Nat /\ i # 0
        BY <1>2
    <2>2. calls[i] = Write(i, EmptyHtbl)
        OBVIOUS
    <2>3. Called(x, calls[i]) = Put(x, i, EmptyHtbl)
        BY <2>2 DEF Called, Write
    <2>4. x \in Zeroed(<<>>, VerRecords) /\ x \in Memories /\ x.ok
        BY DEF Zeroed
    <2> DEFINE y == Put(x, i, EmptyHtbl)
    <2>5. y \in Zeroed(<<>>, VerRecords) /\ y.ok
        BY <1>3, <2>1, <2>4, PutZeroed, PutTypes
    <2> HIDE DEF y
    <2> QED BY <2>3, <2>5 DEF y
<1>6. DOMAIN calls = 1 .. Tables
    OBVIOUS
<1> HIDE DEF w, calls, G
<1>7. v \in G
    BY <1>2, <1>4, <1>5, <1>6, CalledFold DEF Do
<1> HIDE DEF v
<1>8. v \in Zeroed(<<>>, VerRecords) /\ v \in Memories /\ v.ok
    BY <1>7 DEF G, Zeroed
<1>9. u \in Zeroed(<<>>, VerRecords) /\ u.ok /\ u \in Memories
    BY <1>1, <1>8, PutZeroed, PutTypes
<1> HIDE DEF u
<1>10. Sync(u) \in Zeroed(<<>>, VerRecords) /\ Sync(u).ok /\ Clean0(Sync(u).c)
    BY <1>9, SyncZeroed, SyncTypes
<1>11. Create(m) = Sync(u)
    BY DEF Create, u, v, w, calls, r, s
<1> QED BY <1>10, <1>11

-----------------------------------------------------------------------------
(* The scheduled check, of a process p that works alone.  Marked are the   *)
(* version records that have a check of the trust database scheduled.      *)
Marked == {r \in VerRecords : r.next # 0}
Settled(c, f, t) ==
  Once(c, 0) /\ \A i \in At(c, 0) : ~c[i].dirty /\ Ends(f, t, c[i].rec)
Writing(p) ==
  /\ Zeros(todo[p], VerRecords) /\ Opens(file, todo[p])
  /\ job[p].cut => file # <<>> /\ file[1].next # 0 /\ Zeros(todo[p], Marked)
  /\ ~job[p].fails => /\ Settled(cache[p], file, todo[p])
                      /\ job[p].due => \E r \in Marked : Ends(file, todo[p], r)
Opened == file \notin {Absent, <<>>}
Checking(p) ==
  /\ Opened => file[1] \in VerRecords
  /\ due => Opened
  /\ due /\ pc[p] # "busy" => file[1].next # 0
  /\ pc[p] # "busy" => todo[p] = <<>>
  /\ pc[p] \in {"off", "create", "check"} => cache[p] = <<>>
  /\ pc[p] = "idle" => Settled(cache[p], file, <<>>)
  /\ pc[p] = "busy" => Writing(p)

LEMMA MarkedTakes == Takes(Marked, 1) /\ Takes(VerRecords, 0)
BY MadeRecords DEF Takes, Marked, Ver

LEMMA EmptySettled ==
  ASSUME NEW f, NEW t
  PROVE  Settled(<<>>, f, t)
<1>1. At(<<>>, 0) = {}
    BY DEF At
<1> QED BY <1>1 DEF Settled, Once

LEMMA NothingToDo ==
  ASSUME NEW f
  PROVE  /\ \A P : Zeros(<<>>, P) /\ Zeros(Unlocked, P)
         /\ Opens(f, <<>>) /\ Opens(f, Unlocked)
         /\ \A r : Ends(f, <<>>, r) <=> f # <<>> /\ f[1] = r
         /\ \A r : Ends(f, Unlocked, r) <=> f # <<>> /\ f[1] = r
<1>1. 1 .. Len(<<>>) = {}
    OBVIOUS
<1>2. \A i \in 1 .. Len(Unlocked) : ~Zero(Unlocked[i]) /\ Unlocked[i].call # "put"
    <2>1. CASE LockOnce
        BY <1>1, <2>1 DEF Unlocked
    <2>2. CASE ~LockOnce
        <3>1. Unlocked = <<Unlock>>
            BY <2>2 DEF Unlocked
        <3>2. \A i \in 1 .. Len(<<Unlock>>) : <<Unlock>>[i] = Unlock
            OBVIOUS
        <3>3. Unlock.call # "put"
            BY DEF Unlock
        <3> QED BY <3>1, <3>2, <3>3 DEF Zero
    <2> QED BY <2>1, <2>2
<1>3. \A P : Zeros(<<>>, P) /\ Zeros(Unlocked, P)
    BY <1>1, <1>2 DEF Zeros
<1>4. Opens(f, <<>>) /\ Opens(f, Unlocked)
    BY <1>1, <1>2 DEF Opens
<1>5. \A r : Ends(f, <<>>, r) <=> f # <<>> /\ f[1] = r
    BY <1>1 DEF Ends
<1>6. \A r : Ends(f, Unlocked, r) <=> f # <<>> /\ f[1] = r
    BY <1>2 DEF Ends
<1> QED BY <1>3, <1>4, <1>5, <1>6

(* One step of the writes to come: they still end with the same record.    *)
LEMMA OneWritten ==
  ASSUME NEW f \in Seq(Records), NEW t \in Seq(Acts), t # <<>>, Opens(f, t), NEW g,
         g = IF Head(t).call = "put" THEN Written(f, Head(t).no, Head(t).rec) ELSE f
  PROVE  /\ Opens(g, Tail(t)) /\ \A P : Zeros(t, P) => Zeros(Tail(t), P)
         /\ \A r : Ends(f, t, r) => Ends(g, Tail(t), r)
         /\ f # <<>> => g # <<>>
         /\ g # <<>> => g[1] = IF Zero(Head(t)) THEN Head(t).rec ELSE f[1]
         /\ g # <<>> => Zero(Head(t)) \/ f # <<>>
<1> DEFINE a == Head(t)
           u == Tail(t)
           N == Len(u)
<1>1. /\ a \in Acts /\ N \in Nat /\ Len(t) = N + 1 /\ t[1] = a
      /\ \A i \in 1 .. N : u[i] = t[i + 1]
    OBVIOUS
<1>2. Len(f) \in Nat /\ (f # <<>> <=> Len(f) > 0)
    OBVIOUS
<1> HIDE DEF a, u, N
<1>3. f = <<>> /\ a.call = "put" => Zero(a)
    <2> SUFFICES ASSUME f = <<>>, a.call = "put" PROVE Zero(a)
        OBVIOUS
    <2>1. 1 \in 1 .. Len(t) /\ t[1].call = "put"
        BY <1>1
    <2>2. PICK j \in 1 .. 1 : Zero(t[j])
        BY <2>1 DEF Opens
    <2>3. j = 1
        OBVIOUS
    <2> QED BY <1>1, <2>2, <2>3
<1>4. /\ f # <<>> => g # <<>>
      /\ g # <<>> => Zero(a) \/ f # <<>>
      /\ g # <<>> => g[1] = IF Zero(a) THEN a.rec ELSE f[1]
      /\ a.call = "put" => g # <<>>
    <2>1. CASE a.call # "put"
        BY <2>1 DEF Zero, a
    <2>2. CASE a.call = "put"
        <3>1. a.no \in Nat /\ a.rec \in Records
            BY <1>1, <2>2 DEF Acts
        <3> DEFINE n == a.no
                   r == a.rec
                   h == Written(f, n, r)
        <3>2. n \in Nat /\ r \in Records /\ g = h
            BY <2>2, <3>1 DEF a
        <3> HIDE DEF n, r
        <3>3. BeginsRight(f, n, r, h)
            <4>1. f \in Seq(Records)
                BY <1>1
            <4> QED BY <3>2, <4>1, WrittenFirst
        <3> HIDE DEF h
        <3>4. /\ h # <<>> /\ (n = 0 => h[1] = r)
              /\ n # 0 /\ f # <<>> => h[1] = f[1]
            BY <3>3 DEF BeginsRight
        <3>7. Zero(a) <=> n = 0
            BY <2>2 DEF Zero, n
        <3>8. a.rec = r
            BY DEF r
        <3> QED BY <1>3, <2>2, <3>2, <3>4, <3>7, <3>8
    <2> QED BY <2>1, <2>2
<1>5. Opens(g, u)
    <2> SUFFICES ASSUME g = <<>>, NEW i \in 1 .. N, u[i].call = "put"
                 PROVE  \E j \in 1 .. i : Zero(u[j])
        BY DEF Opens, N
    <2>1. f = <<>> /\ ~Zero(a)
        BY <1>4 DEF Zero
    <2>2. i + 1 \in 1 .. Len(t) /\ t[i + 1].call = "put"
        BY <1>1
    <2>3. PICK j \in 1 .. i + 1 : Zero(t[j])
        BY <2>1, <2>2 DEF Opens
    <2>4. j # 1
        BY <1>1, <2>1, <2>3
    <2>5. j - 1 \in 1 .. i /\ j - 1 \in 1 .. N /\ (j - 1) + 1 = j
        BY <1>1, <2>4
    <2>6. Zero(u[j - 1])
        BY <1>1, <2>3, <2>5
    <2> QED BY <2>5, <2>6
<1>6. \A P : Zeros(t, P) => Zeros(u, P)
    <2>1. \A i \in 1 .. N : i + 1 \in 1 .. Len(t)
        BY <1>1
    <2> QED BY <1>1, <2>1 DEF Zeros, N
<1>7. ASSUME NEW r, Ends(f, t, r) PROVE Ends(g, u, r)
    <2>1. CASE \E i \in 1 .. Len(t) : /\ Zero(t[i]) /\ t[i].rec = r
                                      /\ \A j \in 1 .. Len(t) : j > i => ~Zero(t[j])
        <3>1. PICK i \in 1 .. Len(t) : /\ Zero(t[i]) /\ t[i].rec = r
                                       /\ \A j \in 1 .. Len(t) : j > i => ~Zero(t[j])
            BY <2>1
        <3>2. CASE i = 1
            <4>1. \A j \in 1 .. N : ~Zero(u[j])
                <5> SUFFICES ASSUME NEW j \in 1 .. N PROVE ~Zero(u[j])
                    OBVIOUS
                <5>1. j + 1 \in 1 .. Len(t) /\ j + 1 > i
                    BY <1>1, <3>2
                <5> QED BY <1>1, <3>1, <5>1
            <4>2. Zero(a) /\ a.rec = r
                BY <1>1, <3>1, <3>2
            <4>3. a.call = "put"
                BY <4>2 DEF Zero
            <4>4. g # <<>> /\ g[1] = r
                BY <1>4, <4>2, <4>3
            <4> QED BY <4>1, <4>4 DEF Ends, N
        <3>3. CASE i # 1
            <4>1. i - 1 \in 1 .. N /\ (i - 1) + 1 = i
                BY <1>1, <3>3
            <4>2. Zero(u[i - 1]) /\ u[i - 1].rec = r
                BY <1>1, <3>1, <4>1
            <4>3. ASSUME NEW j \in 1 .. N, j > i - 1 PROVE ~Zero(u[j])
                <5>1. j + 1 \in 1 .. Len(t) /\ j + 1 > i
                    BY <1>1, <4>3
                <5> QED BY <1>1, <3>1, <5>1
            <4> QED BY <4>1, <4>2, <4>3 DEF Ends, N
        <3> QED BY <3>2, <3>3
    <2>2. CASE (\A i \in 1 .. Len(t) : ~Zero(t[i])) /\ f # <<>> /\ f[1] = r
        <3>1. 1 \in 1 .. Len(t) /\ \A j \in 1 .. N : j + 1 \in 1 .. Len(t)
            BY <1>1
        <3>2. ~Zero(a) /\ \A j \in 1 .. N : ~Zero(u[j])
            BY <1>1, <2>2, <3>1
        <3>3. g # <<>> /\ g[1] = r
            BY <1>4, <2>2, <3>2
        <3> QED BY <3>2, <3>3 DEF Ends, N
    <2> QED BY <1>7, <2>1, <2>2 DEF Ends
<1> QED BY <1>4, <1>5, <1>6, <1>7 DEF a, u

LEMMA SameEnds ==
  ASSUME NEW f, NEW g, f # <<>>, g # <<>>, g[1] = f[1], NEW t, NEW r
  PROVE  Ends(f, t, r) => Ends(g, t, r)
BY DEF Ends

(* What an operation begins with, and what it starts.                      *)
LEMMA MeScheduled ==
  ASSUME Types, NEW p \in Proc, Checking(p), pc[p] = "idle", file # <<>>,
         NEW P \in SUBSET VerRecords
  PROVE  Me(p) \in Scheduled(file, P)
<1> DEFINE me == Me(p)
<1>1. me \in Memories /\ me.c = cache[p] /\ me.f = file /\ me.t = <<>>
    BY MeTypes
<1> HIDE DEF me
<1>2. file[1] \in VerRecords /\ Settled(cache[p], file, <<>>)
    BY DEF Checking, Opened, Types
<1>3. Track(file, P, me.f, me.t)
    BY <1>1, <1>2, NothingToDo DEF Track
<1>4. \A i \in At(me.c, 0) : ~me.c[i].dirty /\ me.c[i].rec = file[1]
    BY <1>1, <1>2, NothingToDo DEF Settled
<1>5. Agreed(P, me.f, me.c) /\ Clean0(me.c)
    BY <1>1, <1>2, <1>4 DEF Agreed, Agrees, Clean0, Settled
<1>6. me \in Scheduled(file, P)
    BY <1>1, <1>3, <1>5 DEF Scheduled, Finished, Zeroed
<1> QED BY <1>6 DEF me

LEMMA MeStuck ==
  ASSUME Types, NEW p \in Proc, Checking(p), pc[p] = "idle", file = <<>>
  PROVE  Me(p) \in Stuck(Me(p))
<1> DEFINE m == Memory(p, file)
<1>1. m \in Memories /\ m.c = cache[p] /\ m.f = file
    BY EmptyFile, MemoryTypes
<1> HIDE DEF m
<1>2. At(m.c, 0) = {}
    BY <1>1, NothingToDo DEF Checking, Settled
<1>3. Read(m, 0) = Absent
    <2>1. In(m.c, 0) = 0
        BY <1>1, <1>2, MemoryFields, InIsAt
    <2>2. ~(0 < Len(m.f))
        BY <1>1
    <2> QED BY <2>1, <2>2 DEF Read
<1>4. Me(p) = Failed(m)
    BY <1>3 DEF Me, WithTable, Is, m
<1>5. ~Failed(m).ok /\ Failed(m) \in Memories
    BY <1>1, FailedTypes
<1> QED BY <1>4, <1>5 DEF Stuck

LEMMA OnItsOwn ==
  ASSUME Types, NEW p \in Proc, Ready(p), NEW m \in Memories, NEW W, NEW j \in Jobs(W),
         Begin(p, m, j)
  PROVE  /\ pc'[p] = "busy" /\ todo'[p] = m.t /\ cache'[p] = m.c /\ due' = due
         /\ job'[p].cut = j.cut /\ job'[p].due = j.due /\ job'[p].fails = ~m.ok
         /\ file' \in Seq(Records) /\ file' # Absent
         /\ file # <<>> => file' # <<>> /\ file'[1] = file[1]
         /\ m.f = file => file' = file
<1>1. pc'[p] = "busy" /\ todo'[p] = m.t /\ cache'[p] = m.c /\ due' = due
    BY DEF Begin, Goto, Types
<1>2. job'[p].cut = j.cut /\ job'[p].due = j.due /\ job'[p].fails = ~m.ok
    <2> DEFINE i == [j EXCEPT !.fails = ~m.ok]
    <2>1. i.cut = j.cut /\ i.due = j.due /\ i.fails = ~m.ok
        BY DEF Jobs
    <2>2. job'[p] = i
        <3> HIDE DEF i
        <3>1. job' = [job EXCEPT ![p] = i]
            BY DEF Begin, i
        <3> QED BY <3>1 DEF Types
    <2> HIDE DEF i
    <2> QED BY <2>1, <2>2
<1>3. file \in Seq(Records) /\ Len(m.f) \in Nat
    BY MemoryFields DEF Ready, Types
<1> DEFINE n == Len(m.f) - Len(file)
           gap == [i \in 1 .. n |-> Blank]
<1>4. n \in Int
    BY <1>3
<1>5. file' = file \o gap
    BY DEF Begin
<1>6. m.f = file => gap = <<>>
    <2>1. m.f = file => n = 0
        BY <1>3
    <2>2. [i \in 1 .. 0 |-> Blank] = <<>>
        OBVIOUS
    <2> HIDE DEF n
    <2> QED BY <2>1, <2>2
<1> HIDE DEF n
<1>7. gap \in Seq(Records)
    BY <1>4, BlankGap
<1> HIDE DEF gap
<1>8. /\ file' \in Seq(Records)
      /\ file # <<>> => file' # <<>> /\ file'[1] = file[1]
      /\ m.f = file => file' = file
    BY <1>3, <1>5, <1>6, <1>7
<1> QED BY <1>1, <1>2, <1>8, AbsentAssumption

LEMMA BegunSettled ==
  ASSUME Types, NEW p \in Proc, Checking(p), Ready(p), file # <<>>,
         NEW P \in SUBSET VerRecords, NEW m \in Finished(file, P),
         NEW W, NEW j \in Jobs(W), Begin(p, m, j),
         j.cut => due /\ P = Marked,
         j.due /\ m.ok => m.f[1] \in Marked
  PROVE  Checking(p)'
<1>1. m \in Memories /\ Track(file, P, m.f, m.t) /\ Agreed(P, m.f, m.c)
      /\ (m.ok => Clean0(m.c))
    BY DEF Finished, Zeroed
<1>2. /\ pc'[p] = "busy" /\ todo'[p] = m.t /\ cache'[p] = m.c /\ due' = due
      /\ job'[p].cut = j.cut /\ job'[p].due = j.due /\ job'[p].fails = ~m.ok
      /\ file' # Absent /\ file' # <<>> /\ file'[1] = file[1]
    BY <1>1, OnItsOwn
<1>3. file[1] \in VerRecords /\ (due => file[1].next # 0)
    BY DEF Checking, Opened, Ready, Types
<1>4. Zeros(m.t, P) /\ Zeros(m.t, VerRecords) /\ Opens(file', m.t)
    BY <1>1, <1>2 DEF Track, Zeros, Opens
<1>5. Ends(file', m.t, m.f[1])
    BY <1>1, <1>2, SameEnds DEF Track
<1>6. m.ok => Settled(m.c, file', m.t)
    <2> SUFFICES ASSUME m.ok PROVE Settled(m.c, file', m.t)
        OBVIOUS
    <2>1. Once(m.c, 0)
        BY <1>1 DEF Agreed
    <2>2. \A i \in At(m.c, 0) : ~m.c[i].dirty /\ m.c[i].rec = m.f[1]
        BY <1>1 DEF Agreed, Agrees, Clean0
    <2> QED BY <1>5, <2>1, <2>2 DEF Settled
<1>7. Writing(p)'
    <2>1. Zeros(todo'[p], VerRecords) /\ Opens(file', todo'[p])
        BY <1>2, <1>4
    <2>2. job'[p].cut => file' # <<>> /\ file'[1].next # 0 /\ Zeros(todo'[p], Marked)
        BY <1>2, <1>3, <1>4
    <2>3. ~job'[p].fails => /\ Settled(cache'[p], file', todo'[p])
                            /\ job'[p].due => \E r \in Marked : Ends(file', todo'[p], r)
        BY <1>2, <1>5, <1>6
    <2> QED BY <2>1, <2>2, <2>3 DEF Writing
<1>8. (Opened => file[1] \in VerRecords)' /\ (due => Opened)'
    BY <1>2, <1>3 DEF Opened
<1> QED BY <1>2, <1>7, <1>8 DEF Checking

LEMMA BegunStuck ==
  ASSUME Types, NEW p \in Proc, Checking(p), Ready(p), file = <<>>,
         NEW m \in Stuck(Me(p)), NEW W, NEW j \in Jobs(W), Begin(p, m, j),
         j.cut => due
  PROVE  Checking(p)'
<1>1. m \in Memories /\ ~m.ok /\ m.c = cache[p] /\ m.f = file /\ m.t = <<>>
    BY MeTypes DEF Stuck, Ready
<1>2. /\ pc'[p] = "busy" /\ todo'[p] = <<>> /\ due' = due
      /\ job'[p].cut = j.cut /\ job'[p].fails = ~m.ok
      /\ file' = <<>>
    BY <1>1, OnItsOwn
<1>3. ~due
    BY DEF Checking, Opened
<1>4. Writing(p)'
    <2>1. Zeros(todo'[p], VerRecords) /\ Opens(file', todo'[p])
        BY <1>2, NothingToDo
    <2> QED BY <1>1, <1>2, <1>3, <2>1 DEF Writing
<1>5. (Opened => file[1] \in VerRecords)' /\ (due => Opened)'
    BY <1>2, <1>3 DEF Opened
<1> QED BY <1>2, <1>4, <1>5 DEF Checking

LEMMA OwnertrustJobFields ==
  ASSUME Types, NEW me, NEW m, NEW new, NEW j,
         \/ j = OwnertrustJob(me, m, new)
         \/ j = [OwnertrustJob(me, m, new) EXCEPT !.at_risk = {}]
  PROVE  /\ \E W : j \in Jobs(W)
         /\ j.cut = due /\ j.due = (due \/ m.t # <<>>)
<1> DEFINE a == [k \in Fpr |-> IF k \in DOMAIN new
                                 THEN {<<new[k], x[2]>> : x \in want[k]}
                                 ELSE want[k]]
           d == due \/ m.t # <<>>
           r == SameSlot(Inserts(me, DOMAIN new))
           job_(s) == [after |-> a, mid |-> a, at_risk |-> s,
                       due |-> d, cut |-> due, fails |-> FALSE]
           o == OwnertrustJob(me, m, new)
<1>1. o = [NoJob EXCEPT !.after = a, !.mid = a, !.due = d, !.at_risk = r]
    BY DEF OwnertrustJob
<1>2. \E W : o \in Jobs(W) /\ [o EXCEPT !.at_risk = {}] \in Jobs(W)
    BY OwnertrustJobTypes
<1> HIDE DEF a, d, r, o
<1>3. o = job_(r)
    BY <1>1 DEF NoJob
<1>4. o.cut = due /\ o.due = d
    BY <1>3
<1>5. LET i == [o EXCEPT !.at_risk = {}] IN i.cut = o.cut /\ i.due = o.due
    <2>1. PICK W : o \in Jobs(W)
        BY <1>2
    <2> QED BY <2>1 DEF Jobs
<1>6. j = o \/ j = [o EXCEPT !.at_risk = {}]
    BY DEF o
<1>7. j.cut = due /\ j.due = d
    BY <1>4, <1>5, <1>6
<1> QED BY <1>2, <1>6, <1>7 DEF d

LEMMA ValidateJobFields ==
  ASSUME Types, NEW me, NEW K
  PROVE  ValidateJob(me, K).cut = FALSE /\ ValidateJob(me, K).due = FALSE
<1> DEFINE value(k) == IF k \in K THEN 1 ELSE 0
           a == [k \in Fpr |-> {<<x[1], value(k)>> : x \in want[k]}]
           b == [k \in Fpr |-> {<<x[1], v>> : x \in want[k], v \in {0, value(k)}}]
           r == SameSlot(Inserts(me, K)) \cup NewlyValid(me, K)
<1>1. ValidateJob(me, K) = [NoJob EXCEPT !.after = a, !.mid = b, !.at_risk = r,
                                         !.due = FALSE, !.cut = FALSE]
    BY DEF ValidateJob
<1> HIDE DEF a, b, r
<1> QED BY <1>1 DEF NoJob

(* The operations that change ownertrust.                                  *)
LEMMA OwnertrustChecking ==
  ASSUME Types, NEW p \in Proc, Checking(p),
         SetOwnertrust(p) \/ ClearOwnertrust(p) \/ ImportOwnertrust(p)
  PROVE  Checking(p)'
<1> DEFINE me == Me(p)
           Mine(m) == /\ file # <<>> => m \in Scheduled(file, Marked)
                      /\ file = <<>> => m \in Stuck(me)
<1>0. Ready(p) /\ pc[p] = "idle"
    BY DEF SetOwnertrust, ClearOwnertrust, ImportOwnertrust, Ready
<1>1. Mine(me) /\ Takes(Marked, 1) /\ Marked \in SUBSET VerRecords
    BY <1>0, MeScheduled, MeStuck, MarkedTakes DEF Takes
<1>2. Sound(Stuck(me), Nat) /\ Puts(Stuck(me), 1)
    BY StuckSound
<1> HIDE DEF me
<1>3. ASSUME NEW m, Mine(m), NEW new, NEW j, Begin(p, m, j),
             \/ j = OwnertrustJob(me, m, new)
             \/ j = [OwnertrustJob(me, m, new) EXCEPT !.at_risk = {}]
      PROVE  Checking(p)'
    <2>1. PICK W : j \in Jobs(W)
        BY <1>3, OwnertrustJobFields
    <2>2. j.cut = due /\ j.due = (due \/ m.t # <<>>)
        BY <1>3, OwnertrustJobFields
    <2>3. CASE file # <<>>
        <3>1. m \in Finished(file, Marked) /\ (m.ok /\ m.t # <<>> => m.f[1].next # 0)
            BY <1>3, <2>3 DEF Scheduled
        <3>2. Track(file, Marked, m.f, m.t)
            BY <3>1 DEF Finished, Zeroed
        <3>3. due => file[1] \in Marked
            BY <1>0 DEF Checking, Opened, Marked
        <3>4. due => m.f[1] \in Marked
            BY <3>2, <3>3 DEF Track, Ends, Zeros
        <3>5. m.ok /\ m.t # <<>> => m.f[1] \in Marked
            BY <3>1, <3>2 DEF Track, Marked
        <3>6. j.due /\ m.ok => m.f[1] \in Marked
            BY <2>2, <3>4, <3>5
        <3> QED BY <1>0, <1>1, <1>3, <2>1, <2>2, <2>3, <3>1, <3>6, BegunSettled
    <2>4. CASE file = <<>>
        <3>1. m \in Stuck(Me(p))
            BY <1>3, <2>4 DEF me
        <3>2. j.cut => due
            BY <2>2
        <3> QED BY <1>0, <1>3, <2>1, <2>4, <3>1, <3>2, BegunStuck
    <2> QED BY <2>3, <2>4
<1>4. CASE SetOwnertrust(p)
    <2>1. PICK k \in Fpr, ot \in Values :
            LET m == UpdateOwnertrust(me, k, ot)
            IN  Begin(p, m, OwnertrustJob(me, m, [i \in {k} |-> ot]))
        BY <1>4 DEF SetOwnertrust, me
    <2> DEFINE m == UpdateOwnertrust(me, k, ot)
               j == OwnertrustJob(me, m, [i \in {k} |-> ot])
    <2>2. Mine(m)
        BY <1>1, <1>2, ValuesAssumption, UpdateOwnertrustMarks, UpdateOwnertrustStays
    <2>3. Begin(p, m, j)
        BY <2>1
    <2> HIDE DEF m, Mine
    <2> QED BY <1>3, <2>2, <2>3
<1>5. CASE ClearOwnertrust(p)
    <2>1. PICK k \in Fpr :
            LET m == ClearOwnertrusts(me, k)
            IN  Begin(p, m, [OwnertrustJob(me, m, [i \in {k} |-> 0]) EXCEPT !.at_risk = {}])
        BY <1>5 DEF ClearOwnertrust, me
    <2> DEFINE m == ClearOwnertrusts(me, k)
               new == [i \in {k} |-> 0]
    <2>2. Mine(m)
        BY <1>1, <1>2, ClearOwnertrustsMarks, ClearOwnertrustsStays
    <2>3. Begin(p, m, [OwnertrustJob(me, m, new) EXCEPT !.at_risk = {}])
        BY <2>1
    <2> HIDE DEF m, new, Mine
    <2> QED BY <1>3, <2>2, <2>3
<1>6. CASE ImportOwnertrust(p)
    <2>1. PICK entries \in Imports :
            LET m == ImportEntries(me, entries)
            IN  Begin(p, m, OwnertrustJob(me, m, Assigned(entries)))
        BY <1>6 DEF ImportOwnertrust, me
    <2> DEFINE m == ImportEntries(me, entries)
    <2>2. Mine(m)
        BY <1>1, <1>2, ImportEntriesMarks, ImportEntriesStays
    <2>3. Begin(p, m, OwnertrustJob(me, m, Assigned(entries)))
        BY <2>1
    <2> HIDE DEF m, Mine
    <2> QED BY <1>3, <2>2, <2>3
<1> QED BY <1>4, <1>5, <1>6

LEMMA ValidateChecking ==
  ASSUME Types, NEW p \in Proc, Checking(p), Validate(p)
  PROVE  Checking(p)'
<1> DEFINE me == Me(p)
<1>0. Ready(p) /\ pc[p] = "idle"
    BY DEF Validate, Ready
<1>1. PICK K \in Checks : Begin(p, ValidateKeys(me, K), ValidateJob(me, K))
    BY DEF Validate
<1> DEFINE m == ValidateKeys(me, K)
           j == ValidateJob(me, K)
<1>2. PICK W : j \in Jobs(W)
    BY ValidateJobTypes
<1>3. j.cut = FALSE /\ j.due = FALSE /\ Begin(p, m, j)
    BY <1>1, ValidateJobFields
<1> HIDE DEF j
<1>4. CASE file # <<>>
    <2>1. me \in Scheduled(file, VerRecords) /\ VerRecords \in SUBSET VerRecords
        BY <1>0, <1>4, MeScheduled
    <2> HIDE DEF me
    <2>2. m \in Finished(file, VerRecords)
        BY <2>1, MarkedTakes, ValidateKeysCleans DEF Scheduled
    <2> HIDE DEF m
    <2> QED BY <1>0, <1>2, <1>3, <1>4, <2>1, <2>2, BegunSettled
<1>5. CASE file = <<>>
    <2>1. me \in Stuck(me)
        BY <1>0, <1>5, MeStuck
    <2>2. Sound(Stuck(me), Nat) /\ Puts(Stuck(me), 0)
        BY StuckSound
    <2> HIDE DEF me
    <2>3. m \in Stuck(me)
        BY <2>1, <2>2, ValidateKeysStays
    <2> HIDE DEF m
    <2>4. m \in Stuck(Me(p))
        BY <2>3 DEF me
    <2> QED BY <1>0, <1>2, <1>3, <1>5, <2>4, BegunStuck
<1> QED BY <1>4, <1>5

(* The start of a process, its writes and its end.                         *)
LEMMA StartChecking ==
  ASSUME Types, NEW p \in Proc, Checking(p),
         Stat(p) \/ CreateLock(p) \/ CheckThere(p) \/ CheckMissing(p)
  PROVE  Checking(p)'
<1>1. CASE Stat(p)
    <2>1. /\ pc[p] = "off" /\ pc'[p] \in {"idle", "create"}
          /\ UNCHANGED <<todo, job, cache, file, due>>
        BY <1>1 DEF Stat, Goto, Types
    <2>2. cache[p] = <<>> /\ Settled(<<>>, file, <<>>)
        BY <2>1, EmptySettled DEF Checking
    <2> QED BY <2>1, <2>2 DEF Checking, Opened
<1>2. CASE CreateLock(p)
    <2>1. /\ pc[p] = "create" /\ pc'[p] = "check"
          /\ UNCHANGED <<todo, job, cache, file, due>>
        BY <1>2 DEF CreateLock, Goto, Types
    <2> QED BY <2>1 DEF Checking, Opened
<1>3. CASE CheckThere(p)
    <2>1. /\ pc[p] = "check" /\ pc'[p] = "busy"
          /\ todo'[p] = Unlocked /\ job'[p] = NoJob
          /\ file # Absent /\ UNCHANGED <<cache, file, due>>
        BY <1>3 DEF CheckThere, Goto, Types
    <2>2. /\ Opened => file[1] \in VerRecords
          /\ due => Opened /\ file # <<>> /\ file[1].next # 0
          /\ cache[p] = <<>>
        BY <2>1 DEF Checking, Opened
    <2>3. NoJob.cut = due /\ NoJob.due = due
        BY DEF NoJob
    <2>4. Zeros(Unlocked, VerRecords) /\ Opens(file, Unlocked) /\ Zeros(Unlocked, Marked)
        BY NothingToDo
    <2>5. Settled(<<>>, file, Unlocked)
        BY EmptySettled
    <2>6. due => \E r \in Marked : Ends(file, Unlocked, r)
        <3>1. due => file[1] \in Marked
            BY <2>2 DEF Marked
        <3>2. due => Ends(file, Unlocked, file[1])
            BY <2>2, NothingToDo
        <3> QED BY <3>1, <3>2
    <2>7. Writing(p)'
        BY <2>1, <2>2, <2>3, <2>4, <2>5, <2>6 DEF Writing
    <2> QED BY <2>1, <2>2, <2>7 DEF Checking, Opened
<1>4. CASE CheckMissing(p)
    <2> DEFINE m == Memory(p, <<>>)
               w == Create(m)
               j == [NoJob EXCEPT !.at_risk = Fpr]
    <2>1. /\ pc[p] = "check" /\ pc'[p] = "busy"
          /\ todo'[p] = w.t \o Unlocked /\ cache'[p] = w.c
          /\ file = Absent /\ file' = <<>> /\ due' = due
        BY <1>4 DEF CheckMissing, Goto, Types
    <2>2. job'[p].cut = due /\ job'[p].due = due
        <3>1. job'[p] = j
            BY <1>4 DEF CheckMissing, Types
        <3>2. j.cut = due /\ j.due = due
            BY DEF NoJob
        <3> HIDE DEF j
        <3> QED BY <3>1, <3>2
    <2>3. ~due /\ cache[p] = <<>>
        BY <2>1 DEF Checking, Opened
    <2>4. Empty(m)
        BY <2>3, EmptyFile, MemoryTypes DEF Empty
    <2> HIDE DEF m
    <2>5. w \in Zeroed(<<>>, VerRecords) /\ Clean0(w.c)
        BY <2>4, Created
    <2> HIDE DEF w
    <2>6. /\ w \in Memories /\ Agreed(VerRecords, w.f, w.c)
          /\ Track(<<>>, VerRecords, w.f, w.t)
        BY <2>5 DEF Zeroed
    <2>7. Track(<<>>, VerRecords, w.f, w.t \o Unlocked)
        <3>1. CASE LockOnce
            <4>1. w.t \o <<>> = w.t
                BY <2>6, MemoryFields
            <4> QED BY <2>6, <3>1, <4>1 DEF Unlocked
        <3>2. CASE ~LockOnce
            <4>1. w.t \o <<Unlock>> = Append(w.t, Unlock)
                BY <2>6, MemoryFields, ActTypes
            <4> QED BY <2>6, <3>2, <4>1, ActTracks DEF Unlocked
        <3> QED BY <3>1, <3>2
    <2> DEFINE t == w.t \o Unlocked
    <2> HIDE DEF t
    <2>8. Settled(w.c, <<>>, t)
        <3>1. \A i \in At(w.c, 0) : ~w.c[i].dirty /\ w.c[i].rec = w.f[1]
            BY <2>5, <2>6 DEF Agreed, Agrees, Clean0
        <3> QED BY <2>6, <2>7, <3>1 DEF Settled, Agreed, Track, t
    <2>9. Zeros(t, VerRecords) /\ Opens(<<>>, t)
        BY <2>7 DEF Track, t
    <2>10. Writing(p)'
        BY <2>1, <2>2, <2>3, <2>8, <2>9 DEF Writing, t
    <2> QED BY <2>1, <2>3, <2>10 DEF Checking, Opened
<1> QED BY <1>1, <1>2, <1>3, <1>4

LEMMA DiskChecking ==
  ASSUME Types, NEW p \in Proc, Checking(p), Disk(p)
  PROVE  Checking(p)'
<1> DEFINE t == todo[p]
           a == Head(t)
           u == Tail(t)
<1>1. /\ pc[p] = "busy" /\ t # <<>> /\ t \in Seq(Acts)
      /\ file \in Seq(Records) /\ file # Absent
    BY AbsentAssumption DEF Disk, Types
<1>2. /\ pc'[p] = "busy" /\ todo'[p] = u
      /\ cache' = cache /\ job' = job /\ due' = due
    BY <1>1 DEF Disk, Types
<1>3. file' = IF a.call = "put" THEN Written(file, a.no, a.rec) ELSE file
    <2>1. a \in Acts
        BY <1>1
    <2> HIDE DEF a
    <2> QED BY <2>1 DEF Disk, a
<1>4. Writing(p)
    BY <1>1 DEF Checking
<1>5. Opens(file, t) /\ Zeros(t, VerRecords)
    BY <1>4 DEF Writing
<1>6. \A P : Zeros(t, P) /\ Zero(a) => a.rec \in P
    <2>1. 1 \in 1 .. Len(t) /\ t[1] = a
        BY <1>1
    <2> QED BY <2>1 DEF Zeros
<1> HIDE DEF t, a, u
<1> DEFINE g == file'
<1>7. /\ Opens(g, u) /\ \A P : Zeros(t, P) => Zeros(u, P)
      /\ \A r : Ends(file, t, r) => Ends(g, u, r)
      /\ file # <<>> => g # <<>>
      /\ g # <<>> => g[1] = IF Zero(a) THEN a.rec ELSE file[1]
      /\ g # <<>> => Zero(a) \/ file # <<>>
    BY <1>1, <1>3, <1>5, OneWritten DEF a, u
<1>8. g # Absent
    <2>1. g \in Seq(Records)
        <3>1. a \in Acts
            BY <1>1 DEF a
        <3>2. a.call = "put" => a.no \in Nat /\ a.rec \in Records
            BY <3>1 DEF Acts
        <3> QED BY <1>1, <1>3, <3>2, WrittenFacts
    <2> QED BY <2>1, AbsentAssumption
<1> HIDE DEF g
<1>9. Opened <=> file # <<>>
    BY <1>1 DEF Opened
<1>10. Opened' <=> g # <<>>
    BY <1>8 DEF Opened, g
<1>11. g # <<>> => g[1] \in VerRecords
    BY <1>5, <1>6, <1>7, <1>9 DEF Checking
<1>12. Writing(p)'
    <2>1. Zeros(u, VerRecords) /\ Opens(g, u)
        BY <1>5, <1>7
    <2>2. job[p].cut => g # <<>> /\ g[1].next # 0 /\ Zeros(u, Marked)
        <3> SUFFICES ASSUME job[p].cut
                     PROVE  g # <<>> /\ g[1].next # 0 /\ Zeros(u, Marked)
            OBVIOUS
        <3>1. file # <<>> /\ file[1].next # 0 /\ Zeros(t, Marked)
            BY <1>4 DEF Writing, t
        <3>2. Zero(a) => a.rec.next # 0
            BY <1>6, <3>1 DEF Marked
        <3> QED BY <1>7, <3>1, <3>2
    <2>3. ~job[p].fails => /\ Settled(cache[p], g, u)
                           /\ job[p].due => \E r \in Marked : Ends(g, u, r)
        <3> SUFFICES ASSUME ~job[p].fails
                     PROVE  /\ Settled(cache[p], g, u)
                            /\ job[p].due => \E r \in Marked : Ends(g, u, r)
            OBVIOUS
        <3>1. /\ Settled(cache[p], file, t)
              /\ job[p].due => \E r \in Marked : Ends(file, t, r)
            BY <1>4 DEF Writing, t
        <3> QED BY <1>7, <3>1 DEF Settled
    <2> QED BY <1>2, <2>1, <2>2, <2>3 DEF Writing, g
<1>13. due => Opened'
    BY <1>7, <1>9, <1>10 DEF Checking
<1> QED BY <1>2, <1>10, <1>11, <1>12, <1>13 DEF Checking, g

LEMMA DoneChecking ==
  ASSUME Types, NEW p \in Proc, Checking(p), Done(p)
  PROVE  Checking(p)'
<1>1. /\ pc[p] = "busy" /\ pc'[p] = "idle" /\ todo[p] = <<>> /\ ~job[p].fails
      /\ due' = job[p].due /\ file # Absent /\ UNCHANGED <<todo, cache, file>>
    BY DEF Done, Goto, Types
<1>2. /\ Settled(cache[p], file, <<>>)
      /\ job[p].due => \E r \in Marked : Ends(file, <<>>, r)
    BY <1>1 DEF Checking, Writing
<1>3. job[p].due => file # <<>> /\ file[1].next # 0
    BY <1>2, NothingToDo DEF Marked
<1> QED BY <1>1, <1>2, <1>3 DEF Checking, Opened

LEMMA GoneChecking ==
  ASSUME Types, NEW p \in Proc, Checking(p), Exit(p) \/ HalfDone(p)
  PROVE  Checking(p)'
<1>1. Gone(p) /\ (due' = due \/ due' = job[p].cut)
    BY DEF Exit, HalfDone
<1>2. /\ pc'[p] = "off" /\ todo'[p] = <<>> /\ cache'[p] = <<>> /\ file' = file
      /\ file # Absent
    BY <1>1 DEF Gone, Goto, Exit, HalfDone, Types
<1>3. due' => file # <<>> /\ file[1].next # 0
    <2>1. CASE Exit(p)
        BY <2>1 DEF Exit, Checking, Opened
    <2>2. CASE HalfDone(p)
        BY <2>2 DEF HalfDone, Checking, Writing
    <2> QED BY <2>1, <2>2
<1> QED BY <1>2, <1>3 DEF Checking, Opened

(* When one process works at a time, however it fails and wherever it dies,*)
(* a changed ownertrust leaves a check of the trust database scheduled     *)
(* until a check is begun: no write of the operation puts a version record *)
(* in the file that has no next check, and the last one that it puts there *)
(* is the one it has marked.                                               *)
THEOREM CheckScheduledAlways ==
  ASSUME NEW q, Proc = {q}
  PROVE  Spec => []CheckScheduled
<1>1. Init => Checking(q)
    <2> SUFFICES ASSUME Init PROVE Checking(q)
        OBVIOUS
    <2>1. /\ pc[q] = "off" /\ todo[q] = <<>> /\ cache[q] = <<>>
          /\ file = Absent /\ ~due
        BY DEF Init
    <2> QED BY <2>1 DEF Checking, Opened
<1>2. Types /\ Checking(q) /\ [Next]_vars => Checking(q)'
    <2> SUFFICES ASSUME Types, Checking(q), [Next]_vars PROVE Checking(q)'
        OBVIOUS
    <2>1. CASE UNCHANGED vars
        BY <2>1 DEF vars, Checking, Writing, Opened
    <2>2. CASE Next
        <3>1. q \in Proc
            OBVIOUS
        <3>2. \/ Stat(q) \/ CreateLock(q) \/ CheckThere(q) \/ CheckMissing(q)
              \/ SetOwnertrust(q) \/ ClearOwnertrust(q) \/ ImportOwnertrust(q)
              \/ Validate(q)
              \/ Disk(q) \/ Done(q) \/ Exit(q) \/ HalfDone(q)
            BY <2>2 DEF Next
        <3> QED BY <3>1, <3>2, OwnertrustChecking, ValidateChecking, StartChecking,
                   DiskChecking, DoneChecking, GoneChecking
    <2> QED BY <2>1, <2>2
<1>3. Checking(q) => CheckScheduled
    BY DEF Checking, CheckScheduled, Busy
<1> QED BY <1>1, <1>2, <1>3, TypesAlways, PTL DEF Spec
=============================================================================
