---------------------------- MODULE SecmemProofs ----------------------------
(***************************************************************************)
(* Proofs about Secmem, for any set of threads, any size of the pool and   *)
(* any requests.                                                           *)
(***************************************************************************)
EXTENDS Secmem, TLAPS, SequenceTheorems

(* What a list is without one of its elements, and with one more.          *)
LEMMA RemoveAtFacts ==
  ASSUME NEW S, NEW s \in Seq(S), NEW i \in 1 .. Len(s)
  PROVE  /\ RemoveAt(s, i) \in Seq(S)
         /\ Len(RemoveAt(s, i)) = Len(s) - 1
         /\ \A j \in 1 .. Len(s) - 1 :
              RemoveAt(s, i)[j] = IF j < i THEN s[j] ELSE s[j + 1]
<1> DEFINE front == SubSeq(s, 1, i - 1)
           back  == SubSeq(s, i + 1, Len(s))
<1>1. /\ front \in Seq(S) /\ Len(front) = i - 1
      /\ \A j \in 1 .. i - 1 : front[j] = s[j]
    OBVIOUS
<1>2. /\ back \in Seq(S) /\ Len(back) = Len(s) - i
      /\ \A j \in 1 .. Len(s) - i : back[j] = s[i + j]
    OBVIOUS
<1>3. RemoveAt(s, i) = front \o back
    BY DEF RemoveAt
<1> HIDE DEF front, back
<1>4. /\ front \o back \in Seq(S)
      /\ Len(front \o back) = Len(front) + Len(back)
      /\ \A j \in 1 .. Len(front) + Len(back) :
           (front \o back)[j] = IF j <= Len(front) THEN front[j] ELSE back[j - Len(front)]
    BY <1>1, <1>2, ConcatProperties
<1>5. Len(s) \in Nat
    OBVIOUS
<1>6. ASSUME NEW j \in 1 .. Len(s) - 1
      PROVE  RemoveAt(s, i)[j] = IF j < i THEN s[j] ELSE s[j + 1]
    <2>1. CASE j < i
        BY <2>1, <1>1, <1>2, <1>3, <1>4, <1>5
    <2>2. CASE j >= i
        <3>1. j - Len(front) \in 1 .. Len(s) - i
            BY <2>2, <1>1, <1>5
        <3>2. back[j - Len(front)] = s[j + 1]
            BY <3>1, <1>1, <1>2, <1>5
        <3> QED BY <2>2, <3>2, <1>1, <1>2, <1>3, <1>4, <1>5
    <2> QED BY <2>1, <2>2
<1> QED BY <1>1, <1>2, <1>3, <1>4, <1>5, <1>6

LEMMA PushFacts ==
  ASSUME NEW S, NEW s \in Seq(S), NEW a \in S
  PROVE  /\ <<a>> \o s \in Seq(S)
         /\ Len(<<a>> \o s) = Len(s) + 1
         /\ \A j \in 1 .. Len(s) + 1 :
              (<<a>> \o s)[j] = IF j = 1 THEN a ELSE s[j - 1]
OBVIOUS

LEMMA GranulesType == \A n \in Nat : Granules(n) \in Nat /\ Granules(n) > 0
BY DEF Granules

-----------------------------------------------------------------------------
(* The inductive invariant: with the types, where the mutex is; what the   *)
(* locals of a call point to; and that a thread which has looked for a     *)
(* block in the list still finds it there.                                 *)
MutexOK == owner = NoThread <=> depth = 0

Args(t) ==
  /\ pc[t] \in {"idle", "term"} => ptr[t] = Null
  /\ pc[t] \in {"free", "relock", "grow", "move"} => ptr[t] # Null
  /\ ptr[t] # Null /\ pc[t] # "fill" => ptr[t] \in held[t]
  /\ pc[t] \in {"fill", "move"} => fresh[t] \in held[t]
  /\ pc[t] = "move" => fresh[t] # ptr[t]
  /\ pc[t] = "take" /\ found[t] # 0 /\ catcher # t => found[t] \in DOMAIN unused
  /\ pc[t] = "move" /\ catcher # t => okay
ArgsOK == \A t \in Thread : Args(t)

GoneOK == okay \/ unused = <<>>
SigOK == sig = "none" => catcher = NoThread

Flags == okay \in BOOLEAN /\ ended \in BOOLEAN
Types ==
  /\ len \in 0 .. PoolSize
  /\ unused \in Seq(Address)
  /\ size \in [Address -> Nat]
  /\ data \in [Address -> Thread \cup {Clean}]
  /\ owner \in Thread \cup {NoThread}
  /\ depth \in 0 .. 2
  /\ held \in [Thread -> SUBSET Address]
  /\ pc \in [Thread -> Pcs]
  /\ ptr \in [Thread -> Address \cup {Null}]
  /\ fresh \in [Thread -> Address \cup {Null}]
  /\ want \in [Thread -> Nat]
  /\ found \in [Thread -> Nat]
  /\ sig \in {"none", "check", "lock", "raise"}
  /\ catcher \in Thread \cup {NoThread}

LockInv == Types /\ MutexOK /\ LockKept /\ ArgsOK /\ GoneOK /\ SigOK

LEMMA TypeParts == TypeOK <=> Flags /\ Types
BY DEF TypeOK, Flags, Types

(* Where LockKept says the mutex is.                                       *)
LEMMA LockFacts ==
  ASSUME LockKept, NEW t \in Thread
  PROVE  /\ pc[t] \in {"search", "take"} =>
              owner = t /\ depth = IF ptr[t] = Null THEN 1 ELSE 2
         /\ pc[t] = "move" => owner = t /\ depth = 1
         /\ pc[t] \in {"malloc", "lock"} /\ ptr[t] # Null => owner = t /\ depth = 1
         /\ pc[t] \in {"malloc", "lock"} /\ ptr[t] = Null => owner # t
         /\ pc[t] \in {"idle", "fill", "relock", "grow", "free", "term"} => owner # t
BY DEF LockKept, Kept, Nesting

LEMMA ReadSizeCases ==
  ASSUME NEW t, ReadSize(t)
  PROVE  /\ UNCHANGED <<okay, pool, lock, held, signal, ended>>
         /\ Return(t) \/ (Goto(t, "grow") /\ UNCHANGED args)
BY Zenon DEF ReadSize

LEMMA EmptyList == <<>> \in Seq(Address)
OBVIOUS

LEMMA RoomType == Room = PoolSize \/ Room = 0
BY Zenon DEF Room

LEMMA CopiedType ==
  ASSUME Types, NEW from \in Address, NEW to \in Address, from + size[from] <= PoolSize
  PROVE  Copied(from, to) \in [Address -> Thread \cup {Clean}]
<1>1. ASSUME NEW g \in Address, g \in Extent(to), g - to < size[from]
      PROVE  data[from + (g - to)] \in Thread \cup {Clean}
    <2>1. /\ from \in Nat /\ to \in Nat /\ g \in Nat /\ g >= to
          /\ size[from] \in Nat /\ PoolSize \in Nat
        BY <1>1, PoolAssumption DEF Types, Extent, Address
    <2>2. from + (g - to) \in 0 .. PoolSize - 1
        BY <1>1, <2>1
    <2>3. from + (g - to) \in Address
        BY <2>2 DEF Address
    <2> QED BY <2>3 DEF Types
<1> QED BY <1>1 DEF Copied, Types

LEMMA TypesStep ==
  ASSUME LockInv, Disjoint, NEW t \in Thread, Call(t) \/ Continue(t) \/ Signal(t)
  PROVE  Types'
<1> USE DEF LockInv, Types, At, Goto, Return, pool, lock, args, signal, Pcs
<1>1. CASE \E n \in Request : Malloc(t, n)
    BY <1>1, RequestAssumption DEF Malloc
<1>2. CASE \E a \in Address : Free(t, a)
    BY <1>2 DEF Free
<1>3. CASE \E a \in Address, n \in Request : Realloc(t, a, n)
    BY <1>3, RequestAssumption DEF Realloc
<1>4. CASE Quit(t) \/ CheckOkay(t)
    BY <1>4 DEF Quit, CheckOkay
<1>5. CASE Lock(t) \/ Grow(t)
    <2>1. owner' = t /\ depth' = depth + 1
        BY <1>5 DEF Lock, Grow, Locked
    <2>2. depth \in 0 .. 1
        <3>1. CASE owner = t
            <4>1. pc[t] = "lock" /\ ptr[t] # Null
                BY <1>5, <3>1, LockFacts DEF Lock, Grow
            <4> QED BY <4>1, LockFacts
        <3>2. CASE owner = NoThread
            BY <3>2 DEF MutexOK
        <3> QED BY <1>5, <3>1, <3>2 DEF Lock, Grow, Locked, CanLock
    <2>3. pc' \in [Thread -> Pcs]
        BY <1>5 DEF Lock, Grow
    <2>4. UNCHANGED <<pool, held, args, signal>>
        BY <1>5 DEF Lock, Grow
    <2> QED BY <2>1, <2>2, <2>3, <2>4
<1>6. CASE Search(t)
    BY <1>6 DEF Search
<1>7. CASE Reuse(t)
    <2>1. found[t] \in 1 .. Len(unused)
        BY <1>7 DEF Reuse, ArgsOK, Args
    <2>2. unused[found[t]] \in Address
        BY <2>1
    <2>3. unused' \in Seq(Address)
        BY <1>7, <2>1, RemoveAtFacts DEF Reuse
    <2>4. fresh' \in [Thread -> Address \cup {Null}] /\ held' \in [Thread -> SUBSET Address]
        BY <1>7, <2>2 DEF Reuse, Given
    <2>5. pc' \in [Thread -> Pcs]
        BY <1>7 DEF Reuse, Given
    <2>6. owner' \in Thread \cup {NoThread} /\ depth' \in 0 .. 2
        BY <1>7, LockFacts DEF Reuse, Given, Unlocked
    <2>7. UNCHANGED <<len, size, data, ptr, want, found, signal>>
        BY <1>7 DEF Reuse
    <2> QED BY <2>3, <2>4, <2>5, <2>6, <2>7
<1>8. CASE Extend(t)
    <2> DEFINE n == Granules(want[t])
    <2>1. n \in Nat /\ n > 0
        BY GranulesType
    <2>2. len + n <= PoolSize
        BY <1>8, <2>1, RoomType, PoolAssumption DEF Extend
    <2>3. len \in Address /\ len + n \in 0 .. PoolSize
        BY <2>1, <2>2, PoolAssumption DEF Address
    <2> HIDE DEF n
    <2>4. len' = len + n /\ size' = [size EXCEPT ![len] = n]
        BY <1>8 DEF Extend, n
    <2>5. fresh' \in [Thread -> Address \cup {Null}] /\ held' \in [Thread -> SUBSET Address]
        BY <1>8, <2>3 DEF Extend, Given
    <2>6. pc' \in [Thread -> Pcs]
        BY <1>8 DEF Extend, Given
    <2>7. owner' \in Thread \cup {NoThread} /\ depth' \in 0 .. 2
        BY <1>8, LockFacts DEF Extend, Given, Unlocked
    <2>8. UNCHANGED <<unused, data, ptr, want, found, signal>>
        BY <1>8 DEF Extend
    <2>9. size' \in [Address -> Nat]
        BY <2>1, <2>4
    <2> QED BY <2>3, <2>4, <2>5, <2>6, <2>7, <2>8, <2>9
<1>9. CASE Exhausted(t)
    BY <1>9, LockFacts DEF Exhausted, Unlocked
<1>10. CASE Fill(t)
    BY <1>10 DEF Fill
<1>11. CASE FreeBlock(t)
    BY <1>11, PushFacts DEF FreeBlock, Wiped, Pushed, Dropped, ArgsOK, Args
<1>12. CASE ReadSize(t)
    <2>1. UNCHANGED <<pool, lock, held, signal>>
        BY <1>12 DEF ReadSize
    <2>2. CASE want[t] <= Capacity(ptr[t]) /\ Return(t)
        BY <2>1, <2>2
    <2>3. CASE Goto(t, "grow") /\ UNCHANGED args
        BY <2>1, <2>3
    <2> QED BY <1>12, <2>2, <2>3 DEF ReadSize
<1>13. CASE Move(t)
    <2>1. ptr[t] \in Address
        BY <1>13 DEF Move, ArgsOK, Args
    <2>2. unused' \in Seq(Address)
        BY <1>13, <2>1, PushFacts DEF Move, Pushed
    <2>3. data' \in [Address -> Thread \cup {Clean}]
        <3>1. Copied(ptr[t], fresh[t]) \in [Address -> Thread \cup {Clean}]
            <4>1. okay
                BY <1>13, Zenon DEF Move, ArgsOK, Args
            <4>2. Separate
                BY <4>1, Zenon DEF Disjoint
            <4>3. ptr[t] \in Blocks /\ ptr[t] + size[ptr[t]] <= len
                BY <1>13, <4>2 DEF Move, ArgsOK, Args, Separate, Blocks
            <4>4. fresh[t] \in Address
                BY <1>13 DEF Move, ArgsOK, Args
            <4>5. ptr[t] + size[ptr[t]] <= PoolSize
                BY <2>1, <4>3, PoolAssumption DEF Address
            <4>6. Types
                OBVIOUS
            <4> HIDE DEF Types
            <4> QED BY <2>1, <4>4, <4>5, <4>6, CopiedType
        <3> QED BY <1>13, <3>1 DEF Move, Wiped
    <2>4. held' \in [Thread -> SUBSET Address] /\ pc' \in [Thread -> Pcs]
        BY <1>13 DEF Move, Dropped
    <2>5. owner' \in Thread \cup {NoThread} /\ depth' \in 0 .. 2
        BY <1>13, LockFacts DEF Move, Unlocked
    <2>6. UNCHANGED <<len, size, args, signal>>
        BY <1>13 DEF Move
    <2> QED BY <2>2, <2>3, <2>4, <2>5, <2>6
<1>14. CASE Term(t)
    BY <1>14, PoolAssumption, EmptyList DEF Term, Terminated, AllClean
<1>15. CASE Signal(t)
    BY <1>15 DEF Signal
<1> QED BY <1>1, <1>2, <1>3, <1>4, <1>5, <1>6, <1>7, <1>8, <1>9, <1>10, <1>11,
           <1>12, <1>13, <1>14, <1>15 DEF Call, Continue

-----------------------------------------------------------------------------
(* The mutex: what a step of one thread leaves to the others.              *)
LEMMA OtherKept ==
  ASSUME NEW t \in Thread, NEW u \in Thread, u # t, Kept(u),
         pc'[u] = pc[u], ptr'[u] = ptr[u], ~okay => ~okay',
         \/ UNCHANGED <<owner, depth>>
         \/ owner \in {NoThread, t} /\ owner' \in {NoThread, t}
  PROVE  Kept(u)'
<1>1. Nesting(u)' = Nesting(u)
    BY DEF Nesting
<1>2. CASE UNCHANGED <<owner, depth>>
    BY <1>1, <1>2, Zenon DEF Kept
<1>3. CASE owner \in {NoThread, t} /\ owner' \in {NoThread, t}
    <2>1. owner # u /\ owner' # u
        BY <1>3, NoneAssumption
    <2> QED BY <1>1, <2>1, Zenon DEF Kept
<1> QED BY <1>2, <1>3

LEMMA OwnKept ==
  ASSUME NEW t \in Thread,
         \/ pc'[t] \in {"search", "take"} /\ owner' = t
            /\ depth' = IF ptr'[t] = Null THEN 1 ELSE 2
         \/ pc'[t] \in {"malloc", "lock"} /\ ptr'[t] # Null /\ owner' = t /\ depth' = 1
         \/ pc'[t] \in {"malloc", "lock"} /\ ptr'[t] = Null /\ owner' # t
         \/ pc'[t] = "move" /\ owner' = t /\ depth' = 1
         \/ pc'[t] \in {"idle", "fill", "relock", "grow", "free", "term"} /\ owner' # t
         \/ pc'[t] = "exit" /\ (owner' # t \/ ~okay')
  PROVE  Kept(t)'
<1>1. CASE pc'[t] # "exit"
    BY <1>1 DEF Kept, Nesting
<1>2. CASE pc'[t] = "exit" /\ (owner' # t \/ ~okay')
    <2>1. ~(Nesting(t)' > 0)
        BY <1>2 DEF Nesting
    <2> QED BY <1>2, <2>1, Zenon DEF Kept
<1> QED BY <1>1, <1>2

LEMMA LockStep ==
  ASSUME LockInv, NEW t \in Thread, Call(t) \/ Continue(t) \/ Signal(t)
  PROVE  MutexOK' /\ LockKept'
<1> DEFINE Mine ==
      /\ MutexOK'
      /\ Kept(t)'
      /\ \A u \in Thread \ {t} : pc'[u] = pc[u] /\ ptr'[u] = ptr[u]
      /\ ~okay => ~okay'
      /\ \/ UNCHANGED <<owner, depth>>
         \/ owner \in {NoThread, t} /\ owner' \in {NoThread, t}
<1> SUFFICES Mine
    <2>1. ASSUME Mine, NEW u \in Thread, u # t PROVE Kept(u)'
        <3>1. Kept(u)
            BY DEF LockInv, LockKept
        <3> QED BY <2>1, <3>1, OtherKept
    <2> QED BY <2>1, Zenon DEF LockKept
<1> USE DEF LockInv, At, Goto, Return, pool, lock, args, signal
<1>1. CASE \E n \in Request : Malloc(t, n)
    <2>1. pc'[t] = "malloc" /\ ptr'[t] = Null /\ owner' # t
        BY <1>1, LockFacts DEF Malloc, ArgsOK, Args, Types
    <2>2. Kept(t)'
        BY <2>1, OwnKept
    <2> QED BY <1>1, <2>2 DEF Malloc, MutexOK, Types
<1>2. CASE \/ \E a \in Address : Free(t, a)
           \/ \E a \in Address, n \in Request : Realloc(t, a, n)
    <2>1. pc'[t] \in {"free", "relock"} /\ owner' # t
        BY <1>2, LockFacts DEF Free, Realloc, Types
    <2>2. Kept(t)'
        BY <2>1, OwnKept
    <2> QED BY <1>2, <2>2 DEF Free, Realloc, MutexOK, Types
<1>3. CASE Quit(t)
    <2>1. pc'[t] \in {"term", "exit"} /\ owner' # t
        BY <1>3, LockFacts DEF Quit, Types
    <2>2. Kept(t)'
        BY <2>1, OwnKept
    <2> QED BY <1>3, <2>2 DEF Quit, MutexOK, Types
<1>4. CASE CheckOkay(t)
    <2>1. CASE okay /\ Goto(t, "lock")
        <3>1. \/ pc'[t] = "lock" /\ ptr'[t] # Null /\ owner' = t /\ depth' = 1
              \/ pc'[t] = "lock" /\ ptr'[t] = Null /\ owner' # t
            BY <1>4, <2>1, LockFacts DEF CheckOkay, Types
        <3>2. Kept(t)'
            BY <3>1, OwnKept
        <3> QED BY <1>4, <2>1, <3>2 DEF CheckOkay, MutexOK, Types
    <2>2. CASE ~okay /\ Goto(t, "exit")
        <3>1. pc'[t] = "exit"
            BY <2>2 DEF Types
        <3>2. ~okay'
            BY <1>4, <2>2, Zenon DEF CheckOkay
        <3>3. Kept(t)'
            BY <3>1, <3>2, OwnKept
        <3> QED BY <1>4, <2>2, <3>3 DEF CheckOkay, MutexOK, Types
    <2> QED BY <1>4, <2>1, <2>2 DEF CheckOkay
<1>5. CASE Lock(t)
    <2>1. depth = IF ptr[t] = Null THEN 0 ELSE 1
        BY <1>5, LockFacts DEF Lock, Locked, CanLock, MutexOK
    <2>2. pc'[t] = "search" /\ owner' = t /\ depth' = IF ptr'[t] = Null THEN 1 ELSE 2
        BY <1>5, <2>1 DEF Lock, Locked, Types
    <2>3. Kept(t)'
        BY <2>2, OwnKept
    <2>4. depth' # 0 /\ owner' # NoThread
        BY <2>2, NoneAssumption
    <2> QED BY <1>5, <2>2, <2>3, <2>4 DEF Lock, Locked, CanLock, MutexOK, Types
<1>6. CASE Search(t)
    <2>1. pc'[t] = "take" /\ owner' = t /\ depth' = IF ptr'[t] = Null THEN 1 ELSE 2
        BY <1>6, LockFacts DEF Search, Types
    <2>2. Kept(t)'
        BY <2>1, OwnKept
    <2> QED BY <1>6, <2>2 DEF Search, MutexOK, Types
<1>7. CASE Reuse(t) \/ Extend(t)
    <2>1. owner = t /\ depth = IF ptr[t] = Null THEN 1 ELSE 2
        BY <1>7, LockFacts DEF Reuse, Extend
    <2>2. \/ pc'[t] = "fill" /\ owner' = NoThread /\ depth' = 0
          \/ pc'[t] = "move" /\ owner' = t /\ depth' = 1
        BY <1>7, <2>1 DEF Reuse, Extend, Given, Unlocked, Types
    <2>3. Kept(t)'
        BY <2>2, OwnKept, NoneAssumption
    <2>4. MutexOK'
        BY <2>2, NoneAssumption DEF MutexOK
    <2> QED BY <1>7, <2>1, <2>2, <2>3, <2>4 DEF Reuse, Extend, Given, Types
<1>8. CASE Exhausted(t)
    <2>1. owner = t /\ owner' = NoThread /\ depth' = 0 /\ pc'[t] = "exit"
        BY <1>8, LockFacts DEF Exhausted, Unlocked, Types
    <2>2. Kept(t)'
        BY <2>1, OwnKept, NoneAssumption
    <2> QED BY <1>8, <2>1, <2>2 DEF Exhausted, MutexOK, Types
<1>9. CASE Fill(t) \/ FreeBlock(t)
    <2>1. pc'[t] = "idle" /\ owner' # t
        BY <1>9, LockFacts DEF Fill, FreeBlock, Types
    <2>2. Kept(t)'
        BY <2>1, OwnKept
    <2> QED BY <1>9, <2>2 DEF Fill, FreeBlock, MutexOK, Types
<1>10. CASE ReadSize(t)
    <2>1. UNCHANGED <<okay, lock>> /\ (Return(t) \/ (Goto(t, "grow") /\ UNCHANGED args))
        BY <1>10, ReadSizeCases, Zenon
    <2>2. pc'[t] \in {"idle", "grow"} /\ owner' # t
        BY <1>10, <2>1, LockFacts DEF ReadSize, Types
    <2>3. Kept(t)'
        BY <2>2, OwnKept
    <2> QED BY <2>1, <2>3 DEF MutexOK, Types
<1>11. CASE Grow(t)
    <2>1. ptr[t] # Null /\ owner # t
        BY <1>11, LockFacts DEF Grow, ArgsOK, Args
    <2>2. pc'[t] = "malloc" /\ ptr'[t] # Null /\ owner' = t /\ depth' = 1
        BY <1>11, <2>1 DEF Grow, Locked, CanLock, MutexOK, Types
    <2>3. Kept(t)'
        BY <2>2, OwnKept
    <2>4. MutexOK'
        BY <2>2, NoneAssumption DEF MutexOK
    <2> QED BY <1>11, <2>2, <2>3, <2>4 DEF Grow, Locked, CanLock, Types
<1>12. CASE Move(t)
    <2>1. owner = t /\ owner' = NoThread /\ depth' = 0 /\ pc'[t] = "fill"
        BY <1>12, LockFacts DEF Move, Unlocked, Types
    <2>2. Kept(t)'
        BY <2>1, OwnKept, NoneAssumption
    <2> QED BY <1>12, <2>1, <2>2 DEF Move, MutexOK, Types
<1>13. CASE Term(t)
    <2>1. pc'[t] = "exit" /\ owner' # t
        BY <1>13, LockFacts DEF Term, Terminated, Types
    <2>2. Kept(t)'
        BY <2>1, OwnKept
    <2>3. ~okay'
        BY <1>13, Zenon DEF Term, Terminated
    <2> QED BY <1>13, <2>2, <2>3 DEF Term, Terminated, MutexOK, Types
<1>14. CASE Signal(t)
    <2>1. Kept(t)'
        BY <1>14, Zenon DEF Signal, LockKept, Kept, Nesting
    <2> QED BY <1>14, <2>1 DEF Signal, MutexOK, Types
<1> QED BY <1>1, <1>2, <1>3, <1>4, <1>5, <1>6, <1>7, <1>8, <1>9, <1>10, <1>11,
           <1>12, <1>13, <1>14 DEF Call, Continue

-----------------------------------------------------------------------------
(* The locals: what a step of one thread leaves to the others.             *)
LEMMA OtherArgs ==
  ASSUME NEW t \in Thread, NEW u \in Thread, u # t, Args(u), Kept(u),
         pc'[u] = pc[u], ptr'[u] = ptr[u], held'[u] = held[u],
         found'[u] = found[u], fresh'[u] = fresh[u],
         catcher = u => catcher' = u,
         \/ UNCHANGED <<okay, unused>>
         \/ owner \in {NoThread, t}
  PROVE  Args(u)'
<1>1. CASE UNCHANGED <<okay, unused>>
    BY <1>1, Zenon DEF Args
<1>2. CASE owner \in {NoThread, t}
    <2>1. pc[u] \notin {"take", "move"}
        BY <1>2, NoneAssumption DEF Kept, Nesting
    <2> QED BY <2>1 DEF Args
<1> QED BY <1>1, <1>2

LEMMA SearchFacts == ASSUME NEW t \in Thread, LockInv, Search(t)
  PROVE  /\ found' = [found EXCEPT ![t] = found'[t]]
         /\ found'[t] # 0 => found'[t] \in DOMAIN unused
<1>1. PICK i \in 0 .. Len(unused) : found' = [found EXCEPT ![t] = i]
    BY DEF Search
<1>2. found'[t] = i
    BY <1>1 DEF LockInv, Types
<1> QED BY <1>1, <1>2 DEF LockInv, Types

LEMMA ArgsStep ==
  ASSUME LockInv, Disjoint, NEW t \in Thread, Call(t) \/ Continue(t) \/ Signal(t)
  PROVE  ArgsOK' /\ GoneOK' /\ SigOK'
<1> DEFINE Same == UNCHANGED <<okay, unused>>
           Mine ==
             /\ Args(t)' /\ GoneOK' /\ SigOK'
             /\ \A u \in Thread \ {t} :
                  /\ pc'[u] = pc[u] /\ ptr'[u] = ptr[u] /\ held'[u] = held[u]
                  /\ found'[u] = found[u] /\ fresh'[u] = fresh[u]
                  /\ catcher = u => catcher' = u
             /\ Same \/ owner \in {NoThread, t}
<1> SUFFICES Mine
    <2>1. ASSUME Mine, NEW u \in Thread, u # t PROVE Args(u)'
        <3>1. Args(u) /\ Kept(u)
            BY DEF LockInv, LockKept, ArgsOK
        <3> QED BY <2>1, <3>1, OtherArgs
    <2> QED BY <2>1, Zenon DEF ArgsOK
<1>a. ASSUME Same PROVE GoneOK'
    BY <1>a, Zenon DEF LockInv, GoneOK
<1>b. Args(t) /\ Types /\ GoneOK /\ SigOK
    BY DEF LockInv, ArgsOK
<1> HIDE DEF Same
<1> USE <1>b DEF At, Goto, Return, lock, args, signal, Types, SigOK
<1>1. CASE \E n \in Request : Malloc(t, n)
    <2>1. Args(t)'
        BY <1>1 DEF Malloc, Args, pool
    <2>2. Same
        BY <1>1, Zenon DEF Malloc, pool, Same
    <2> QED BY <1>1, <2>1, <2>2, <1>a DEF Malloc
<1>2. CASE \/ \E a \in Address : Free(t, a)
           \/ \E a \in Address, n \in Request : Realloc(t, a, n)
    <2>1. Args(t)'
        BY <1>2, NullAssumption DEF Free, Realloc, Args, Address
    <2>2. Same
        BY <1>2, Zenon DEF Free, Realloc, pool, Same
    <2> QED BY <1>2, <2>1, <2>2, <1>a DEF Free, Realloc
<1>3. CASE Quit(t) \/ CheckOkay(t) \/ Lock(t) \/ Grow(t) \/ Exhausted(t)
    <2>1. Args(t)'
        BY <1>3 DEF Quit, CheckOkay, Lock, Grow, Exhausted, Args
    <2>2. Same
        BY <1>3, Zenon DEF Quit, CheckOkay, Lock, Grow, Exhausted, pool, Same
    <2> QED BY <1>3, <2>1, <2>2, <1>a DEF Quit, CheckOkay, Lock, Grow, Exhausted
<1>4. CASE Search(t)
    <2>1. Args(t)'
        BY <1>4, SearchFacts DEF Search, Args, pool
    <2>2. Same
        BY <1>4, Zenon DEF Search, pool, Same
    <2> QED BY <1>4, <2>1, <2>2, <1>a, SearchFacts DEF Search
<1>5. CASE Reuse(t)
    <2>1. found[t] \in 1 .. Len(unused)
        BY <1>5 DEF Reuse, Args
    <2>2. owner = t
        BY <1>5, LockFacts DEF Reuse, LockInv
    <2>3. unused # <<>>
        BY <2>1
    <2>4. okay /\ Separate
        BY <2>3, Zenon DEF GoneOK, Disjoint
    <2>5. unused[found[t]] \in Address /\ unused[found[t]] \in Range(unused)
        BY <2>1 DEF Range
    <2>6. ptr[t] # Null => ptr[t] # unused[found[t]]
        BY <1>5, <2>4, <2>5 DEF Reuse, Args, Separate
    <2>7. Args(t)'
        <3>1. (pc[t] = "move" => okay)'
            BY <1>5, <2>4, Zenon DEF Reuse
        <3>2. /\ pc'[t] = IF ptr[t] = Null THEN "fill" ELSE "move"
              /\ fresh'[t] = unused[found[t]] /\ held'[t] = held[t] \cup {fresh'[t]}
              /\ ptr' = ptr
            BY <1>5, <2>5 DEF Reuse, Given
        <3> QED BY <1>5, <2>6, <3>1, <3>2 DEF Reuse, Args
    <2>8. GoneOK'
        BY <1>5, <2>4, Zenon DEF Reuse, GoneOK
    <2> QED BY <1>5, <2>2, <2>7, <2>8 DEF Reuse, Given
<1>6. CASE Extend(t)
    <2>1. owner = t
        BY <1>6, LockFacts DEF Extend, LockInv
    <2>2. okay /\ Separate
        <3>1. Room # 0
            BY <1>6, GranulesType DEF Extend
        <3> QED BY <3>1, Zenon DEF Room, Disjoint
    <2>3. ptr[t] # Null => ptr[t] # len
        <3>1. ASSUME ptr[t] # Null
              PROVE  ptr[t] \in Blocks /\ ptr[t] \in Address
            BY <1>6, <3>1 DEF Extend, Args, Blocks
        <3>2. \A a \in Blocks : size[a] > 0 /\ a + size[a] <= len
            BY <2>2, Zenon DEF Separate
        <3>3. \A a \in Address : size[a] \in Nat /\ a \in Nat
            BY PoolAssumption DEF Address
        <3> QED BY <3>1, <3>2, <3>3
    <2>4. Args(t)'
        <3>1. (pc[t] = "move" => okay)'
            BY <1>6, <2>2, Zenon DEF Extend
        <3>2. /\ pc'[t] = IF ptr[t] = Null THEN "fill" ELSE "move"
              /\ fresh'[t] = len /\ held'[t] = held[t] \cup {fresh'[t]}
              /\ ptr' = ptr
            BY <1>6 DEF Extend, Given
        <3> QED BY <1>6, <2>3, <3>1, <3>2 DEF Extend, Args
    <2>5. GoneOK'
        BY <1>6, <2>2, Zenon DEF Extend, GoneOK
    <2> QED BY <1>6, <2>1, <2>4, <2>5 DEF Extend, Given
<1>7. CASE Fill(t)
    <2>1. Args(t)'
        BY <1>7 DEF Fill, Args
    <2>2. Same
        BY <1>7, Zenon DEF Fill, Same
    <2> QED BY <1>7, <2>1, <2>2, <1>a DEF Fill
<1>8. CASE FreeBlock(t)
    <2>1. Args(t)'
        BY <1>8 DEF FreeBlock, Args
    <2>2. GoneOK'
        BY <1>8, Zenon DEF FreeBlock, GoneOK
    <2>3. owner \in {NoThread, t}
        BY <1>8 DEF FreeBlock, CanLock
    <2> QED BY <1>8, <2>1, <2>2, <2>3 DEF FreeBlock, Dropped
<1>9. CASE ReadSize(t)
    <2>1. Same
        BY <1>9, ReadSizeCases, Zenon DEF pool, Same
    <2>2. CASE Return(t)
        BY <1>9, <1>a, <2>1, <2>2, ReadSizeCases DEF Args
    <2>3. CASE Goto(t, "grow") /\ UNCHANGED args
        BY <1>9, <1>a, <2>1, <2>3, ReadSizeCases DEF ReadSize, Args
    <2> QED BY <1>9, <2>2, <2>3, ReadSizeCases
<1>10. CASE Move(t)
    <2>1. Args(t)'
        BY <1>10 DEF Move, Dropped, Args
    <2>2. GoneOK'
        BY <1>10, Zenon DEF Move, GoneOK, Args
    <2>3. owner \in {NoThread, t}
        BY <1>10, LockFacts DEF Move, LockInv
    <2> QED BY <1>10, <2>1, <2>2, <2>3 DEF Move, Dropped
<1>11. CASE Term(t)
    <2>1. Args(t)'
        BY <1>11 DEF Term, Terminated, Args
    <2>2. GoneOK'
        BY <1>11, Zenon DEF Term, Terminated, GoneOK
    <2>3. owner \in {NoThread, t}
        BY <1>11 DEF Term, CanLock
    <2> QED BY <1>11, <2>1, <2>2, <2>3 DEF Term, Terminated
<1>12. CASE Signal(t)
    <2>1. Args(t)'
        BY <1>12 DEF Signal, Args
    <2>2. Same
        BY <1>12, Zenon DEF Signal, pool, Same
    <2> QED BY <1>12, <2>1, <2>2, <1>a, NoneAssumption DEF Signal
<1> QED BY <1>1, <1>2, <1>3, <1>4, <1>5, <1>6, <1>7, <1>8, <1>9, <1>10, <1>11, <1>12
        DEF Call, Continue

-----------------------------------------------------------------------------
(* The blocks: from the list to a thread, from the end of the used part to *)
(* a thread, and from a thread to the list.                                *)
LEMMA BlocksIn ==
  /\ \A a \in Range(unused) : a \in Blocks
  /\ \A t \in Thread : \A a \in held[t] : a \in Blocks
BY DEF Blocks

LEMMA TakeSeparate ==
  ASSUME Types, Separate, NEW t \in Thread, NEW i \in 1 .. Len(unused),
         unused' = RemoveAt(unused, i),
         held' = [held EXCEPT ![t] = @ \cup {unused[i]}],
         UNCHANGED <<size, len>>
  PROVE  Separate'
<1> DEFINE Old(j) == IF j < i THEN j ELSE j + 1
<1>1. /\ DOMAIN unused = 1 .. Len(unused) /\ Len(unused) \in Nat
      /\ unused \in Seq(Address)
    BY DEF Types
<1>2. /\ DOMAIN unused' = 1 .. Len(unused) - 1
      /\ \A j \in DOMAIN unused' :
           Old(j) \in DOMAIN unused /\ Old(j) # i /\ unused'[j] = unused[Old(j)]
    <2>1. /\ unused' \in Seq(Address) /\ Len(unused') = Len(unused) - 1
          /\ \A j \in 1 .. Len(unused) - 1 :
               unused'[j] = IF j < i THEN unused[j] ELSE unused[j + 1]
        BY <1>1, RemoveAtFacts
    <2>2. DOMAIN unused' = 1 .. Len(unused) - 1
        BY <2>1
    <2> QED BY <1>1, <2>1, <2>2
<1>3. \A j, k \in DOMAIN unused : unused[j] = unused[k] => j = k
    BY DEF Separate
<1>4. \A j, k \in DOMAIN unused' : unused'[j] = unused'[k] => j = k
    <2> SUFFICES ASSUME NEW j \in DOMAIN unused', NEW k \in DOMAIN unused',
                        unused'[j] = unused'[k]
                 PROVE  j = k
        OBVIOUS
    <2>1. Old(j) = Old(k)
        BY <1>2, <1>3
    <2>2. j \in Int /\ k \in Int
        BY <1>1, <1>2
    <2> QED BY <2>1, <2>2
<1> HIDE DEF Old
<1>5. \A a \in Range(unused') : a \in Range(unused) /\ a # unused[i]
    BY <1>1, <1>2, <1>3 DEF Range
<1>6. unused[i] \in Range(unused)
    BY <1>1 DEF Range
<1>7. \A u \in Thread : held'[u] = IF u = t THEN held[t] \cup {unused[i]} ELSE held[u]
    BY DEF Types
<1>8. \A a \in Blocks' : a \in Blocks
    BY <1>5, <1>6, <1>7 DEF Blocks
<1>9. \A u \in Thread : held'[u] \cap Range(unused') = {}
    BY <1>5, <1>7 DEF Separate
<1>10. \A u, v \in Thread : u # v => held'[u] \cap held'[v] = {}
    BY <1>6, <1>7 DEF Separate
<1>11. \A a, b \in Blocks' : a # b => Apart(a, b)'
    BY <1>8 DEF Separate, Apart
<1>12. \A a \in Blocks' : size'[a] > 0 /\ a + size'[a] <= len'
    BY <1>8 DEF Separate
<1> QED BY <1>4, <1>9, <1>10, <1>11, <1>12 DEF Separate

LEMMA GiveSeparate ==
  ASSUME Types, Separate, NEW t \in Thread, NEW n \in Nat, n > 0,
         len \in Address,
         held' = [held EXCEPT ![t] = @ \cup {len}],
         size' = [size EXCEPT ![len] = n], len' = len + n, UNCHANGED unused
  PROVE  Separate'
<1>1. \A u \in Thread : held'[u] = IF u = t THEN held[t] \cup {len} ELSE held[u]
    BY DEF Types
<1>2. \A a \in Blocks : a \in Address
    <2>1. \A a \in Range(unused) : a \in Address
        BY DEF Range, Types
    <2> QED BY <2>1 DEF Blocks, Types
<1>3. \A a \in Address : a \in Nat /\ size[a] \in Nat
    BY PoolAssumption DEF Types, Address
<1>4. \A a \in Blocks : size[a] > 0 /\ a + size[a] <= len
    BY DEF Separate
<1>5. \A a \in Blocks : a < len
    BY <1>2, <1>3, <1>4
<1>6. /\ size'[len] = n
      /\ \A a \in Blocks : size'[a] = size[a]
    BY <1>2, <1>5 DEF Types
<1>7. \A a \in Blocks' : a \in Blocks \/ a = len
    BY <1>1 DEF Blocks
<1>8. len \notin Blocks
    BY <1>3, <1>5
<1>9. \A u \in Thread : held'[u] \cap Range(unused') = {}
    BY <1>1, <1>8, BlocksIn DEF Separate
<1>10. \A u, v \in Thread : u # v => held'[u] \cap held'[v] = {}
    BY <1>1, <1>8, BlocksIn DEF Separate
<1>11. ASSUME NEW a \in Blocks', NEW b \in Blocks', a # b
       PROVE  Apart(a, b)'
    <2>1. CASE a \in Blocks /\ b \in Blocks
        <3>1. Apart(a, b)
            BY <1>11, <2>1 DEF Separate
        <3> QED BY <2>1, <3>1, <1>6 DEF Apart
    <2>2. CASE a = len /\ b \in Blocks
        BY <2>2, <1>4, <1>6 DEF Apart
    <2>3. CASE a \in Blocks /\ b = len
        BY <2>3, <1>4, <1>6 DEF Apart
    <2> QED BY <1>7, <1>11, <2>1, <2>2, <2>3
<1>12. ASSUME NEW a \in Blocks'
       PROVE  size'[a] > 0 /\ a + size'[a] <= len'
    <2>1. CASE a \in Blocks
        BY <2>1, <1>2, <1>3, <1>4, <1>6
    <2>2. CASE a = len
        BY <2>2, <1>3, <1>6
    <2> QED BY <1>7, <2>1, <2>2
<1> QED BY <1>9, <1>10, <1>11, <1>12 DEF Separate

LEMMA BackSeparate ==
  ASSUME Types, Separate, NEW t \in Thread, NEW a \in held[t],
         unused' = <<a>> \o unused, held' = [held EXCEPT ![t] = @ \ {a}],
         UNCHANGED <<size, len>>
  PROVE  Separate'
<1>1. /\ DOMAIN unused = 1 .. Len(unused) /\ Len(unused) \in Nat
      /\ unused \in Seq(Address) /\ a \in Address
    BY DEF Types
<1>2. /\ DOMAIN unused' = 1 .. Len(unused) + 1
      /\ \A j \in DOMAIN unused' :
           unused'[j] = IF j = 1 THEN a ELSE unused[j - 1]
    BY <1>1, PushFacts
<1>3. \A j \in DOMAIN unused' : j # 1 => j - 1 \in DOMAIN unused
    BY <1>1, <1>2
<1>4. \A j \in DOMAIN unused : unused[j] \in Range(unused) /\ unused[j] # a
    BY DEF Separate, Range
<1>5. ASSUME NEW j \in DOMAIN unused', NEW k \in DOMAIN unused',
             unused'[j] = unused'[k]
      PROVE  j = k
    <2>1. CASE j # 1 /\ k # 1
        <3>1. j - 1 = k - 1
            BY <1>2, <1>3, <1>5, <2>1 DEF Separate
        <3> QED BY <3>1, <1>1, <1>2
    <2>2. CASE j = 1 \/ k = 1
        BY <1>2, <1>3, <1>4, <1>5, <2>2
    <2> QED BY <2>1, <2>2
<1>6. \A b \in Range(unused') : b = a \/ b \in Range(unused)
    BY <1>2, <1>3, <1>4 DEF Range
<1>7. \A u \in Thread : held'[u] = IF u = t THEN held[t] \ {a} ELSE held[u]
    BY DEF Types
<1>8. \A b \in Blocks' : b \in Blocks
    BY <1>6, <1>7 DEF Blocks
<1>9. \A u \in Thread : u # t => a \notin held[u]
    BY DEF Separate
<1>10. \A u \in Thread : held'[u] \cap Range(unused') = {}
    BY <1>6, <1>7, <1>9 DEF Separate
<1>11. \A u, v \in Thread : u # v => held'[u] \cap held'[v] = {}
    BY <1>7 DEF Separate
<1>12. \A b, c \in Blocks' : b # c => Apart(b, c)'
    BY <1>8 DEF Separate, Apart
<1>13. \A b \in Blocks' : size'[b] > 0 /\ b + size'[b] <= len'
    BY <1>8 DEF Separate
<1> QED BY <1>5, <1>10, <1>11, <1>12, <1>13 DEF Separate

LEMMA DisjointStep ==
  ASSUME LockInv, Disjoint, NEW t \in Thread, Call(t) \/ Continue(t) \/ Signal(t)
  PROVE  Disjoint'
<1> DEFINE Quiet == UNCHANGED <<okay, unused, held, size, len>>
<1>a. ASSUME Quiet PROVE Disjoint'
    <2>1. UNCHANGED <<okay, unused, held, size, len>>
        BY <1>a DEF Quiet
    <2>2. Blocks' = Blocks
        BY <2>1 DEF Blocks
    <2>3. Separate => Separate'
        BY <2>1, <2>2 DEF Separate, Apart
    <2> QED BY <2>1, <2>3, Zenon DEF Disjoint
<1> HIDE DEF Quiet
<1>b. Types /\ Args(t)
    BY DEF LockInv, ArgsOK
<1>1. CASE Call(t)
    <2>1. Quiet
        BY <1>1, Zenon DEF Call, Malloc, Free, Realloc, Quit, Quiet, pool
    <2> QED BY <1>a, <2>1
<1>2. CASE CheckOkay(t) \/ Lock(t) \/ Search(t) \/ Exhausted(t) \/ Fill(t)
           \/ ReadSize(t) \/ Grow(t) \/ Signal(t)
    <2>1. Quiet
        BY <1>2, Zenon DEF CheckOkay, Lock, Search, Exhausted, Fill, ReadSize, Grow,
           Signal, Quiet, pool
    <2> QED BY <1>a, <2>1
<1>3. CASE Reuse(t)
    <2>1. found[t] \in 1 .. Len(unused)
        BY <1>3, <1>b DEF Reuse, At, Args, Types
    <2>2. unused # <<>>
        BY <2>1
    <2>3. Separate
        BY <2>2, Zenon DEF LockInv, GoneOK, Disjoint
    <2>4. /\ unused' = RemoveAt(unused, found[t])
          /\ held' = [held EXCEPT ![t] = @ \cup {unused[found[t]]}]
          /\ UNCHANGED <<size, len>>
        BY <1>3, Zenon DEF Reuse, Given
    <2>5. Separate'
        BY <1>b, <2>1, <2>3, <2>4, TakeSeparate
    <2> QED BY <2>5, Zenon DEF Disjoint
<1>4. CASE Extend(t)
    <2> DEFINE n == Granules(want[t])
    <2>1. n \in Nat /\ n > 0
        BY <1>b, GranulesType DEF Types
    <2>2. len + n <= Room
        BY <1>4, Zenon DEF Extend
    <2>3. /\ held' = [held EXCEPT ![t] = @ \cup {len}]
          /\ size' = [size EXCEPT ![len] = n] /\ len' = len + n /\ UNCHANGED unused
        BY <1>4, Zenon DEF Extend, Given
    <2> HIDE DEF n
    <2>4. Room # 0 /\ len \in Address
        BY <1>b, <2>1, <2>2, RoomType, PoolAssumption DEF Types, Address
    <2>5. Separate
        BY <2>4, Zenon DEF Room, Disjoint
    <2>6. Separate'
        BY <1>b, <2>1, <2>3, <2>4, <2>5, GiveSeparate
    <2> QED BY <2>6, Zenon DEF Disjoint
<1>5. CASE FreeBlock(t) \/ Move(t)
    <2>1. ptr[t] \in held[t]
        BY <1>5, <1>b DEF FreeBlock, Move, At, Args
    <2>2. okay
        BY <1>5, <1>b, Zenon DEF FreeBlock, Move, At, Args
    <2>3. Separate
        BY <2>2, Zenon DEF Disjoint
    <2>4. /\ unused' = <<ptr[t]>> \o unused
          /\ held' = [held EXCEPT ![t] = @ \ {ptr[t]}]
          /\ UNCHANGED <<size, len>>
        BY <1>5, Zenon DEF FreeBlock, Move, Pushed, Dropped
    <2>5. Separate'
        BY <1>b, <2>1, <2>3, <2>4, BackSeparate
    <2> QED BY <2>5, Zenon DEF Disjoint
<1>6. CASE Term(t)
    BY <1>6, Zenon DEF Term, Terminated, Disjoint
<1> QED BY <1>1, <1>2, <1>3, <1>4, <1>5, <1>6, Zenon DEF Continue

-----------------------------------------------------------------------------
(* The state of a process that has begun, and of one that is gone.         *)
Fresh ==
  /\ len = 0 /\ unused = <<>> /\ size = NoMemory /\ data = AllClean
  /\ owner = NoThread /\ depth = 0
  /\ held = All({}) /\ pc = All("idle")
  /\ ptr = All(Null) /\ fresh = All(Null) /\ want = All(0) /\ found = All(0)
  /\ sig = "none" /\ catcher = NoThread

Inv == LockInv /\ Disjoint
IInv == Flags /\ Inv

LEMMA FreshInv == Fresh => Inv
<1> SUFFICES ASSUME Fresh PROVE Inv
    OBVIOUS
<1> USE DEF Fresh, All, NoMemory, AllClean
<1>1. len \in 0 .. PoolSize /\ depth \in 0 .. 2
    BY PoolAssumption
<1>2. /\ unused \in Seq(Address)
      /\ size \in [Address -> Nat]
      /\ data \in [Address -> Thread \cup {Clean}]
    BY EmptyList
<1>3. /\ held \in [Thread -> SUBSET Address]
      /\ pc \in [Thread -> Pcs]
    BY DEF Pcs
<1>4. /\ ptr \in [Thread -> Address \cup {Null}]
      /\ fresh \in [Thread -> Address \cup {Null}]
      /\ want \in [Thread -> Nat] /\ found \in [Thread -> Nat]
    OBVIOUS
<1>5. Types
    BY <1>1, <1>2, <1>3, <1>4 DEF Types
<1>6. MutexOK /\ LockKept
    BY NoneAssumption DEF MutexOK, LockKept, Kept, Nesting
<1>7. ArgsOK
    BY DEF ArgsOK, Args
<1>8. GoneOK /\ SigOK
    BY Zenon DEF GoneOK, SigOK
<1>9. Separate
    <2>1. DOMAIN unused = {}
        OBVIOUS
    <2>2. Blocks = {}
        BY <2>1 DEF Blocks, Range
    <2> QED BY <2>1, <2>2 DEF Separate
<1>10. Disjoint
    BY <1>9, Zenon DEF Disjoint
<1> QED BY <1>5, <1>6, <1>7, <1>8, <1>10 DEF Inv, LockInv

LEMMA InitInv == Init => IInv
<1>1. Init => Fresh
    BY Zenon DEF Init, Fresh
<1>2. Init => Flags
    BY Zenon DEF Init, Flags
<1> QED BY <1>1, <1>2, FreshInv DEF IInv

LEMMA EndInv == End => IInv'
<1>1. End => Fresh'
    BY Zenon DEF End, Fresh
<1>2. Fresh' => Inv'
    BY FreshInv, PTL
<1>3. End => Flags'
    BY Zenon DEF End, Flags
<1> QED BY <1>1, <1>2, <1>3 DEF IInv

LEMMA HandlerInv ==
  ASSUME Inv, HandlerCheck \/ HandlerTerm
  PROVE  Inv'
<1> USE DEF Inv, LockInv
<1>1. UNCHANGED <<len, unused, size, data, okay>> \/ Terminated
    BY Zenon DEF HandlerCheck, HandlerTerm, pool
<1>2. /\ UNCHANGED <<size, owner, depth, held, pc, ptr, want, found, fresh, catcher>>
      /\ sig' \in {"lock", "raise"}
    BY DEF HandlerCheck, HandlerTerm, Terminated, pool, lock, args
<1>3. Types'
    <2>1. CASE UNCHANGED <<len, unused, size, data, okay>>
        BY <1>2, <2>1 DEF Types
    <2>2. CASE Terminated
        <3>1. len' \in 0 .. PoolSize /\ unused' \in Seq(Address)
            BY <2>2, PoolAssumption, EmptyList DEF Terminated
        <3>2. data' \in [Address -> Thread \cup {Clean}]
            BY <2>2 DEF Terminated, AllClean
        <3> QED BY <1>2, <3>1, <3>2 DEF Types
    <2> QED BY <1>1, <2>1, <2>2
<1>4. MutexOK' /\ SigOK'
    BY <1>2 DEF MutexOK, SigOK
<1>5. GoneOK'
    BY <1>1, Zenon DEF GoneOK, Terminated
<1>6. ~okay => ~okay'
    BY <1>1, Zenon DEF Terminated
<1>7. ASSUME NEW u \in Thread
      PROVE  Kept(u)' /\ Args(u)'
    <2>0. /\ pc'[u] = pc[u] /\ ptr'[u] = ptr[u] /\ held'[u] = held[u]
          /\ found'[u] = found[u] /\ fresh'[u] = fresh[u] /\ catcher' = catcher
        BY <1>2
    <2>1. Kept(u) /\ Args(u)
        BY DEF LockKept, ArgsOK
    <2>2. Nesting(u)' = Nesting(u)
        BY <1>2 DEF Nesting
    <2>3. Kept(u)'
        BY <1>2, <1>6, <2>1, <2>2, Zenon DEF Kept
    <2>4. CASE HandlerCheck
        <3>1. UNCHANGED <<okay, unused>>
            BY <2>4, Zenon DEF HandlerCheck, pool
        <3> QED BY <2>0, <2>1, <2>3, <3>1, Zenon DEF Args
    <2>5. CASE HandlerTerm
        <3>1. pc[u] \notin {"take", "move"} \/ catcher = u
            BY <2>1, <2>5, NoneAssumption DEF HandlerTerm, CanLock, Kept, Nesting
        <3> QED BY <2>0, <2>1, <2>3, <3>1 DEF Args
    <2> QED BY <2>3, <2>4, <2>5
<1>8. LockKept' /\ ArgsOK'
    BY <1>7, Zenon DEF LockKept, ArgsOK
<1>9. Disjoint'
    <2>1. CASE Terminated
        BY <2>1, Zenon DEF Terminated, Disjoint
    <2>2. CASE UNCHANGED <<len, unused, size, data, okay>>
        <3>1. Blocks' = Blocks
            BY <1>2, <2>2 DEF Blocks
        <3>2. Separate => Separate'
            BY <1>2, <2>2, <3>1 DEF Separate, Apart
        <3> QED BY <2>2, <3>2, Zenon DEF Disjoint
    <2> QED BY <1>1, <2>1, <2>2
<1> QED BY <1>3, <1>4, <1>5, <1>8, <1>9

LEMMA FlagsStep ==
  ASSUME Flags, NEW t \in Thread, Call(t) \/ Continue(t) \/ Signal(t)
  PROVE  Flags'
<1>1. (okay' = okay \/ okay' = FALSE) /\ ended' = ended
    BY Zenon DEF Call, Malloc, Free, Realloc, Quit, Continue, CheckOkay, Lock,
       Search, Reuse, Extend, Exhausted, Fill, FreeBlock, ReadSize, Grow, Move, Term,
       Signal, Terminated
<1> QED BY <1>1, Zenon DEF Flags

LEMMA IInvStep == IInv /\ [Next]_vars => IInv'
<1> SUFFICES ASSUME IInv, [Next]_vars PROVE IInv'
    OBVIOUS
<1>1. ASSUME NEW t \in Thread, Call(t) \/ Continue(t) \/ Signal(t)
      PROVE  IInv'
    <2>1. LockInv /\ Disjoint /\ Flags
        BY DEF IInv, Inv
    <2>2. Types' /\ MutexOK' /\ LockKept' /\ ArgsOK' /\ GoneOK' /\ SigOK'
        BY <1>1, <2>1, TypesStep, LockStep, ArgsStep
    <2>3. Disjoint' /\ Flags'
        BY <1>1, <2>1, DisjointStep, FlagsStep
    <2> QED BY <2>2, <2>3 DEF IInv, Inv, LockInv
<1>2. ASSUME NEW t \in Thread, Stop(t)
      PROVE  IInv'
    BY <1>2, EndInv DEF Stop, Exit, Fault
<1>3. CASE HandlerCheck \/ HandlerTerm
    <2>1. (okay' = okay \/ okay' = FALSE) /\ ended' = ended
        BY <1>3, Zenon DEF HandlerCheck, HandlerTerm, Terminated
    <2>2. Flags'
        BY <2>1, Zenon DEF Flags, IInv
    <2> QED BY <1>3, <2>2, HandlerInv DEF IInv
<1>4. CASE Raise
    BY <1>4, EndInv DEF Raise
<1>5. CASE UNCHANGED vars
    <2>1. UNCHANGED <<okay, len, unused, size, data, owner, depth, held, pc, ptr, want,
                      found, fresh, sig, catcher, ended>>
        BY <1>5 DEF vars, pool, lock, args, signal
    <2>2. Blocks' = Blocks
        BY <2>1 DEF Blocks
    <2>3. Separate => Separate'
        BY <2>1, <2>2 DEF Separate, Apart
    <2>4. Disjoint => Disjoint'
        BY <2>1, <2>3, Zenon DEF Disjoint
    <2>5. Flags => Flags'
        BY <2>1, Zenon DEF Flags
    <2>6. LockInv => LockInv'
        BY <2>1, Zenon DEF LockInv, Types, MutexOK, LockKept, Kept, Nesting, ArgsOK,
           Args, GoneOK, SigOK
    <2> QED BY <2>4, <2>5, <2>6 DEF IInv, Inv
<1> QED BY <1>1, <1>2, <1>3, <1>4, <1>5 DEF Next, Handler, Over

-----------------------------------------------------------------------------
(* The results.                                                            *)
LEMMA Invariant == Spec => []IInv
BY InitInv, IInvStep, PTL DEF Spec

\* Every variable keeps its type, in particular the length of the used part never
\* exceeds the pool and the recursive mutex is never taken more than twice.
THEOREM SecmemTypes == Spec => []TypeOK
<1>1. IInv => TypeOK
    BY TypeParts DEF IInv, Inv, LockInv
<1> QED BY <1>1, Invariant, PTL

\* However many threads allocate, resize and free, in a pool of any size: no
\* granule is in two blocks, and no block in two places (Disjoint).
THEOREM NoOverlap == Spec => []Disjoint
<1>1. IInv => Disjoint
    BY DEF IInv, Inv
<1> QED BY <1>1, Invariant, PTL

\* Every path through secmem_malloc, secmexrealloc, secmem_free and secmem_term
\* gives the mutex back as often as it has taken it (LockKept).
THEOREM MutexKept == Spec => []LockKept
<1>1. IInv => LockKept
    BY DEF IInv, Inv, LockInv
<1> QED BY <1>1, Invariant, PTL

-----------------------------------------------------------------------------
(***************************************************************************)
(* What is in the blocks of the secure memory, for any set of threads, any *)
(* size of the pool and any requests: no granule is lost, no secret is     *)
(* where it does not belong, and no thread finds another one's.            *)
(***************************************************************************)

(* The block that was resized has been given back, perhaps to another       *)
(* thread, and still its size is what tells the caller's part of the new    *)
(* one: it lies in the used part, where no header is written again.         *)
Remembered ==
  okay => \A t \in Thread : pc[t] = "fill" /\ ptr[t] # Null => ptr[t] < len

DataInv == NothingLost /\ Intact /\ NoTrace /\ Remembered

-----------------------------------------------------------------------------
(* Blocks and their granules.                                              *)
LEMMA BlockFacts ==
  ASSUME Types, Separate, NEW a \in Blocks
  PROVE  /\ a \in Address /\ a \in Nat /\ size[a] \in Nat /\ size[a] > 0
         /\ a < len /\ a + size[a] <= len
         /\ \A g \in Extent(a) : g \in Address
<1>1. a \in Address
    <2>1. \A b \in Range(unused) : b \in Address
        BY DEF Range, Types
    <2> QED BY <2>1 DEF Blocks, Types
<1>2. a \in Nat /\ size[a] \in Nat /\ size[a] > 0 /\ a + size[a] <= len
    BY <1>1, PoolAssumption DEF Types, Address, Separate
<1>3. ASSUME NEW g \in Extent(a) PROVE g \in Address
    BY <1>2, PoolAssumption DEF Extent, Types, Address
<1> QED BY <1>1, <1>2, <1>3 DEF Types

LEMMA OneBlock ==
  ASSUME Types, Separate, NEW a \in Blocks, NEW b \in Blocks,
         NEW g \in Extent(a), g \in Extent(b)
  PROVE  a = b
<1>1. a # b => Apart(a, b)
    BY DEF Separate
<1>2. a \in Nat /\ b \in Nat /\ size[a] \in Nat /\ size[b] \in Nat
    BY BlockFacts
<1> QED BY <1>1, <1>2 DEF Apart, Extent

LEMMA HeldBlocks ==
  ASSUME NEW t \in Thread, NEW a \in held[t] PROVE a \in Blocks
BY DEF Blocks

LEMMA OneThread ==
  ASSUME Types, Separate, NEW t \in Thread, NEW u \in Thread,
         NEW a \in held[t], NEW b \in held[u], NEW g \in Extent(a), g \in Extent(b)
  PROVE  a = b /\ t = u
<1>1. a = b
    BY HeldBlocks, OneBlock
<1> QED BY <1>1 DEF Separate

(* What is left of a content that loses and gains what it may.             *)
LEMMA DataOfThread ==
  ASSUME Types, NEW g \in Address PROVE data[g] \in Thread \cup {Clean}
BY DEF Types

-----------------------------------------------------------------------------
(* The steps that leave the blocks alone.                                  *)
Own(t) ==   \* the locals of the others are theirs
  \A u \in Thread : u # t => pc'[u] = pc[u] /\ ptr'[u] = ptr[u] /\ fresh'[u] = fresh[u]

LEMMA CalmData ==
  ASSUME DataInv, NEW t, Own(t), UNCHANGED <<pool, okay, held>>,
         pc[t] \notin {"fill", "move"} \/ (pc'[t] = pc[t] /\ UNCHANGED args),
         pc[t] # "fill" => pc'[t] # "fill"
  PROVE  DataInv'
<1>0. /\ held' = held /\ len' = len /\ unused' = unused
      /\ size' = size /\ data' = data
    BY DEF pool
<1>a. okay' <=> okay
    BY Zenon
<1>1. Blocks' = Blocks /\ \A a : Extent(a)' = Extent(a)
    BY <1>0 DEF Blocks, Extent
<1>2. NothingLost'
    <2>1. ASSUME okay, NEW g \in 0 .. len' - 1 PROVE \E a \in Blocks' : g \in Extent(a)'
        BY <1>0, <1>1, <2>1 DEF DataInv, NothingLost
    <2> QED BY <1>a, <2>1, Zenon DEF NothingLost
<1>3. NoTrace'
    <2>1. ASSUME NEW g \in Address, data'[g] # Clean
          PROVE  okay /\ \E a \in held'[data'[g]] : g \in Extent(a)'
        BY <1>0, <1>1, <2>1 DEF DataInv, NoTrace
    <2> QED BY <1>a, <2>1, Zenon DEF NoTrace
<1>4. Remembered'
    <2> SUFFICES ASSUME okay', NEW u \in Thread, pc'[u] = "fill", ptr'[u] # Null
                 PROVE  ptr'[u] < len'
        BY DEF Remembered
    <2>1. okay /\ len' = len
        BY <1>0, <1>a
    <2>2. pc[u] = "fill" /\ ptr'[u] = ptr[u]
        BY DEF Own, args
    <2> QED BY <2>1, <2>2 DEF DataInv, Remembered
<1>5. Intact'
    <2> SUFFICES ASSUME okay', NEW u \in Thread, NEW a \in held'[u], NEW g \in Extent(a)'
                 PROVE  \/ data'[g] = u
                        \/ a = fresh'[u] /\ pc'[u] = "move"
                        \/ /\ a = fresh'[u] /\ pc'[u] = "fill"
                           /\ ptr'[u] # Null => g >= a + size'[ptr'[u]]
        BY DEF Intact
    <2>1. okay /\ a \in held[u] /\ g \in Extent(a) /\ data' = data /\ size' = size
        BY <1>0, <1>1, <1>a
    <2>2. \/ data[g] = u
          \/ a = fresh[u] /\ pc[u] = "move"
          \/ /\ a = fresh[u] /\ pc[u] = "fill"
             /\ ptr[u] # Null => g >= a + size[ptr[u]]
        BY <2>1 DEF DataInv, Intact
    <2> QED BY <2>1, <2>2 DEF Own, args
<1> QED BY <1>2, <1>3, <1>4, <1>5 DEF DataInv

(* Without a pool there is nothing left to keep.                           *)
LEMMA GoneData ==
  ASSUME okay' = FALSE, data' = AllClean
  PROVE  DataInv'
BY Zenon DEF DataInv, NothingLost, Intact, NoTrace, Remembered, AllClean

-----------------------------------------------------------------------------
(* A thread gets a block, from the list or from behind the used part.      *)
LEMMA Below ==
  \A k, n \in Int : \A g \in 0 .. n - 1 : g \in 0 .. k - 1 \/ g \in k .. n - 1
OBVIOUS

LEMMA GotCovers ==
  ASSUME Types, DataInv, okay, NEW b, b \in Blocks', NEW n \in Int, n = len',
         \A a \in Blocks : a \in Blocks' /\ Extent(a)' = Extent(a),
         \A g \in len .. n - 1 : g \in Extent(b)'
  PROVE  NothingLost'
<1>1. len \in Int
    BY PoolAssumption DEF Types
<1>2. ASSUME NEW g \in 0 .. n - 1 PROVE \E a \in Blocks' : g \in Extent(a)'
    <2>1. CASE g \in 0 .. len - 1
        <3>1. PICK a \in Blocks : g \in Extent(a)
            BY <2>1 DEF DataInv, NothingLost
        <3> QED BY <3>1
    <2>2. CASE g \in len .. n - 1
        <3>1. g \in Extent(b)'
            BY <2>2
        <3> QED BY <3>1
    <2>3. g \in 0 .. len - 1 \/ g \in len .. n - 1
        BY <1>1, Below, Zenon
    <2> QED BY <2>1, <2>2, <2>3
<1>3. \A g \in 0 .. len' - 1 : \E a \in Blocks' : g \in Extent(a)'
    BY <1>2, Zenon
<1> QED BY <1>3, Zenon DEF NothingLost

LEMMA GotData ==
  ASSUME Types, Separate, DataInv, okay, okay', NEW t \in Thread, Own(t), NEW b,
         pc[t] = "take", pc'[t] = IF ptr[t] = Null THEN "fill" ELSE "move",
         ptr' = ptr, fresh'[t] = b, data' = data,
         held' = [held EXCEPT ![t] = @ \cup {b}],
         \A a \in Blocks : a \in Blocks', b \in Blocks',
         NEW n \in Int, n = len', len <= n, \A g \in len .. n - 1 : g \in Extent(b)',
         \A a \in Address : a < len => size'[a] = size[a]
  PROVE  DataInv'
<1>1. \A u \in Thread : held'[u] = IF u = t THEN held[t] \cup {b} ELSE held[u]
    BY DEF Types
<1>2. \A a \in Blocks : size'[a] = size[a] /\ Extent(a)' = Extent(a)
    <2> SUFFICES ASSUME NEW a \in Blocks
                 PROVE  size'[a] = size[a] /\ Extent(a)' = Extent(a)
        OBVIOUS
    <2>1. size'[a] = size[a]
        BY BlockFacts
    <2> QED BY <2>1 DEF Extent
<1>3. NothingLost'
    BY <1>2, GotCovers
<1>4. NoTrace'
    <2>1. ASSUME NEW g \in Address, data'[g] # Clean
          PROVE  okay' /\ \E a \in held'[data'[g]] : g \in Extent(a)'
        <3>1. PICK a \in held[data[g]] : g \in Extent(a)
            BY <2>1 DEF DataInv, NoTrace
        <3>2. data[g] \in Thread
            BY <2>1, DataOfThread
        <3>3. a \in Blocks /\ a \in held'[data[g]]
            BY <1>1, <3>2, HeldBlocks
        <3> QED BY <1>2, <3>1, <3>3
    <2> QED BY <2>1, Zenon DEF NoTrace
<1>5. Remembered'
    <2> SUFFICES ASSUME NEW u \in Thread, pc'[u] = "fill", ptr'[u] # Null
                 PROVE  ptr'[u] < len'
        BY DEF Remembered
    <2>1. u # t
        OBVIOUS
    <2>2. pc[u] = "fill" /\ ptr[u] # Null
        BY <2>1 DEF Own
    <2>3. ptr[u] \in Int /\ len \in Int
        BY <2>2, PoolAssumption DEF Types, Address
    <2> QED BY <2>2, <2>3 DEF DataInv, Remembered
<1>6. Intact'
    <2> SUFFICES ASSUME NEW u \in Thread, NEW a \in held'[u], NEW g \in Extent(a)'
                 PROVE  \/ data'[g] = u
                        \/ a = fresh'[u] /\ pc'[u] = "move"
                        \/ /\ a = fresh'[u] /\ pc'[u] = "fill"
                           /\ ptr'[u] # Null => g >= a + size'[ptr'[u]]
        BY DEF Intact
    <2>1. CASE a \in held[u]
        <3>1. a \in Blocks /\ g \in Extent(a)
            BY <1>2, <2>1, HeldBlocks
        <3>2. \/ data[g] = u
              \/ a = fresh[u] /\ pc[u] = "move"
              \/ /\ a = fresh[u] /\ pc[u] = "fill"
                 /\ ptr[u] # Null => g >= a + size[ptr[u]]
            BY <2>1, <3>1 DEF DataInv, Intact
        <3>3. CASE u = t
            BY <3>2, <3>3
        <3>4. CASE u # t /\ pc[u] = "fill" /\ ptr[u] # Null
            <4>1. ptr[u] \in Address /\ ptr[u] < len
                BY <3>4 DEF Types, DataInv, Remembered
            <4> QED BY <3>2, <3>4, <4>1 DEF Own
        <3>5. CASE u # t /\ ~(pc[u] = "fill" /\ ptr[u] # Null)
            BY <3>2, <3>5 DEF Own
        <3> QED BY <3>3, <3>4, <3>5
    <2>2. CASE a \notin held[u]
        BY <1>1, <2>2
    <2> QED BY <2>1, <2>2
<1> QED BY <1>3, <1>4, <1>5, <1>6 DEF DataInv


(* The caller fills its block.                                             *)
LEMMA FillData ==
  ASSUME Types, Separate, DataInv, okay, okay', NEW t \in Thread, Own(t),
         pc[t] = "fill", pc'[t] = "idle", fresh[t] \in held[t],
         UNCHANGED <<len, unused, size, held>>,
         data' = [g \in Address |-> IF g \in Extent(fresh[t]) THEN t ELSE data[g]]
  PROVE  DataInv'
<1>1. Blocks' = Blocks /\ \A a : Extent(a)' = Extent(a)
    BY DEF Blocks, Extent
<1>2. NothingLost'
    <2>1. \A g \in 0 .. len' - 1 : \E a \in Blocks' : g \in Extent(a)'
        BY <1>1 DEF DataInv, NothingLost
    <2> QED BY <2>1, Zenon DEF NothingLost
<1>3. NoTrace'
    <2>1. ASSUME NEW g \in Address, data'[g] # Clean
          PROVE  okay' /\ \E a \in held'[data'[g]] : g \in Extent(a)'
        BY <1>1, <2>1 DEF DataInv, NoTrace
    <2> QED BY <2>1, Zenon DEF NoTrace
<1>4. Remembered'
    BY DEF DataInv, Remembered, Own
<1>5. Intact'
    <2> SUFFICES ASSUME NEW u \in Thread, NEW a \in held'[u], NEW g \in Extent(a)'
                 PROVE  \/ data'[g] = u
                        \/ a = fresh'[u] /\ pc'[u] = "move"
                        \/ /\ a = fresh'[u] /\ pc'[u] = "fill"
                           /\ ptr'[u] # Null => g >= a + size'[ptr'[u]]
        BY DEF Intact
    <2>1. a \in held[u] /\ g \in Extent(a) /\ g \in Address
        BY <1>1, HeldBlocks, BlockFacts
    <2>2. \/ data[g] = u
          \/ a = fresh[u] /\ pc[u] = "move"
          \/ /\ a = fresh[u] /\ pc[u] = "fill"
             /\ ptr[u] # Null => g >= a + size[ptr[u]]
        BY <2>1 DEF DataInv, Intact
    <2>3. CASE g \in Extent(fresh[t])
        <3>1. t = u
            BY <2>1, <2>3, OneThread
        <3> QED BY <2>1, <2>3, <3>1
    <2>4. CASE g \notin Extent(fresh[t])
        <3>1. data'[g] = data[g]
            BY <2>1, <2>4
        <3> QED BY <2>1, <2>2, <2>4, <3>1 DEF Own
    <2> QED BY <2>3, <2>4
<1> QED BY <1>2, <1>3, <1>4, <1>5 DEF DataInv

(* A block is wiped and goes to the list.                                  *)
LEMMA GivenBackCovers ==
  ASSUME Types, DataInv, okay, NEW t \in Thread, NEW b \in held[t],
         unused' = <<b>> \o unused, held' = [held EXCEPT ![t] = @ \ {b}],
         UNCHANGED <<len, size>>
  PROVE  NothingLost'
<1>1. \A a : Extent(a)' = Extent(a)
    BY DEF Extent
<1>2. \A u \in Thread : held'[u] = IF u = t THEN held[t] \ {b} ELSE held[u]
    BY DEF Types
<1>3. /\ b \in Range(unused')
      /\ \A a \in Range(unused) : a \in Range(unused')
    <2>1. unused \in Seq(Address) /\ b \in Address /\ Len(unused) \in Nat
          /\ DOMAIN unused = 1 .. Len(unused)
        BY DEF Types
    <2>2. /\ unused' \in Seq(Address) /\ Len(unused') = Len(unused) + 1
          /\ \A j \in 1 .. Len(unused) + 1 :
               unused'[j] = IF j = 1 THEN b ELSE unused[j - 1]
        BY <2>1, PushFacts
    <2>3. DOMAIN unused' = 1 .. Len(unused) + 1
        BY <2>2
    <2>4. unused'[1] = b /\ 1 \in DOMAIN unused'
        BY <2>1, <2>2, <2>3
    <2>5. ASSUME NEW j \in DOMAIN unused
          PROVE  j + 1 \in DOMAIN unused' /\ unused'[j + 1] = unused[j]
        BY <2>1, <2>2, <2>3
    <2> QED BY <2>4, <2>5 DEF Range
<1>4. \A a \in Blocks : a \in Blocks'
    BY <1>2, <1>3 DEF Blocks
<1>5. \A g \in 0 .. len' - 1 : \E a \in Blocks' : g \in Extent(a)'
    BY <1>1, <1>4 DEF DataInv, NothingLost
<1> QED BY <1>5, Zenon DEF NothingLost

LEMMA FreeData ==
  ASSUME Types, Separate, DataInv, okay, okay', NEW t \in Thread, Own(t),
         pc[t] = "free", pc'[t] = "idle", NEW b \in held[t],
         unused' = <<b>> \o unused, held' = [held EXCEPT ![t] = @ \ {b}],
         UNCHANGED <<len, size>>, data' = Wiped(data, b)
  PROVE  DataInv'
<1>1. \A a : Extent(a)' = Extent(a)
    BY DEF Extent
<1>2. \A u \in Thread : held'[u] = IF u = t THEN held[t] \ {b} ELSE held[u]
    BY DEF Types
<1>3. \A g \in Address : data'[g] = IF g \in Extent(b) THEN Clean ELSE data[g]
    BY DEF Wiped
<1>4. NothingLost'
    BY GivenBackCovers
<1>5. NoTrace'
    <2>1. ASSUME NEW g \in Address, data'[g] # Clean
          PROVE  okay' /\ \E a \in held'[data'[g]] : g \in Extent(a)'
        <3>1. data'[g] = data[g] /\ g \notin Extent(b) /\ data[g] \in Thread
            BY <1>3, <2>1, DataOfThread
        <3>2. PICK a \in held[data[g]] : g \in Extent(a)
            BY <2>1, <3>1 DEF DataInv, NoTrace
        <3>3. a \in held'[data[g]]
            BY <1>2, <3>1, <3>2
        <3> QED BY <1>1, <3>1, <3>2, <3>3
    <2> QED BY <2>1, Zenon DEF NoTrace
<1>6. Remembered'
    BY DEF DataInv, Remembered, Own
<1>7. Intact'
    <2> SUFFICES ASSUME NEW u \in Thread, NEW a \in held'[u], NEW g \in Extent(a)'
                 PROVE  \/ data'[g] = u
                        \/ a = fresh'[u] /\ pc'[u] = "move"
                        \/ /\ a = fresh'[u] /\ pc'[u] = "fill"
                           /\ ptr'[u] # Null => g >= a + size'[ptr'[u]]
        BY DEF Intact
    <2>1. a \in held[u] /\ g \in Extent(a) /\ g \in Address /\ a # b
        <3>1. a \in held[u] /\ g \in Extent(a)
            BY <1>1, <1>2
        <3>2. u # t => a # b
            BY <3>1 DEF Separate
        <3> QED BY <1>2, <3>1, <3>2, HeldBlocks, BlockFacts
    <2>2. \/ data[g] = u
          \/ a = fresh[u] /\ pc[u] = "move"
          \/ /\ a = fresh[u] /\ pc[u] = "fill"
             /\ ptr[u] # Null => g >= a + size[ptr[u]]
        BY <2>1 DEF DataInv, Intact
    <2>3. g \notin Extent(b)
        BY <2>1, OneThread
    <2>4. data'[g] = data[g]
        BY <1>3, <2>1, <2>3
    <2> QED BY <2>2, <2>4 DEF Own
<1> QED BY <1>4, <1>5, <1>6, <1>7 DEF DataInv


(* The content of a block goes to a larger one; what was in the old block  *)
(* was the thread's own, and the old block is wiped.                       *)
LEMMA MoveData ==
  ASSUME Types, Separate, DataInv, okay, okay', NEW t \in Thread, Own(t),
         NEW b, NEW f, b = ptr[t], f = fresh[t],
         pc[t] = "move", pc'[t] = "fill", b \in held[t], f \in held[t], b # f,
         unused' = <<b>> \o unused, held' = [held EXCEPT ![t] = @ \ {b}],
         UNCHANGED <<len, size, ptr, fresh>>, data' = Wiped(Copied(b, f), b)
  PROVE  DataInv'
<1>1. \A a : Extent(a)' = Extent(a)
    BY DEF Extent
<1>2. \A u \in Thread : held'[u] = IF u = t THEN held[t] \ {b} ELSE held[u]
    BY DEF Types
<1>3. /\ b \in Blocks /\ f \in Blocks
      /\ b \in Nat /\ f \in Nat /\ size[b] \in Nat /\ size[f] \in Nat
      /\ b + size[b] <= len /\ b < len
    BY HeldBlocks, BlockFacts
\* What each granule holds afterwards
<1>4. ASSUME NEW g \in Address
      PROVE  /\ g \in Extent(b) => data'[g] = Clean
             /\ g \notin Extent(b) /\ g \notin Extent(f) => data'[g] = data[g]
             /\ g \in Extent(f) => \/ data'[g] = Clean /\ g >= f + size[b]
                                   \/ data'[g] = data[b + (g - f)] /\ g < f + size[b]
    <2>1. g \in Extent(f) => g \notin Extent(b)
        BY <1>3, OneBlock
    <2>2. data'[g] = IF g \in Extent(b) THEN Clean ELSE Copied(b, f)[g]
        BY DEF Wiped
    <2>3. Copied(b, f)[g] = IF g \in Extent(f)
                            THEN IF g - f < size[b] THEN data[b + (g - f)] ELSE Clean
                            ELSE data[g]
        BY DEF Copied
    <2>4. g \in Int
        BY PoolAssumption DEF Address
    <2>5. g - f < size[b] <=> g < f + size[b]
        BY <1>3, <2>4
    <2>6. g - f < size[b] \/ g >= f + size[b]
        BY <1>3, <2>4
    <2> QED BY <2>1, <2>2, <2>3, <2>5, <2>6
<1>5. ASSUME NEW g \in Extent(f), g < f + size[b] PROVE data[b + (g - f)] = t
    <2>1. b + (g - f) \in Extent(b)
        <3>1. g \in Int /\ g >= f
            BY <1>3, <1>5 DEF Extent
        <3>2. b + (g - f) \in b .. b + size[b] - 1
            BY <1>3, <1>5, <3>1
        <3> QED BY <3>2 DEF Extent
    <2>2. b # fresh[t]
        OBVIOUS
    <2> QED BY <2>1, <2>2 DEF DataInv, Intact
<1>6. NothingLost'
    BY GivenBackCovers
<1>7. NoTrace'
    <2>1. ASSUME NEW g \in Address, data'[g] # Clean
          PROVE  okay' /\ \E a \in held'[data'[g]] : g \in Extent(a)'
        <3>1. CASE g \in Extent(f)
            <4>1. data'[g] = t
                BY <1>4, <1>5, <2>1, <3>1
            <4>2. f \in held'[t]
                BY <1>2
            <4> QED BY <1>1, <3>1, <4>1, <4>2
        <3>2. CASE g \notin Extent(f)
            <4>1. data'[g] = data[g] /\ g \notin Extent(b) /\ data[g] \in Thread
                BY <1>4, <2>1, <3>2, DataOfThread
            <4>2. PICK a \in held[data[g]] : g \in Extent(a)
                BY <2>1, <4>1 DEF DataInv, NoTrace
            <4>3. a \in held'[data[g]]
                BY <1>2, <4>1, <4>2
            <4> QED BY <1>1, <4>1, <4>2, <4>3
        <3> QED BY <3>1, <3>2
    <2> QED BY <2>1, Zenon DEF NoTrace
<1>8. Remembered'
    <2>1. ASSUME NEW u \in Thread, pc'[u] = "fill", ptr'[u] # Null PROVE ptr'[u] < len'
        <3>1. CASE u = t
            BY <1>3, <3>1
        <3>2. CASE u # t
            BY <2>1, <3>2 DEF DataInv, Remembered, Own
        <3> QED BY <3>1, <3>2
    <2> QED BY <2>1, Zenon DEF Remembered
<1>9. Intact'
    <2> SUFFICES ASSUME NEW u \in Thread, NEW a \in held'[u], NEW g \in Extent(a)'
                 PROVE  \/ data'[g] = u
                        \/ a = fresh'[u] /\ pc'[u] = "move"
                        \/ /\ a = fresh'[u] /\ pc'[u] = "fill"
                           /\ ptr'[u] # Null => g >= a + size'[ptr'[u]]
        BY DEF Intact
    <2>1. a \in held[u] /\ g \in Extent(a) /\ g \in Address /\ a # b
        <3>1. a \in held[u] /\ g \in Extent(a)
            BY <1>1, <1>2
        <3>2. u # t => a # b
            BY <3>1 DEF Separate
        <3> QED BY <1>2, <3>1, <3>2, HeldBlocks, BlockFacts
    <2>2. \/ data[g] = u
          \/ a = fresh[u] /\ pc[u] = "move"
          \/ /\ a = fresh[u] /\ pc[u] = "fill"
             /\ ptr[u] # Null => g >= a + size[ptr[u]]
        BY <2>1 DEF DataInv, Intact
    <2>3. CASE a = f
        <3>1. u = t
            BY <2>1, <2>3, OneThread
        <3>2. data'[g] = t \/ g >= f + size[b]
            BY <1>4, <1>5, <2>1, <2>3
        <3> QED BY <2>3, <3>1, <3>2
    <2>4. CASE a # f
        <3>1. g \notin Extent(f) /\ g \notin Extent(b)
            BY <2>1, <2>4, OneThread
        <3>2. data'[g] = data[g]
            BY <1>4, <2>1, <3>1
        <3> QED BY <2>2, <2>4, <3>2 DEF Own
    <2> QED BY <2>3, <2>4
<1> QED BY <1>6, <1>7, <1>8, <1>9 DEF DataInv

-----------------------------------------------------------------------------
(* Every step of the pool.                                                 *)
LEMMA ReuseData ==
  ASSUME LockInv, Separate, DataInv, okay, okay', NEW t \in Thread, Own(t), Reuse(t),
         NEW b, b = unused[found[t]]
  PROVE  DataInv'
<1>1. Types /\ found[t] \in 1 .. Len(unused) /\ unused \in Seq(Address)
    BY DEF LockInv, Types, ArgsOK, Args, Reuse, At
<1>2. b \in Range(unused) /\ b \in Blocks
    BY <1>1 DEF Range, Blocks
<1>3. /\ unused' = RemoveAt(unused, found[t])
      /\ held' = [held EXCEPT ![t] = @ \cup {b}] /\ fresh' = [fresh EXCEPT ![t] = b]
      /\ pc' = [pc EXCEPT ![t] = IF ptr[t] = Null THEN "fill" ELSE "move"]
      /\ UNCHANGED <<len, size, data, ptr>> /\ pc[t] = "take"
    BY DEF Reuse, Given, Goto, At
<1>4. fresh'[t] = b /\ pc'[t] = IF ptr[t] = Null THEN "fill" ELSE "move"
    BY <1>1, <1>3 DEF Types
<1>5. \A u \in Thread : held'[u] = IF u = t THEN held[t] \cup {b} ELSE held[u]
    BY <1>1, <1>3 DEF Types
<1>6. ASSUME NEW a \in Blocks PROVE a \in Blocks'
    <2>1. CASE \E u \in Thread : a \in held[u]
        <3>1. PICK u \in Thread : a \in held[u]
            BY <2>1
        <3>2. a \in held'[u]
            BY <1>5, <3>1
        <3> QED BY <3>2 DEF Blocks
    <2>2. CASE a = b
        <3>1. b \in held'[t]
            BY <1>5
        <3> QED BY <2>2, <3>1 DEF Blocks
    <2>3. CASE a \in Range(unused) /\ a # b
        <3>1. PICK j \in 1 .. Len(unused) : a = unused[j]
            BY <1>1, <2>3 DEF Range
        <3>2. /\ Len(unused') = Len(unused) - 1 /\ unused' \in Seq(Address)
              /\ \A k \in 1 .. Len(unused) - 1 :
                   unused'[k] = IF k < found[t] THEN unused[k] ELSE unused[k + 1]
            BY <1>1, <1>3, RemoveAtFacts
        <3>3. DOMAIN unused' = 1 .. Len(unused) - 1 /\ Len(unused) \in Nat
            BY <1>1, <3>2
        <3>4. j # found[t]
            BY <2>3, <3>1
        <3>5. CASE j < found[t]
            BY <1>1, <3>1, <3>2, <3>3, <3>5 DEF Blocks, Range
        <3>6. CASE j > found[t]
            <4>1. j - 1 \in 1 .. Len(unused) - 1 /\ ~(j - 1 < found[t])
                  /\ (j - 1) + 1 = j
                BY <1>1, <3>1, <3>6, <3>3
            <4>2. unused'[j - 1] = a
                BY <3>1, <3>2, <4>1
            <4> QED BY <3>3, <4>1, <4>2 DEF Blocks, Range
        <3> QED BY <1>1, <3>1, <3>4, <3>5, <3>6
    <2> QED BY <2>1, <2>2, <2>3 DEF Blocks
<1>7. b \in Blocks'
    BY <1>2, <1>6
<1>8. PICK n \in Int : n = len /\ n = len' /\ \A g \in len .. n - 1 : g \in Extent(b)'
    BY <1>1, <1>3, PoolAssumption DEF Types
<1>9. \A a \in Address : a < len => size'[a] = size[a]
    BY <1>3
<1>10. UNCHANGED <<ptr, data>> /\ pc[t] = "take"
    BY <1>3
<1>11. len <= n /\ held' = [held EXCEPT ![t] = @ \cup {b}]
    BY <1>3, <1>8
<1> QED BY <1>1, <1>4, <1>6, <1>7, <1>8, <1>9, <1>10, <1>11, GotData

LEMMA ExtendData ==
  ASSUME LockInv, Separate, DataInv, okay, okay', NEW t \in Thread, Own(t), Extend(t),
         NEW b, b = len
  PROVE  DataInv'
<1> DEFINE n == Granules(want[t])
<1>1. Types /\ n \in Nat /\ n > 0
    BY GranulesType DEF LockInv, Types
<1>2. len \in Nat /\ len \in Address
    <2>1. len + n <= PoolSize
        BY <1>1, RoomType, PoolAssumption DEF Extend, Types
    <2> QED BY <1>1, <2>1, PoolAssumption DEF Address, Types
<1>3. /\ size' = [size EXCEPT ![b] = n] /\ len' = b + n /\ unused' = unused
      /\ held' = [held EXCEPT ![t] = @ \cup {b}] /\ fresh' = [fresh EXCEPT ![t] = b]
      /\ pc' = [pc EXCEPT ![t] = IF ptr[t] = Null THEN "fill" ELSE "move"]
      /\ UNCHANGED <<data, ptr>> /\ pc[t] = "take"
    BY DEF Extend, Given, Goto, At
<1> HIDE DEF n
<1>4. fresh'[t] = b /\ pc'[t] = IF ptr[t] = Null THEN "fill" ELSE "move"
    BY <1>1, <1>3 DEF Types
<1>5. \A u \in Thread : held'[u] = IF u = t THEN held[t] \cup {b} ELSE held[u]
    BY <1>1, <1>3 DEF Types
<1>6. \A a \in Blocks : a \in Blocks'
    BY <1>3, <1>5 DEF Blocks
<1>7. b \in Blocks'
    <2>1. b \in held'[t]
        BY <1>5
    <2> QED BY <2>1 DEF Blocks
<1>8. size'[b] = n /\ \A a \in Address : a < len => size'[a] = size[a]
    BY <1>1, <1>2, <1>3 DEF Types
<1>9. b + n \in Int /\ b + n = len' /\ len <= b + n
    BY <1>1, <1>2, <1>3
<1>10. \A g \in len .. (b + n) - 1 : g \in Extent(b)'
    <2>1. Extent(b)' = b .. b + n - 1
        BY <1>8 DEF Extent
    <2> QED BY <1>1, <1>2, <2>1
<1>11. UNCHANGED <<ptr, data>> /\ pc[t] = "take" /\ held' = [held EXCEPT ![t] = @ \cup {b}]
    BY <1>3
<1> QED BY <1>1, <1>4, <1>6, <1>7, <1>8, <1>9, <1>10, <1>11, GotData

LEMMA OwnStep ==
  ASSUME Types, NEW t \in Thread, Call(t) \/ Continue(t) \/ Signal(t)
  PROVE  Own(t)
BY DEF Types, Own, Call, Malloc, Free, Realloc, Quit, Continue, CheckOkay, Lock, Search,
   Reuse, Extend, Given, Exhausted, Fill, FreeBlock, ReadSize, Grow, Move, Term, Signal,
   Goto, Return, args

LEMMA DataStep ==
  ASSUME IInv, DataInv, NEW t \in Thread, Call(t) \/ Continue(t) \/ Signal(t)
  PROVE  DataInv'
<1>1. LockInv /\ Types /\ Disjoint /\ Own(t)
    BY OwnStep DEF IInv, Inv, LockInv
<1>2. CASE \/ (\E n \in Request : Malloc(t, n)) \/ (\E a \in Address : Free(t, a))
           \/ (\E a \in Address, n \in Request : Realloc(t, a, n)) \/ Quit(t)
           \/ CheckOkay(t) \/ Lock(t) \/ Search(t) \/ Exhausted(t) \/ ReadSize(t)
           \/ Grow(t) \/ Signal(t)
    <2>1. UNCHANGED <<pool, okay, held>>
        BY <1>2, Zenon DEF Malloc, Free, Realloc, Quit, CheckOkay, Lock, Search,
           Exhausted, ReadSize, Grow, Signal
    <2>2. pc[t] \notin {"fill", "move"} \/ (pc'[t] = pc[t] /\ UNCHANGED args)
        BY <1>2 DEF Malloc, Free, Realloc, Quit, CheckOkay, Lock, Search,
           Exhausted, ReadSize, Grow, Signal, At
    <2>3. pc[t] # "fill" => pc'[t] # "fill"
        BY <1>1, <1>2 DEF Malloc, Free, Realloc, Quit, CheckOkay, Lock, Search,
           Exhausted, ReadSize, Grow, Signal, Types, Goto, Return
    <2> QED BY <1>1, <2>1, <2>2, <2>3, CalmData
<1>3. CASE Reuse(t)
    <2>1. okay' <=> okay
        BY <1>3, Zenon DEF Reuse
    <2>2. unused # <<>>
        BY <1>1, <1>3 DEF LockInv, ArgsOK, Args, Reuse, At
    <2>3. okay
        BY <1>1, <2>2, Zenon DEF LockInv, GoneOK
    <2>4. Separate
        BY <1>1, <2>3, Zenon DEF Disjoint
    <2> QED BY <1>1, <1>3, <2>1, <2>3, <2>4, ReuseData
<1>4. CASE Extend(t)
    <2>1. okay' <=> okay
        BY <1>4, Zenon DEF Extend
    <2>2. Room # 0
        <3>1. Granules(want[t]) \in Nat /\ Granules(want[t]) > 0 /\ len \in Nat
            BY <1>1, GranulesType, PoolAssumption DEF Types
        <3>2. len + Granules(want[t]) <= Room
            BY <1>4 DEF Extend
        <3> QED BY <3>1, <3>2
    <2>3. okay
        BY <2>2, Zenon DEF Room
    <2>4. Separate
        BY <1>1, <2>3, Zenon DEF Disjoint
    <2> QED BY <1>1, <1>4, <2>1, <2>3, <2>4, ExtendData
<1>5. CASE Fill(t)
    <2>1. okay /\ okay'
        BY <1>5, Zenon DEF Fill
    <2>2. Separate
        BY <1>1, <2>1, Zenon DEF Disjoint
    <2>3. pc[t] = "fill" /\ pc'[t] = "idle" /\ fresh[t] \in held[t]
        BY <1>1, <1>5 DEF Fill, At, Return, Goto, Types, LockInv, ArgsOK, Args
    <2>4. /\ UNCHANGED <<len, unused, size, held>>
          /\ data' = [g \in Address |-> IF g \in Extent(fresh[t]) THEN t ELSE data[g]]
        BY <1>5, Zenon DEF Fill
    <2> QED BY <1>1, <2>1, <2>2, <2>3, <2>4, FillData
<1>6. CASE FreeBlock(t)
    <2>1. okay /\ okay'
        BY <1>6, Zenon DEF FreeBlock
    <2>2. Separate
        BY <1>1, <2>1, Zenon DEF Disjoint
    <2>3. PICK b : b = ptr[t]
        OBVIOUS
    <2>4. pc[t] = "free" /\ pc'[t] = "idle" /\ b \in held[t]
        BY <1>1, <1>6, <2>3 DEF FreeBlock, At, Return, Goto, Types, LockInv, ArgsOK, Args
    <2>5. /\ unused' = <<b>> \o unused /\ held' = [held EXCEPT ![t] = @ \ {b}]
          /\ UNCHANGED <<len, size>> /\ data' = Wiped(data, b)
        BY <1>6, <2>3 DEF FreeBlock, Pushed, Dropped
    <2> QED BY <1>1, <2>1, <2>2, <2>4, <2>5, FreeData
<1>7. CASE Move(t)
    <2>1. okay /\ okay'
        <3>1. okay' <=> okay
            BY <1>7, Zenon DEF Move
        <3>2. okay
            BY <1>1, <1>7, Zenon DEF Move, At, LockInv, ArgsOK, Args
        <3> QED BY <3>1, <3>2
    <2>2. Separate
        BY <1>1, <2>1, Zenon DEF Disjoint
    <2>3. PICK b : b = ptr[t]
        OBVIOUS
    <2>4. PICK f : f = fresh[t]
        OBVIOUS
    <2>5. pc[t] = "move" /\ pc'[t] = "fill" /\ b \in held[t] /\ f \in held[t] /\ b # f
        BY <1>1, <1>7, <2>3, <2>4 DEF Move, At, Goto, Types, LockInv, ArgsOK, Args
    <2>6. /\ unused' = <<b>> \o unused /\ held' = [held EXCEPT ![t] = @ \ {b}]
          /\ UNCHANGED <<len, size, ptr, fresh>> /\ data' = Wiped(Copied(b, f), b)
        BY <1>7, <2>3, <2>4 DEF Move, Pushed, Dropped, args
    <2> QED BY <1>1, <2>1, <2>2, <2>3, <2>4, <2>5, <2>6, MoveData
<1>8. CASE Term(t)
    BY <1>8, GoneData DEF Term, Terminated
<1> QED BY <1>2, <1>3, <1>4, <1>5, <1>6, <1>7, <1>8 DEF Call, Continue

LEMMA InitData == Init => DataInv
<1>1. ASSUME Init PROVE Intact /\ NoTrace /\ Remembered
    BY <1>1 DEF Init, Intact, NoTrace, Remembered, All, AllClean
<1>2. ASSUME Init PROVE NothingLost
    <2>1. len = 0
        BY <1>2 DEF Init
    <2>2. \A g \in 0 .. len - 1 : \E a \in Blocks : g \in Extent(a)
        BY <2>1
    <2> QED BY <2>2, Zenon DEF NothingLost
<1> QED BY <1>1, <1>2 DEF DataInv

LEMMA DataInvStep == IInv /\ DataInv /\ [Next]_vars => DataInv'
<1> SUFFICES ASSUME IInv, DataInv, [Next]_vars PROVE DataInv'
    OBVIOUS
<1>1. ASSUME NEW t \in Thread, Call(t) \/ Continue(t) \/ Signal(t)
      PROVE  DataInv'
    BY <1>1, DataStep
<1>2. ASSUME End PROVE DataInv'
    BY <1>2, GoneData DEF End
<1>3. ASSUME NEW t \in Thread, Stop(t) PROVE DataInv'
    BY <1>2, <1>3 DEF Stop, Exit, Fault
<1>4. CASE HandlerTerm
    BY <1>4, GoneData DEF HandlerTerm, Terminated
<1>5. CASE HandlerCheck \/ UNCHANGED vars
    <2>1. UNCHANGED <<pool, okay, held>> /\ UNCHANGED <<pc, args>>
        BY <1>5, Zenon DEF HandlerCheck, vars
    <2>2. Own(NoThread)
        BY <2>1 DEF Own, args
    <2> QED BY <2>1, <2>2, CalmData
<1>6. CASE Raise
    BY <1>2, <1>6 DEF Raise
<1> QED BY <1>1, <1>3, <1>4, <1>5, <1>6 DEF Next, Handler, Over

-----------------------------------------------------------------------------
(* The results.                                                            *)
LEMMA DataInvariant == Spec => []DataInv
BY InitData, DataInvStep, Invariant, PTL DEF Spec

\* Through every malloc, realloc and free, in any order and by any threads, each
\* used granule of the pool stays in a block that somebody has or the list has
\* (NothingLost).
THEOREM PoolKept == Spec => []NothingLost
<1>1. DataInv => NothingLost
    BY DEF DataInv
<1> QED BY <1>1, DataInvariant, PTL

\* A thread finds in a block what it has written there, also when secmexrealloc has
\* moved it and has let another thread have the old block (Intact).
THEOREM ContentKept == Spec => []Intact
<1>1. DataInv => Intact
    BY DEF DataInv
<1> QED BY <1>1, DataInvariant, PTL

\* A secret is only in a block of the thread that wrote it, and nowhere after
\* secmem_term, at whatever step of a call an exit or a signal runs it (NoTrace).
THEOREM SecretsWiped == Spec => []NoTrace
<1>1. DataInv => NoTrace
    BY DEF DataInv
<1> QED BY <1>1, DataInvariant, PTL

=============================================================================
