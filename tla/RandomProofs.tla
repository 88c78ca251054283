----------------------------- MODULE RandomProofs -----------------------------
(***************************************************************************)
(* The mutex of the random number generator, what its balance and its pool *)
(* are good for, and the lock on the seed file, for any processes, threads,*)
(* requests and pool sizes.                                                *)
(***************************************************************************)
EXTENDS Random, TLAPS

(* Where a thread is with respect to the mutex: while it runs initialize,   *)
(* where it was called from.                                                *)
InInitialize == {"newpool", "newkey", "setinit", "latekey"}
Where(c) == IF c.pc \in InInitialize THEN c.back ELSE c.pc
DepthOf(c) == IF Where(c) \in {"read", "absorb"} THEN 2
              ELSE IF Where(c) \in {"reseed", "fill", "hand", "lockfile", "write"} THEN 1
              ELSE 0
CalledFrom(c) == IF c.pc \in InInitialize
                   THEN c.back \in {"idle", "poll", "absorb", "reseed", "fill"}
                   ELSE c.back = "idle"

(* The mutex is held just as deep as the thread that owns it has gone.      *)
Locks(t, c, m) == /\ DepthOf(c) > 0 => m.owner = t /\ m.depth = DepthOf(c)
                  /\ m.owner = t => DepthOf(c) > 0

(* Past the reseeding a request of level 2 is covered by the balance.       *)
Covered(c, m) == c.level = 2 /\ Where(c) \in {"fill", "hand"} =>
                   m.balance >= Smaller(c.rest, PoolSize)

ThreadInv(t, c, m) == CalledFrom(c) /\ Locks(t, c, m) /\ Covered(c, m)

ProcessInv(m) == /\ m.owner = NoThread => m.depth = 0
                 /\ ~m.seeded => m.balance = 0
                 /\ m.balance <= m.credit

(* As long as no pool in use was replaced: a pool that is filled or seeded  *)
(* has had its poll, and so has what is handed out, saved or read back.     *)
InUse == {"hand", "lockfile", "write"}
Strong(m) == m.filled \/ m.seeded => m.strong = PollLength
StrongKey(c, m) == /\ c.pc \in InUse => m.key = PollLength
                   /\ Where(c) = "absorb" => c.got = "whole"
Sound == /\ file # "poor"
         /\ \A p \in Proc : Strong(mem[p])
         /\ \A t \in Thread : StrongKey(call[t], Mem(t))

(* The thread that writes the seed file has the lock on it.                 *)
WriterHasLock == \A t \in Thread : call[t].pc = "write" => writer = ProcOf[t]

IInv == /\ TypeOK
        /\ \A p \in Proc : ProcessInv(mem[p])
        /\ \A t \in Thread : ThreadInv(t, call[t], Mem(t))
        /\ WriterHasLock
        /\ ~replaced => Sound

-----------------------------------------------------------------------------
(* Sizes, records and what the helpers of the model return.                *)
MemType ==
  [inited : BOOLEAN, strong : 0 .. PollLength, key : NoPool .. PollLength,
   pos : 0 .. PoolSize - 1, filled : BOOLEAN, seeded : BOOLEAN,
   balance : 0 .. PoolSize, allow : BOOLEAN,
   owner : Thread \cup {NoThread}, depth : 0 .. 2, credit : Int, calls : Nat]
CallType == [pc : Pcs, back : Pcs, level : 0 .. 2, rest : Nat, got : Files]
Types == /\ mem \in [Proc -> MemType] /\ running \subseteq Proc
         /\ call \in [Thread -> CallType]
         /\ file \in Files /\ writer \in Proc \cup {NoProc}
         /\ replaced \in BOOLEAN /\ starts \in 0 .. MaxStarts

LEMMA TypeParts == TypeOK <=> Types
BY DEF TypeOK, Types, MemType, CallType

LEMMA Sizes ==
  /\ PoolSize \in Nat /\ PoolSize >= 10
  /\ PollLength \in Nat /\ PollLength >= 2 /\ PollLength <= HalfPool
  /\ HalfPool \in Nat /\ HalfPool <= PoolSize
  /\ FastLength \in 0 .. PoolSize
BY SizeAssumption DEF PollLength, HalfPool

LEMMA SmallerFacts ==
  ASSUME NEW a \in Int, NEW b \in Int
  PROVE  /\ Smaller(a, b) \in {a, b} /\ Smaller(a, b) <= a /\ Smaller(a, b) <= b
         /\ Larger(a, b) \in {a, b} /\ Larger(a, b) >= a /\ Larger(a, b) >= b
BY DEF Smaller, Larger

(* The two ways in which a step changes the records.                       *)
LEMMA ChangeFacts ==
  ASSUME Types, NEW t \in Thread, NEW m \in MemType, Change(t, m)
  PROVE  /\ mem' \in [Proc -> MemType] /\ mem'[ProcOf[t]] = m
         /\ \A p \in Proc : p # ProcOf[t] => mem'[p] = mem[p]
BY ThreadAssumption DEF Types, Change

LEMMA GotoFacts ==
  ASSUME Types, NEW t \in Thread, NEW c \in CallType,
         call' = [call EXCEPT ![t] = c]
  PROVE  /\ call' \in [Thread -> CallType] /\ call'[t] = c
         /\ \A u \in Thread : u # t => call'[u] = call[u]
BY DEF Types

LEMMA OwnRecords ==
  ASSUME Types, NEW t \in Thread
  PROVE  ProcOf[t] \in Proc /\ Mem(t) \in MemType /\ call[t] \in CallType
BY ThreadAssumption DEF Types, Mem

LEMMA AddFacts ==
  ASSUME NEW m \in MemType, NEW n \in 0 .. PoolSize, NEW source \in {1, 3}
  PROVE  /\ Add(m, n, source) \in MemType
         /\ Add(m, n, source).owner = m.owner /\ Add(m, n, source).depth = m.depth
         /\ Add(m, n, source).balance = m.balance
         /\ Add(m, n, source).credit = m.credit
         /\ Add(m, n, source).seeded = m.seeded /\ Add(m, n, source).key = m.key
         /\ source = 1 => /\ Add(m, n, source).strong = m.strong
                          /\ Add(m, n, source).filled = m.filled
         /\ source = 3 => Add(m, n, source).strong = Smaller(m.strong + n, PollLength)
         /\ Add(m, n, source).filled /\ ~m.filled => m.pos + n >= PoolSize
<1> DEFINE full == m.filled \/ (source > 1 /\ m.pos + n >= PoolSize)
           pos == IF full THEN 0 ELSE (m.pos + n) % PoolSize
           strong == IF source > 1 THEN Smaller(m.strong + n, PollLength) ELSE m.strong
<1>1. full \in BOOLEAN /\ (source = 1 => full = m.filled)
      /\ (full /\ ~m.filled => m.pos + n >= PoolSize)
    BY DEF MemType
<1>2. pos \in 0 .. PoolSize - 1
    <2>1. m.pos + n \in Nat
        BY Sizes DEF MemType
    <2>2. (m.pos + n) % PoolSize \in 0 .. PoolSize - 1
        BY <2>1, Sizes
    <2> QED BY <2>2, Sizes
<1>3. strong \in 0 .. PollLength
      /\ (source = 1 => strong = m.strong)
      /\ (source = 3 => strong = Smaller(m.strong + n, PollLength))
    <2>1. m.strong \in 0 .. PollLength /\ m.strong + n \in Nat
        BY Sizes DEF MemType
    <2>2. Smaller(m.strong + n, PollLength) \in 0 .. PollLength
        BY <2>1, Sizes DEF Smaller
    <2> QED BY <2>1, <2>2
<1>4. Add(m, n, source) = [m EXCEPT !.pos = pos, !.filled = full, !.strong = strong]
    BY DEF Add
<1> HIDE DEF full, pos, strong
<1> QED BY <1>1, <1>2, <1>3, <1>4 DEF MemType


-----------------------------------------------------------------------------
(* A step of a thread: what it leaves alone, and what it owes the others.  *)
Framed(t) ==
  /\ mem' \in [Proc -> MemType] /\ \A p \in Proc : p # ProcOf[t] => mem'[p] = mem[p]
  /\ call' \in [Thread -> CallType] /\ \A u \in Thread : u # t => call'[u] = call[u]
  /\ running' = running /\ starts' = starts /\ replaced' \in BOOLEAN
  /\ file' \in Files /\ writer' \in Proc \cup {NoProc}

(* Without the mutex, nothing changes that its owner goes by.              *)
Quiet(t, m, n) ==
  /\ n.owner = m.owner /\ n.depth = m.depth /\ n.balance = m.balance
  /\ DepthOf(call'[t]) = DepthOf(call[t])
  /\ KeyInUse(ProcOf[t]) /\ ~replaced' => n.key = m.key

(* With it, or when it is free, it is kept as deep as the thread goes.     *)
Owning(t, m, n) ==
  /\ m.owner \in {NoThread, t}
  /\ n.owner = IF DepthOf(call'[t]) > 0 THEN t ELSE NoThread
  /\ n.depth = DepthOf(call'[t])

OwnStep(t) ==
  LET m == mem[ProcOf[t]]
      n == mem'[ProcOf[t]]
      d == call'[t]
  IN
  /\ Framed(t)
  /\ Quiet(t, m, n) \/ Owning(t, m, n)
  /\ ProcessInv(n) /\ CalledFrom(d) /\ Covered(d, n)
  /\ d.pc = "write" => writer' = ProcOf[t]
  /\ writer' = writer \/ writer = NoProc \/ call[t].pc = "write"
  /\ ~replaced' => ~replaced /\ file' # "poor" /\ Strong(n) /\ StrongKey(d, n)

LEMMA WhereFacts ==
  ASSUME NEW c \in CallType, CalledFrom(c)
  PROVE  /\ DepthOf(c) \in 0 .. 2
         /\ c.pc \in InUse => Where(c) = c.pc /\ DepthOf(c) = 1
         /\ c.pc = "read" => DepthOf(c) = 2
         /\ Where(c) \in {"hand", "lockfile", "write"} => c.pc = Where(c)
         /\ Where(c) \in {"fill", "hand", "absorb"} => DepthOf(c) > 0
BY DEF CallType, CalledFrom, DepthOf, Where, InInitialize, InUse

(* Threads of one process that both hold the mutex are the same.           *)
LEMMA OneHolder ==
  ASSUME IInv, NEW t \in Thread, NEW u \in Thread, ProcOf[t] = ProcOf[u],
         DepthOf(call[t]) > 0, DepthOf(call[u]) > 0
  PROVE  t = u
BY DEF IInv, ThreadInv, Locks, Mem

LEMMA OthersKept ==
  ASSUME IInv, NEW t \in Thread, OwnStep(t), NEW u \in Thread, u # t
  PROVE  /\ ThreadInv(u, call'[u], mem'[ProcOf[u]])
         /\ call'[u].pc = "write" => writer' = ProcOf[u]
         /\ ~replaced' => StrongKey(call'[u], mem'[ProcOf[u]])
<1> DEFINE m == mem[ProcOf[t]]
           n == mem'[ProcOf[t]]
<1>1. Types
    BY TypeParts DEF IInv
<1>2. call'[u] = call[u] /\ (Quiet(t, m, n) \/ Owning(t, m, n))
    BY DEF OwnStep, Framed
<1>3. ThreadInv(u, call[u], mem[ProcOf[u]])
      /\ (call[u].pc = "write" => writer = ProcOf[u])
      /\ (~replaced' => ~replaced /\ StrongKey(call[u], mem[ProcOf[u]]))
    BY DEF IInv, WriterHasLock, Sound, OwnStep, Mem
<1>4. /\ call[u].pc \in InUse => Where(call[u]) = call[u].pc /\ DepthOf(call[u]) = 1
      /\ Where(call[u]) \in {"fill", "hand"} => DepthOf(call[u]) > 0
    BY <1>1, <1>3, OwnRecords, WhereFacts DEF ThreadInv
<1>5. call'[u].pc = "write" => writer' = ProcOf[u]
    <2> SUFFICES ASSUME call[u].pc = "write", writer' # ProcOf[u] PROVE FALSE
        BY <1>2
    <2>1. writer = ProcOf[u] /\ writer # NoProc
        BY <1>1, <1>3, OwnRecords, ThreadAssumption
    <2>2. call[t].pc = "write" /\ writer = ProcOf[t]
        BY <2>1 DEF OwnStep, IInv, WriterHasLock
    <2>3. DepthOf(call[t]) > 0 /\ DepthOf(call[u]) > 0
        BY <2>2 DEF DepthOf, Where, InInitialize
    <2> QED BY <2>1, <2>2, <2>3, OneHolder
<1>6. CASE ProcOf[u] # ProcOf[t]
    <2>1. mem'[ProcOf[u]] = mem[ProcOf[u]]
        BY <1>1, <1>6, OwnRecords DEF OwnStep, Framed
    <2> QED BY <1>2, <1>3, <1>5, <2>1
<1>7. CASE ProcOf[u] = ProcOf[t] /\ Quiet(t, m, n)
    <2>1. Locks(u, call[u], n) /\ Covered(call[u], n)
        BY <1>3, <1>7 DEF ThreadInv, Locks, Covered, Quiet
    <2>2. call[u].pc \in InUse => KeyInUse(ProcOf[t])
        BY <1>7 DEF KeyInUse, InUse
    <2>3. ~replaced' => StrongKey(call[u], n)
        BY <1>3, <1>7, <2>2 DEF StrongKey, Quiet
    <2> QED BY <1>2, <1>3, <1>5, <1>7, <2>1, <2>3 DEF ThreadInv
<1>8. CASE ProcOf[u] = ProcOf[t] /\ Owning(t, m, n)
    \* The mutex was not u's, so u is nowhere that needs it.
    <2>1. m.owner # u /\ n.owner # u
        BY <1>8, ThreadAssumption DEF Owning
    <2>2. ~(DepthOf(call[u]) > 0)
        BY <1>3, <1>8, <2>1 DEF ThreadInv, Locks
    <2>3. Locks(u, call[u], n) /\ Covered(call[u], n)
        BY <1>4, <2>1, <2>2 DEF Locks, Covered
    <2>4. ~replaced' => StrongKey(call[u], n)
        BY <1>3, <1>4, <2>2 DEF StrongKey
    <2> QED BY <1>2, <1>3, <1>5, <1>8, <2>3, <2>4 DEF ThreadInv
<1> QED BY <1>2, <1>6, <1>7, <1>8

LEMMA StepInv ==
  ASSUME IInv, NEW t \in Thread, OwnStep(t)
  PROVE  IInv'
<1> DEFINE n == mem'[ProcOf[t]]
<1>1. Types
    BY TypeParts DEF IInv
<1>2. Types' /\ TypeOK'
    BY <1>1 DEF OwnStep, Framed, Types, TypeOK, MemType, CallType
<1>3. \A p \in Proc : ProcessInv(mem'[p])
    BY DEF OwnStep, Framed, IInv
<1>4. ThreadInv(t, call'[t], n)
    <2>1. Locks(t, call[t], mem[ProcOf[t]])
        BY DEF IInv, ThreadInv, Mem
    <2>2. Locks(t, call'[t], n)
        BY <2>1, ThreadAssumption DEF OwnStep, Quiet, Owning, Locks
    <2> QED BY <2>2 DEF ThreadInv, OwnStep
<1>5. \A u \in Thread : ThreadInv(u, call'[u], mem'[ProcOf[u]])
    BY <1>4, OthersKept
<1>6. \A u \in Thread : call'[u].pc = "write" => writer' = ProcOf[u]
    BY OthersKept DEF OwnStep
<1>7. ASSUME ~replaced' PROVE Sound'
    <2>1. \A p \in Proc : Strong(mem'[p])
        BY <1>7 DEF OwnStep, Framed, IInv, Sound
    <2>2. \A u \in Thread : StrongKey(call'[u], mem'[ProcOf[u]])
        BY <1>7, OthersKept DEF OwnStep
    <2> QED BY <1>7, <2>1, <2>2 DEF Sound, OwnStep, Mem
<1> QED BY <1>2, <1>3, <1>5, <1>6, <1>7 DEF IInv, WriterHasLock, Mem


-----------------------------------------------------------------------------
(* The actions of a thread, one lemma each.                                *)
LEMMA OwnFacts ==
  ASSUME IInv, NEW t \in Thread
  PROVE  /\ Types /\ ProcOf[t] \in Proc /\ Mem(t) \in MemType /\ call[t] \in CallType
         /\ CalledFrom(call[t]) /\ Locks(t, call[t], Mem(t)) /\ Covered(call[t], Mem(t))
         /\ ProcessInv(Mem(t))
         /\ ~replaced => file # "poor" /\ Strong(Mem(t)) /\ StrongKey(call[t], Mem(t))
         /\ call[t].pc = "write" => writer = ProcOf[t]
BY OwnRecords, TypeParts DEF IInv, ThreadInv, Sound, WriterHasLock, Mem

Becomes(t, n, d) ==
  /\ n \in MemType /\ d \in CallType
  /\ mem' = [mem EXCEPT ![ProcOf[t]] = n] \/ (mem' = mem /\ n = Mem(t))
  /\ call' = [call EXCEPT ![t] = d] \/ (call' = call /\ d = call[t])

LEMMA FramedFacts ==
  ASSUME Types, NEW t \in Thread, NEW n, NEW d, Becomes(t, n, d),
         running' = running, starts' = starts, replaced' \in BOOLEAN,
         file' \in Files, writer' \in Proc \cup {NoProc}
  PROVE  Framed(t) /\ mem'[ProcOf[t]] = n /\ call'[t] = d
<1>1. mem' \in [Proc -> MemType] /\ mem'[ProcOf[t]] = n
      /\ \A p \in Proc : p # ProcOf[t] => mem'[p] = mem[p]
    BY ThreadAssumption DEF Types, Becomes, Mem
<1>2. call' \in [Thread -> CallType] /\ call'[t] = d
      /\ \A u \in Thread : u # t => call'[u] = call[u]
    BY DEF Types, Becomes
<1> QED BY <1>1, <1>2 DEF Framed

(* A step without the mutex, and one with it.                              *)
LEMMA QuietStep ==
  ASSUME IInv, NEW t \in Thread, NEW n, NEW d, Becomes(t, n, d),
         running' = running, starts' = starts, file' = file, writer' = writer,
         replaced' \in BOOLEAN, ~replaced' => ~replaced,
         CalledFrom(d), DepthOf(d) = DepthOf(call[t]), Covered(d, Mem(t)),
         n.owner = Mem(t).owner, n.depth = Mem(t).depth, n.balance = Mem(t).balance,
         n.seeded = Mem(t).seeded, n.credit = Mem(t).credit,
         KeyInUse(ProcOf[t]) /\ ~replaced' => n.key = Mem(t).key,
         ~replaced' => Strong(n) /\ StrongKey(d, n),
         d.pc # "write"
  PROVE  OwnStep(t)
<1>1. Types /\ Framed(t) /\ mem'[ProcOf[t]] = n /\ call'[t] = d
    <2>1. Types
        BY OwnFacts
    <2> QED BY <2>1, FramedFacts DEF Types
<1>2. Quiet(t, Mem(t), n)
    BY <1>1 DEF Quiet
<1>3. ProcessInv(n) /\ Covered(d, n)
    BY OwnFacts DEF ProcessInv, Covered
<1>4. ~replaced' => file' # "poor"
    BY OwnFacts
<1> QED BY <1>1, <1>2, <1>3, <1>4 DEF OwnStep, Mem

LEMMA OwningStep ==
  ASSUME IInv, NEW t \in Thread, NEW n, NEW d, Becomes(t, n, d),
         running' = running, starts' = starts, replaced' = replaced,
         file' \in Files, ~replaced => file' # "poor",
         writer' \in Proc \cup {NoProc},
         writer' = writer \/ writer = NoProc \/ call[t].pc = "write",
         d.pc = "write" => writer' = ProcOf[t],
         Mem(t).owner \in {NoThread, t},
         n.owner = IF DepthOf(d) > 0 THEN t ELSE NoThread,
         n.depth = DepthOf(d),
         ProcessInv(n), CalledFrom(d), Covered(d, n),
         ~replaced => Strong(n) /\ StrongKey(d, n)
  PROVE  OwnStep(t)
<1>1. Types /\ Framed(t) /\ mem'[ProcOf[t]] = n /\ call'[t] = d
    <2>1. Types
        BY OwnFacts
    <2> QED BY <2>1, FramedFacts DEF Types
<1>2. Owning(t, Mem(t), n)
    BY <1>1 DEF Owning
<1> QED BY <1>1, <1>2 DEF OwnStep, Mem


LEMMA CallSteps ==
  ASSUME IInv, NEW t \in Thread, Ask(t) \/ Open(t) \/ IsFaked(t)
  PROVE  OwnStep(t)
<1> DEFINE m == Mem(t)
           c == call[t]
           n == [m EXCEPT !.calls = @ + 1]
<1> USE OwnFacts
<1>1. /\ mem' = [mem EXCEPT ![ProcOf[t]] = n]
      /\ c.pc = "idle" /\ running' = running /\ starts' = starts /\ file' = file
      /\ writer' = writer /\ replaced' = replaced
    BY DEF Ask, Open, IsFaked, Called, Change, At
<1>2. /\ n \in MemType /\ Strong(n) = Strong(m)
      /\ n.owner = m.owner /\ n.depth = m.depth /\ n.balance = m.balance
      /\ n.seeded = m.seeded /\ n.credit = m.credit /\ n.key = m.key
    BY DEF MemType, Strong
<1>3. CASE Ask(t)
    <2>1. PICK r \in Request :
            call' = [call EXCEPT ![t] = [NoCall EXCEPT !.pc = "begin", !.level = r[1],
                                                       !.rest = r[2]]]
        BY <1>3 DEF Ask
    <2> DEFINE d == [NoCall EXCEPT !.pc = "begin", !.level = r[1], !.rest = r[2]]
    <2>2. d \in CallType
        BY RequestAssumption DEF CallType, NoCall, Pcs, Files
    <2>3. DepthOf(d) = DepthOf(c) /\ CalledFrom(d) /\ Covered(d, m)
        BY <1>1 DEF DepthOf, Where, InInitialize, CalledFrom, Covered, NoCall
    <2>4. ~replaced' => Strong(n) /\ StrongKey(d, n)
        BY <1>1, <1>2 DEF StrongKey, InUse, Where, InInitialize, NoCall
    <2>5. Becomes(t, n, d) /\ d.pc # "write"
        BY <1>1, <1>2, <2>1, <2>2 DEF Becomes, NoCall
    <2> QED BY <1>1, <1>2, <2>3, <2>4, <2>5, QuietStep DEF Types
<1>4. ASSUME NEW label \in {"poll", "newpool"}, Goto(t, label) PROVE OwnStep(t)
    <2> DEFINE d == [c EXCEPT !.pc = label]
    <2>1. d \in CallType
        BY <1>1 DEF CallType, Pcs
    <2>2. DepthOf(d) = DepthOf(c) /\ CalledFrom(d) /\ Covered(d, m)
        BY <1>1 DEF DepthOf, Where, InInitialize, CalledFrom, Covered, CallType
    <2>3. ~replaced' => Strong(n) /\ StrongKey(d, n)
        BY <1>1, <1>2 DEF StrongKey, InUse, Where, InInitialize, CallType, CalledFrom
    <2>4. Becomes(t, n, d) /\ d.pc # "write"
        BY <1>1, <1>2, <1>4, <2>1 DEF Becomes, Goto, CallType
    <2> QED BY <1>1, <1>2, <2>2, <2>3, <2>4, QuietStep DEF Types
<1> QED BY <1>3, <1>4 DEF Open, IsFaked

(* A call within initialize: at another label, or back where it came from.  *)
SameCall(d, c) ==
  /\ d.level = c.level /\ d.rest = c.rest /\ d.got = c.got
  /\ Where(d) = Where(c) /\ d.pc \notin InUse /\ d.pc \in Pcs
  /\ d.back \in Pcs /\ CalledFrom(d) /\ d \in CallType

LEMMA LabelFacts ==
  ASSUME NEW c \in CallType, CalledFrom(c), c.pc \in InInitialize,
         NEW label \in InInitialize
  PROVE  SameCall([c EXCEPT !.pc = label], c)
<1> DEFINE d == [c EXCEPT !.pc = label]
<1>1. label \in Pcs /\ label \notin InUse
    BY DEF InInitialize, InUse, Pcs
<1>2. /\ d \in CallType /\ d.pc = label /\ d.back = c.back
      /\ d.level = c.level /\ d.rest = c.rest /\ d.got = c.got
    BY <1>1 DEF CallType
<1> HIDE DEF d
<1>3. Where(d) = Where(c)
    BY <1>2 DEF Where
<1>4. CalledFrom(d) /\ d.back \in Pcs
    BY <1>2 DEF CalledFrom, CallType
<1>5. SameCall(d, c)
    BY <1>1, <1>2, <1>3, <1>4 DEF SameCall
<1> QED BY <1>5 DEF d

LEMMA BackFacts ==
  ASSUME NEW c \in CallType, CalledFrom(c), c.pc \in InInitialize
  PROVE  SameCall([c EXCEPT !.pc = c.back, !.back = "idle"], c)
<1> DEFINE d == [c EXCEPT !.pc = c.back, !.back = "idle"]
<1>1. c.back \in {"idle", "poll", "absorb", "reseed", "fill"}
    BY DEF CalledFrom
<1>2. "idle" \in Pcs /\ c.back \in Pcs
    BY DEF Pcs, CallType
<1>3. /\ d \in CallType /\ d.pc = c.back /\ d.back = "idle"
      /\ d.level = c.level /\ d.rest = c.rest /\ d.got = c.got
    BY <1>2 DEF CallType
<1> HIDE DEF d
<1>4. d.pc \notin InInitialize /\ d.pc \notin InUse
    BY <1>1, <1>3 DEF InInitialize, InUse
<1>5. Where(d) = Where(c)
    BY <1>3, <1>4 DEF Where
<1>6. CalledFrom(d)
    BY <1>3, <1>4 DEF CalledFrom
<1>7. SameCall(d, c)
    BY <1>2, <1>3, <1>4, <1>5, <1>6 DEF SameCall
<1> QED BY <1>7 DEF d

LEMMA AbsorbFacts ==
  ASSUME NEW c \in CallType, NEW f \in Files
  PROVE  LET d == [c EXCEPT !.pc = "absorb", !.got = f]
         IN  d \in CallType /\ d.pc = "absorb" /\ d.back = c.back
BY DEF CallType, Pcs

LEMMA InitializeSteps ==
  ASSUME IInv, NEW t \in Thread,
         Initialize(t) \/ NewPool(t) \/ NewKey(t) \/ SetInit(t)
  PROVE  OwnStep(t)
<1> DEFINE m == Mem(t)
           c == call[t]
<1> USE OwnFacts
<1>0. running' = running /\ starts' = starts /\ file' = file /\ writer' = writer
    BY DEF Initialize, NewPool, NewKey, SetInit
<1>1. CASE Initialize(t)
    <2> DEFINE d == [c EXCEPT !.pc = "newpool", !.back = c.pc]
    <2>1. c.pc \in {"absorb", "poll", "reseed", "fill"}
        BY <1>1 DEF Initialize, NeedsPool, At
    <2>2. d \in CallType
        BY DEF CallType, Pcs
    <2>3. /\ DepthOf(d) = DepthOf(c) /\ CalledFrom(d) /\ Covered(d, m)
          /\ StrongKey(c, m) => StrongKey(d, m)
        BY <2>1 DEF DepthOf, Where, InInitialize, CalledFrom, Covered, CallType,
                    StrongKey, InUse
    <2>4. Becomes(t, m, d) /\ d.pc # "write" /\ replaced' = replaced
        BY <1>1, <2>2 DEF Initialize, Becomes, CallType
    <2> QED BY <1>0, <2>3, <2>4, QuietStep DEF Types
\* From label to label within initialize, and back to where it was called from
<1>2. ASSUME NEW d, \/ /\ c.pc \in InInitialize
                       /\ \E label \in InInitialize : d = [c EXCEPT !.pc = label]
                    \/ /\ c.pc \in InInitialize
                       /\ d = [c EXCEPT !.pc = c.back, !.back = "idle"]
      PROVE  /\ d \in CallType /\ d.pc # "write"
             /\ DepthOf(d) = DepthOf(c) /\ CalledFrom(d) /\ Covered(d, m)
             /\ \A n : StrongKey(c, m) => StrongKey(d, n)
    <2>1. SameCall(d, c)
        <3>1. CASE \E label \in InInitialize : d = [c EXCEPT !.pc = label]
            BY <1>2, <3>1, LabelFacts
        <3>2. CASE d = [c EXCEPT !.pc = c.back, !.back = "idle"]
            BY <1>2, <3>2, BackFacts
        <3> QED BY <1>2, <3>1, <3>2
    <2> QED BY <2>1 DEF SameCall, DepthOf, Covered, StrongKey, InUse
<1>3. CASE NewPool(t)
    <2> DEFINE n == [m EXCEPT !.strong = 0]
               d == [c EXCEPT !.pc = "newkey"]
    <2>1. /\ mem' = [mem EXCEPT ![ProcOf[t]] = n]
          /\ c.pc = "newpool" /\ call' = [call EXCEPT ![t] = d]
          /\ replaced' = (replaced \/ m.strong > 0)
        BY <1>3 DEF NewPool, Change, At, Goto
    <2>2. n \in MemType
        BY Sizes DEF MemType
    <2>3. ~replaced' => Strong(n)
        <3>1. m.strong \in Nat
            BY Sizes DEF MemType
        <3> QED BY <2>1, <3>1, Sizes DEF Strong, MemType
    <2>4. c.pc \in InInitialize /\ \E label \in InInitialize : d = [c EXCEPT !.pc = label]
        BY <2>1 DEF InInitialize
    <2>5. /\ d \in CallType /\ d.pc # "write"
          /\ DepthOf(d) = DepthOf(c) /\ CalledFrom(d) /\ Covered(d, m)
          /\ StrongKey(c, m) => StrongKey(d, n)
        BY <1>2, <2>4
    <2>6. Becomes(t, n, d)
        BY <2>1, <2>2, <2>5 DEF Becomes
    <2>7. /\ n.owner = m.owner /\ n.depth = m.depth /\ n.balance = m.balance
          /\ n.seeded = m.seeded /\ n.credit = m.credit /\ n.key = m.key
        BY DEF MemType
    <2>8. replaced' \in BOOLEAN /\ (~replaced' => ~replaced)
        BY <2>1
    <2> QED BY <1>0, <2>3, <2>5, <2>6, <2>7, <2>8, QuietStep
<1>4. CASE NewKey(t)
    <2> DEFINE n == [m EXCEPT !.key = 0]
               d == IF c.pc = "newkey" THEN [c EXCEPT !.pc = "setinit"]
                    ELSE [c EXCEPT !.pc = c.back, !.back = "idle"]
    <2>1. /\ mem' = [mem EXCEPT ![ProcOf[t]] = n]
          /\ c.pc \in {"newkey", "latekey"} /\ call' = [call EXCEPT ![t] = d]
          /\ replaced' = (replaced \/ KeyInUse(ProcOf[t]))
        BY <1>4 DEF NewKey, Change, At, Goto, Back, CallType
    <2>2. n \in MemType /\ Strong(n) = Strong(m)
        BY Sizes DEF MemType, Strong, NoPool
    <2>3. \/ /\ c.pc \in InInitialize
             /\ \E label \in InInitialize : d = [c EXCEPT !.pc = label]
          \/ /\ c.pc \in InInitialize
             /\ d = [c EXCEPT !.pc = c.back, !.back = "idle"]
        BY <2>1 DEF InInitialize
    <2>4. /\ d \in CallType /\ d.pc # "write"
          /\ DepthOf(d) = DepthOf(c) /\ CalledFrom(d) /\ Covered(d, m)
          /\ StrongKey(c, m) => StrongKey(d, n)
        <3> HIDE DEF d
        <3> QED BY <1>2, <2>3
    <2>5. Becomes(t, n, d)
        BY <2>1, <2>2, <2>4 DEF Becomes
    <2>6. /\ n.owner = m.owner /\ n.depth = m.depth /\ n.balance = m.balance
          /\ n.seeded = m.seeded /\ n.credit = m.credit
        BY DEF MemType
    <2>7. replaced' \in BOOLEAN /\ (~replaced' => ~replaced)
          /\ ~(KeyInUse(ProcOf[t]) /\ ~replaced')
        <3>1. KeyInUse(ProcOf[t]) \in BOOLEAN
            BY DEF KeyInUse
        <3> QED BY <2>1, <3>1
    <2> QED BY <1>0, <2>2, <2>4, <2>5, <2>6, <2>7, QuietStep
<1>5. CASE SetInit(t)
    <2> DEFINE n == [m EXCEPT !.inited = TRUE]
               d == IF c.pc = "newkey" THEN [c EXCEPT !.pc = "latekey"]
                    ELSE [c EXCEPT !.pc = c.back, !.back = "idle"]
    <2>1. /\ mem' = [mem EXCEPT ![ProcOf[t]] = n]
          /\ c.pc \in {"newkey", "setinit"} /\ call' = [call EXCEPT ![t] = d]
          /\ replaced' = replaced
        BY <1>5 DEF SetInit, Change, At, Goto, Back, CallType
    <2>2. n \in MemType /\ Strong(n) = Strong(m)
        BY DEF MemType, Strong
    <2>3. \/ /\ c.pc \in InInitialize
             /\ \E label \in InInitialize : d = [c EXCEPT !.pc = label]
          \/ /\ c.pc \in InInitialize
             /\ d = [c EXCEPT !.pc = c.back, !.back = "idle"]
        BY <2>1 DEF InInitialize
    <2>4. /\ d \in CallType /\ d.pc # "write"
          /\ DepthOf(d) = DepthOf(c) /\ CalledFrom(d) /\ Covered(d, m)
          /\ StrongKey(c, m) => StrongKey(d, n)
        <3> HIDE DEF d
        <3> QED BY <1>2, <2>3
    <2>5. Becomes(t, n, d)
        BY <2>1, <2>2, <2>4 DEF Becomes
    <2>6. /\ n.owner = m.owner /\ n.depth = m.depth /\ n.balance = m.balance
          /\ n.seeded = m.seeded /\ n.credit = m.credit /\ n.key = m.key
        BY DEF MemType
    <2> QED BY <1>0, <2>1, <2>2, <2>4, <2>5, <2>6, QuietStep DEF Types
<1> QED BY <1>1, <1>3, <1>4, <1>5


(* Taking the mutex once more, and giving it back once.                    *)
SameData(n, m) ==
  /\ n.strong = m.strong /\ n.key = m.key /\ n.filled = m.filled
  /\ n.seeded = m.seeded /\ n.balance = m.balance /\ n.credit = m.credit

LEMMA SameDataFacts ==
  ASSUME NEW m, NEW n, SameData(n, m), ProcessInv(m), n.owner = NoThread => n.depth = 0
  PROVE  ProcessInv(n) /\ (Strong(m) => Strong(n))
BY DEF SameData, ProcessInv, Strong

LEMMA TakenFacts ==
  ASSUME NEW m \in MemType, NEW t \in Thread, m.depth \in {0, 1}
  PROVE  /\ Taken(m, t) \in MemType /\ SameData(Taken(m, t), m)
         /\ Taken(m, t).owner = t /\ Taken(m, t).depth = m.depth + 1
         /\ Taken(m, t).inited = m.inited
<1> DEFINE deeper == m.depth + 1
<1>1. deeper \in 0 .. 2
    BY DEF MemType
<1>2. Taken(m, t) = [m EXCEPT !.owner = t, !.depth = deeper]
    BY DEF Taken, MemType
<1> HIDE DEF deeper
<1>3. Taken(m, t) \in MemType /\ SameData(Taken(m, t), m)
    BY <1>1, <1>2 DEF MemType, SameData
<1>4. Taken(m, t).owner = t /\ Taken(m, t).depth = deeper /\ Taken(m, t).inited = m.inited
    BY <1>2 DEF MemType
<1> QED BY <1>3, <1>4 DEF deeper

LEMMA GivenFacts ==
  ASSUME NEW m \in MemType, m.depth \in {1, 2}
  PROVE  /\ Given(m) \in MemType /\ SameData(Given(m), m)
         /\ Given(m).owner = IF m.depth = 1 THEN NoThread ELSE m.owner
         /\ Given(m).depth = m.depth - 1
<1> DEFINE shallower == m.depth - 1
           owner == IF m.depth = 1 THEN NoThread ELSE m.owner
<1>1. shallower \in 0 .. 2 /\ owner \in Thread \cup {NoThread}
    BY DEF MemType
<1>2. Given(m) = [m EXCEPT !.depth = shallower, !.owner = owner]
    BY DEF Given, MemType
<1> HIDE DEF shallower, owner
<1>3. Given(m) \in MemType /\ SameData(Given(m), m)
    BY <1>1, <1>2 DEF MemType, SameData
<1>4. Given(m).owner = owner /\ Given(m).depth = shallower
    BY <1>2 DEF MemType
<1> QED BY <1>3, <1>4 DEF shallower, owner

LEMMA FreeFacts ==
  ASSUME IInv, NEW t \in Thread, Free(t), call[t].pc \notin InInitialize
  PROVE  /\ Mem(t).owner = NoThread /\ Mem(t).depth = 0 /\ Mem(t).owner # t
         /\ DepthOf(call[t]) = 0
BY OwnFacts, OwnRecords, ThreadAssumption DEF Free, ProcessInv, Locks, DepthOf, Where

LEMMA HeldFacts ==
  ASSUME IInv, NEW t \in Thread, call[t].pc \notin InInitialize, DepthOf(call[t]) > 0
  PROVE  Mem(t).owner = t /\ Mem(t).depth = DepthOf(call[t])
BY OwnFacts DEF Locks

(* Where a reading goes after the mutex was taken or the seed file read.   *)
LEMMA StageFacts ==
  ASSUME NEW t \in Thread, call[t] \in CallType, CalledFrom(call[t]),
         call[t].pc \notin InInitialize, NEW d, d = [call[t] EXCEPT !.pc = Stage(t)]
  PROVE  /\ d \in CallType /\ DepthOf(d) = 1 /\ CalledFrom(d)
         /\ d.pc # "write" /\ d.got = call[t].got
         /\ \A n : Covered(d, n) /\ StrongKey(d, n)
BY DEF Stage, CallType, Pcs, DepthOf, Where, InInitialize, CalledFrom, Covered,
       StrongKey, InUse

LEMMA FastPollStep ==
  ASSUME IInv, NEW t \in Thread, FastPoll(t)
  PROVE  OwnStep(t)
<1> DEFINE m == Mem(t)
           c == call[t]
           n == Add(m, FastLength, 1)
           d == [c EXCEPT !.pc = "idle"]
<1> USE OwnFacts
<1>1. /\ mem' = [mem EXCEPT ![ProcOf[t]] = n] /\ call' = [call EXCEPT ![t] = d]
      /\ c.pc = "poll" /\ running' = running /\ starts' = starts /\ file' = file
      /\ writer' = writer /\ replaced' = replaced
    BY DEF FastPoll, Change, At, Goto
<1>2. /\ n \in MemType /\ Strong(n) = Strong(m)
      /\ n.owner = m.owner /\ n.depth = m.depth /\ n.balance = m.balance
      /\ n.seeded = m.seeded /\ n.credit = m.credit /\ n.key = m.key
    <2>1. 1 \in {1, 3} /\ FastLength \in 0 .. PoolSize /\ m \in MemType
        BY Sizes
    <2> HIDE DEF m
    <2> QED BY <2>1, AddFacts DEF Strong
<1>3. /\ d \in CallType /\ DepthOf(d) = DepthOf(c) /\ CalledFrom(d) /\ Covered(d, m)
      /\ d.pc # "write" /\ StrongKey(d, n)
    BY <1>1 DEF CallType, Pcs, DepthOf, Where, InInitialize, CalledFrom, Covered,
                StrongKey, InUse
<1>4. Becomes(t, n, d)
    BY <1>1, <1>2, <1>3 DEF Becomes
<1> HIDE DEF n, d
<1> QED BY <1>1, <1>2, <1>3, <1>4, QuietStep DEF Types

LEMMA BeginStep ==
  ASSUME IInv, NEW t \in Thread, Begin(t)
  PROVE  OwnStep(t)
<1> DEFINE m == Mem(t)
           c == call[t]
           one == Taken(m, t)
           two == Taken(one, t)
<1> USE OwnFacts
<1>1. /\ c.pc = "begin" /\ c.pc \notin InInitialize /\ Free(t)
      /\ running' = running /\ starts' = starts /\ file' = file
      /\ writer' = writer /\ replaced' = replaced
    BY DEF Begin, At, InInitialize
<1>2. m.owner = NoThread /\ m.depth = 0
    BY <1>1, FreeFacts
<1>3. one \in MemType /\ SameData(one, m) /\ one.owner = t /\ one.depth = 1
    BY <1>2, TakenFacts
<1>4. two \in MemType /\ SameData(two, m) /\ two.owner = t /\ two.depth = 2
    <2>1. two \in MemType /\ SameData(two, one) /\ two.owner = t /\ two.depth = 2
        <3> HIDE DEF one
        <3> QED BY <1>3, TakenFacts
    <2> QED BY <1>3, <2>1 DEF SameData
<1>5. \/ \E n \in {one, [one EXCEPT !.allow = TRUE]} :
             Change(t, n) /\ Goto(t, Stage(t))
      \/ Change(t, two) /\ Goto(t, "read")
    BY DEF Begin, Seeded
<1>6. ASSUME NEW n \in {one, [one EXCEPT !.allow = TRUE]},
             Change(t, n), Goto(t, Stage(t))
      PROVE OwnStep(t)
    <2> DEFINE d == [c EXCEPT !.pc = Stage(t)]
    <2>1. n \in MemType /\ SameData(n, m) /\ n.owner = t /\ n.depth = 1
        <3> HIDE DEF one
        <3> QED BY <1>3 DEF MemType, SameData
    <2>2. /\ d \in CallType /\ DepthOf(d) = 1 /\ CalledFrom(d) /\ Covered(d, n)
          /\ d.pc # "write" /\ StrongKey(d, n)
        BY <1>1, StageFacts
    <2>3. ProcessInv(n) /\ (Strong(m) => Strong(n))
        BY <2>1, SameDataFacts, ThreadAssumption
    <2>4. Becomes(t, n, d)
        BY <1>6, <2>1, <2>2 DEF Becomes, Change, Goto
    <2> HIDE DEF d
    <2> QED BY <1>1, <1>2, <2>1, <2>2, <2>3, <2>4, OwningStep DEF Types
<1>7. CASE Change(t, two) /\ Goto(t, "read")
    <2> DEFINE d == [c EXCEPT !.pc = "read"]
    <2>1. /\ d \in CallType /\ DepthOf(d) = 2 /\ CalledFrom(d) /\ Covered(d, two)
          /\ d.pc # "write" /\ StrongKey(d, two)
        BY <1>1 DEF CallType, Pcs, DepthOf, Where, InInitialize, CalledFrom, Covered,
                    StrongKey, InUse
    <2>2. ProcessInv(two) /\ (Strong(m) => Strong(two))
        BY <1>4, SameDataFacts, ThreadAssumption
    <2>3. Becomes(t, two, d)
        BY <1>4, <1>7, <2>1 DEF Becomes, Change, Goto
    <2> HIDE DEF d, two
    <2> QED BY <1>1, <1>2, <1>4, <2>1, <2>2, <2>3, OwningStep DEF Types
<1> QED BY <1>5, <1>6, <1>7


(* The file is absorbed as it was under the lock: whole, if nothing was     *)
(* replaced.                                                               *)
LEMMA ReadSeedStep ==
  ASSUME IInv, NEW t \in Thread, ReadSeed(t)
  PROVE  OwnStep(t)
<1> DEFINE m == Mem(t)
           c == call[t]
           given == Given(m)
<1> USE OwnFacts
<1>1. /\ c.pc = "read" /\ c.pc \notin InInitialize /\ DepthOf(c) = 2
      /\ running' = running /\ starts' = starts /\ file' = file
      /\ writer' = writer /\ replaced' = replaced
    BY DEF ReadSeed, At, InInitialize, DepthOf, Where
<1>2. m.owner = t /\ m.depth = 2
    BY <1>1, HeldFacts
<1>3. given \in MemType /\ SameData(given, m) /\ given.owner = t /\ given.depth = 1
    BY <1>2, GivenFacts
<1>4. \/ \E n \in {given, [given EXCEPT !.allow = TRUE]} :
             Change(t, n) /\ Goto(t, Stage(t))
      \/ /\ Valid(file) /\ mem' = mem
         /\ call' = [call EXCEPT ![t] = [c EXCEPT !.pc = "absorb", !.got = file]]
    BY DEF ReadSeed, Refused, Seeded
<1>5. ASSUME NEW n \in {given, [given EXCEPT !.allow = TRUE]},
             Change(t, n), Goto(t, Stage(t))
      PROVE OwnStep(t)
    <2> DEFINE d == [c EXCEPT !.pc = Stage(t)]
    <2>1. n \in MemType /\ SameData(n, m) /\ n.owner = t /\ n.depth = 1
        <3> HIDE DEF given
        <3> QED BY <1>3 DEF MemType, SameData
    <2>2. /\ d \in CallType /\ DepthOf(d) = 1 /\ CalledFrom(d) /\ Covered(d, n)
          /\ d.pc # "write" /\ StrongKey(d, n)
        BY <1>1, StageFacts
    <2>3. ProcessInv(n) /\ (Strong(m) => Strong(n))
        BY <2>1, SameDataFacts, ThreadAssumption
    <2>4. Becomes(t, n, d)
        BY <1>5, <2>1, <2>2 DEF Becomes, Change, Goto
    <2> HIDE DEF d
    <2> QED BY <1>1, <1>2, <2>1, <2>2, <2>3, <2>4, OwningStep DEF Types
<1>6. CASE /\ Valid(file) /\ mem' = mem
           /\ call' = [call EXCEPT ![t] = [c EXCEPT !.pc = "absorb", !.got = file]]
    <2> DEFINE d == [c EXCEPT !.pc = "absorb", !.got = file]
    <2>1. /\ d \in CallType /\ DepthOf(d) = 2 /\ CalledFrom(d) /\ Covered(d, m)
          /\ d.pc # "write"
        <3>1. d \in CallType /\ d.pc = "absorb" /\ d.back = c.back
            <4>1. file \in Files
                BY DEF Types
            <4> QED BY <4>1, AbsorbFacts
        <3>2. Where(d) = "absorb" /\ d.pc \notin InInitialize
            BY <3>1 DEF Where, InInitialize
        <3>3. c.back = "idle"
            BY <1>1 DEF CalledFrom, InInitialize
        <3> HIDE DEF d
        <3> QED BY <3>1, <3>2, <3>3 DEF DepthOf, CalledFrom, Covered
    <2>2. ~replaced => StrongKey(d, m)
        BY <1>1, <1>6 DEF StrongKey, InUse, Valid, CallType
    <2>3. Becomes(t, m, d)
        BY <1>6, <2>1 DEF Becomes
    <2> HIDE DEF d
    <2> QED BY <1>1, <1>2, <2>1, <2>2, <2>3, OwningStep DEF Types
<1> QED BY <1>4, <1>5, <1>6

LEMMA AbsorbStep ==
  ASSUME IInv, NEW t \in Thread, Absorb(t)
  PROVE  OwnStep(t)
<1> DEFINE m == Mem(t)
           c == call[t]
           given == Given(m)
           n == [given EXCEPT !.filled = TRUE, !.pos = 0, !.allow = TRUE,
                   !.strong = IF c.got = "whole" THEN PollLength ELSE @]
           e == [c EXCEPT !.pc = Stage(t)]
           d == [c EXCEPT !.pc = Stage(t), !.got = "absent"]
<1> USE OwnFacts
<1>1. /\ c.pc = "absorb" /\ c.pc \notin InInitialize /\ DepthOf(c) = 2
      /\ running' = running /\ starts' = starts /\ file' = file
      /\ writer' = writer /\ replaced' = replaced
      /\ mem' = [mem EXCEPT ![ProcOf[t]] = n] /\ call' = [call EXCEPT ![t] = d]
    BY DEF Absorb, At, InInitialize, DepthOf, Where, Change
<1>2. m.owner = t /\ m.depth = 2
    BY <1>1, HeldFacts
<1>3. given \in MemType /\ SameData(given, m) /\ given.owner = t /\ given.depth = 1
    BY <1>2, GivenFacts
<1>4. /\ n \in MemType /\ n.owner = t /\ n.depth = 1
      /\ n.seeded = m.seeded /\ n.balance = m.balance /\ n.credit = m.credit
      /\ c.got = "whole" => n.strong = PollLength
    <2> HIDE DEF given
    <2>1. 0 \in 0 .. PoolSize - 1 /\ PollLength \in 0 .. PollLength
        BY Sizes
    <2> QED BY <1>3, <2>1 DEF MemType, SameData
<1>5. ProcessInv(n)
    BY <1>4, ThreadAssumption DEF ProcessInv
<1>6. ~replaced => Strong(n)
    BY <1>1, <1>4 DEF StrongKey, Strong, Where
<1>7. /\ e \in CallType /\ DepthOf(e) = 1 /\ CalledFrom(e) /\ e.pc # "write"
      /\ Covered(e, n) /\ StrongKey(e, n)
    BY <1>1, StageFacts
<1>8. /\ d \in CallType /\ DepthOf(d) = 1 /\ CalledFrom(d) /\ Covered(d, n)
      /\ d.pc # "write" /\ StrongKey(d, n)
    <2> HIDE DEF n
    <2>1. d = [e EXCEPT !.got = "absent"] /\ e.pc \in {"reseed", "fill"}
        BY DEF CallType, Stage
    <2> HIDE DEF e, d
    <2> QED BY <1>7, <2>1 DEF CallType, DepthOf, Where, InInitialize, CalledFrom, Covered,
                              StrongKey, InUse, Files
<1>9. Becomes(t, n, d)
    BY <1>1, <1>4, <1>8 DEF Becomes
<1> HIDE DEF n, d
<1> QED BY <1>1, <1>2, <1>4, <1>5, <1>6, <1>8, <1>9, OwningStep DEF Types


(* What a request of level 2 lacks fits on the balance and covers it.      *)
LEMMA NeededFacts ==
  ASSUME IInv, NEW t \in Thread
  PROVE  /\ Needed(t) \in 0 .. PoolSize
         /\ Mem(t).balance + Needed(t) \in 0 .. PoolSize
         /\ Mem(t).balance + Needed(t) >= Smaller(call[t].rest, PoolSize)
         /\ ~Mem(t).seeded => Needed(t) >= PollLength
<1>1. /\ Mem(t).balance \in 0 .. PoolSize /\ call[t].rest \in Nat
      /\ Mem(t).seeded \in BOOLEAN /\ (~Mem(t).seeded => Mem(t).balance = 0)
    BY OwnFacts DEF MemType, CallType, ProcessInv
<1>2. Length(t) \in 0 .. PoolSize /\ Length(t) = Smaller(call[t].rest, PoolSize)
    BY <1>1, Sizes DEF Length, Smaller
<1> QED BY <1>1, <1>2, Sizes DEF Needed, Larger

LEMMA ReseedStep ==
  ASSUME IInv, NEW t \in Thread, Reseed(t)
  PROVE  OwnStep(t)
<1> DEFINE m == Mem(t)
           c == call[t]
           lack == Needed(t)
           a == Add(m, lack, 3)
           n == [a EXCEPT !.balance = @ + lack, !.credit = @ + lack, !.seeded = TRUE]
           d == [c EXCEPT !.pc = "fill"]
<1> USE OwnFacts
<1>1. /\ c.pc = "reseed" /\ c.pc \notin InInitialize /\ DepthOf(c) = 1
      /\ running' = running /\ starts' = starts /\ file' = file
      /\ writer' = writer /\ replaced' = replaced
      /\ mem' = [mem EXCEPT ![ProcOf[t]] = n] /\ call' = [call EXCEPT ![t] = d]
    BY DEF Reseed, At, InInitialize, DepthOf, Where, Change, Goto
<1>2. m.owner = t /\ m.depth = 1
    BY <1>1, HeldFacts
<1>3. /\ a \in MemType /\ a.owner = t /\ a.depth = 1 /\ a.balance = m.balance
      /\ a.credit = m.credit /\ a.seeded = m.seeded
      /\ a.strong = Smaller(m.strong + lack, PollLength)
      /\ a.filled /\ ~m.filled => m.pos + lack >= PoolSize
    <2>1. 3 \in {1, 3} /\ lack \in 0 .. PoolSize /\ m \in MemType
        BY NeededFacts
    <2> HIDE DEF m, lack
    <2> QED BY <1>2, <2>1, AddFacts
\* What was strong stays so; and when the pool is reseeded for the first time,
\* or its end is reached at last, a poll has gone into it.
<1>4. ~replaced => a.strong = PollLength
    <2>1. m.strong \in 0 .. PollLength /\ lack \in 0 .. PoolSize
          /\ m.seeded \in BOOLEAN
        BY NeededFacts DEF MemType
    <2>2. CASE m.seeded
        BY <1>3, <2>1, <2>2, Sizes DEF Strong, Smaller
    <2>3. CASE ~m.seeded
        <3>1. lack >= PollLength
            BY <2>3, NeededFacts
        <3> HIDE DEF lack, m, a
        <3> QED BY <1>3, <2>1, <3>1, Sizes DEF Smaller
    <2> QED BY <2>2, <2>3
<1>5. /\ n \in MemType /\ n.owner = t /\ n.depth = 1 /\ n.seeded
      /\ n.balance = m.balance + lack /\ n.credit = m.credit + lack
      /\ n.strong = a.strong
    <2>1. m.balance + lack \in 0 .. PoolSize /\ m.credit + lack \in Int
        BY NeededFacts DEF MemType
    <2> HIDE DEF a, lack, m
    <2> QED BY <1>3, <2>1 DEF MemType
<1>6. ProcessInv(n)
    <2>1. m.balance \in Int /\ m.credit \in Int /\ lack \in Int
        BY NeededFacts DEF MemType
    <2> HIDE DEF n, lack
    <2> QED BY <1>5, <2>1, ThreadAssumption DEF ProcessInv
<1>7. ~replaced => Strong(n)
    BY <1>4, <1>5 DEF Strong
<1>8. /\ d \in CallType /\ DepthOf(d) = 1 /\ CalledFrom(d) /\ Covered(d, n)
      /\ d.pc # "write" /\ StrongKey(d, n)
    <2>1. d \in CallType /\ d.pc = "fill" /\ d.back = "idle" /\ d.rest = c.rest
        BY <1>1 DEF CallType, Pcs, CalledFrom
    <2>2. n.balance >= Smaller(d.rest, PoolSize)
        BY <1>5, <2>1, NeededFacts
    <2> HIDE DEF n, d
    <2> QED BY <2>1, <2>2 DEF DepthOf, Where, InInitialize, CalledFrom, Covered,
                              StrongKey, InUse
<1>9. Becomes(t, n, d)
    BY <1>1, <1>5, <1>8 DEF Becomes
<1> HIDE DEF n, d
<1> QED BY <1>1, <1>2, <1>5, <1>6, <1>7, <1>8, <1>9, OwningStep DEF Types

LEMMA FillPoolStep ==
  ASSUME IInv, NEW t \in Thread, FillPool(t)
  PROVE  OwnStep(t)
<1> DEFINE m == Mem(t)
           c == call[t]
           n == [m EXCEPT !.filled = TRUE, !.pos = 0, !.strong = PollLength]
<1> USE OwnFacts
<1>1. /\ c.pc = "fill" /\ c.pc \notin InInitialize /\ DepthOf(c) = 1
      /\ running' = running /\ starts' = starts /\ file' = file
      /\ writer' = writer /\ replaced' = replaced
      /\ mem' = [mem EXCEPT ![ProcOf[t]] = n] /\ call' = call
    BY DEF FillPool, At, InInitialize, DepthOf, Where, Change
<1>2. m.owner = t /\ m.depth = 1
    BY <1>1, HeldFacts
<1>3. /\ n \in MemType /\ n.owner = t /\ n.depth = 1 /\ n.seeded = m.seeded
      /\ n.balance = m.balance /\ n.credit = m.credit /\ n.strong = PollLength
    <2>1. 0 \in 0 .. PoolSize - 1 /\ PollLength \in 0 .. PollLength
        BY Sizes
    <2>2. m \in MemType
        BY DEF MemType
    <2> HIDE DEF m, c
    <2>3. n \in MemType
        BY <2>1, <2>2 DEF MemType
    <2>4. /\ n.owner = m.owner /\ n.depth = m.depth /\ n.seeded = m.seeded
          /\ n.balance = m.balance /\ n.credit = m.credit /\ n.strong = PollLength
        BY <2>2 DEF MemType
    <2> QED BY <1>2, <2>3, <2>4
<1>4. ProcessInv(n) /\ Covered(c, n) /\ Strong(n) /\ StrongKey(c, n)
    BY <1>1, <1>3, ThreadAssumption DEF ProcessInv, Covered, Strong, StrongKey,
                                        InUse, Where, InInitialize
<1>5. Becomes(t, n, c)
    BY <1>1, <1>3 DEF Becomes
<1> HIDE DEF n
<1> QED BY <1>1, <1>2, <1>3, <1>4, <1>5, OwningStep DEF Types

LEMMA CopyStep ==
  ASSUME IInv, NEW t \in Thread, Copy(t)
  PROVE  OwnStep(t)
<1> DEFINE m == Mem(t)
           c == call[t]
           a == Add(m, FastLength, 1)
           n == [a EXCEPT !.key = a.strong]
           d == [c EXCEPT !.pc = "hand"]
<1> USE OwnFacts
<1>1. /\ c.pc = "fill" /\ c.pc \notin InInitialize /\ DepthOf(c) = 1 /\ m.filled
      /\ running' = running /\ starts' = starts /\ file' = file
      /\ writer' = writer /\ replaced' = replaced
      /\ mem' = [mem EXCEPT ![ProcOf[t]] = n] /\ call' = [call EXCEPT ![t] = d]
    BY DEF Copy, At, InInitialize, DepthOf, Where, Change, Goto
<1>2. m.owner = t /\ m.depth = 1
    BY <1>1, HeldFacts
<1>3. /\ a \in MemType /\ a.owner = t /\ a.depth = 1 /\ a.balance = m.balance
      /\ a.credit = m.credit /\ a.seeded = m.seeded /\ a.strong = m.strong
      /\ a.filled = m.filled
    <2>1. 1 \in {1, 3} /\ FastLength \in 0 .. PoolSize /\ m \in MemType
        BY Sizes
    <2> HIDE DEF m
    <2> QED BY <1>2, <2>1, AddFacts
<1>4. /\ n \in MemType /\ n.owner = t /\ n.depth = 1 /\ n.balance = m.balance
      /\ n.credit = m.credit /\ n.seeded = m.seeded /\ n.strong = m.strong
      /\ n.filled = m.filled /\ n.key = m.strong
    <2> HIDE DEF a, m
    <2>1. a.strong \in NoPool .. PollLength
        BY <1>3, Sizes DEF MemType, NoPool
    <2> QED BY <1>3, <2>1 DEF MemType
<1>5. ProcessInv(n)
    BY <1>4, ThreadAssumption DEF ProcessInv
<1>6. ~replaced => Strong(n) /\ n.key = PollLength
    BY <1>1, <1>4 DEF Strong
<1>7. /\ d \in CallType /\ DepthOf(d) = 1 /\ CalledFrom(d) /\ Covered(d, n)
      /\ d.pc # "write" /\ (~replaced => StrongKey(d, n))
    <2>1. d \in CallType /\ d.pc = "hand" /\ d.back = "idle" /\ d.rest = c.rest
          /\ d.level = c.level
        BY <1>1 DEF CallType, Pcs, CalledFrom
    <2>2. Covered(d, n)
        BY <1>1, <1>4, <2>1 DEF Covered, Where, InInitialize
    <2> HIDE DEF n, d
    <2> QED BY <1>6, <2>1, <2>2 DEF DepthOf, Where, InInitialize, CalledFrom, StrongKey
<1>8. Becomes(t, n, d)
    BY <1>1, <1>4, <1>7 DEF Becomes
<1> HIDE DEF n, d
<1> QED BY <1>1, <1>2, <1>4, <1>5, <1>6, <1>7, <1>8, OwningStep DEF Types


LEMMA SpentFacts ==
  ASSUME NEW m \in MemType, NEW level \in 0 .. 2, NEW n \in 0 .. PoolSize,
         m.balance <= m.credit, ~m.seeded => m.balance = 0,
         level = 2 => m.balance >= n
  PROVE  LET s == Spent(m, level, n) IN
         /\ s \in MemType /\ s.owner = m.owner /\ s.depth = m.depth
         /\ s.balance <= s.credit /\ (~s.seeded => s.balance = 0)
         /\ s.strong = m.strong /\ s.filled = m.filled /\ s.seeded = m.seeded
<1> DEFINE balance == IF level > 0 THEN Larger(0, m.balance - n) ELSE m.balance
           credit == IF level = 2 THEN m.credit - n ELSE m.credit
           key == IF level > 0 THEN 0 ELSE m.key
<1>1. m.balance \in 0 .. PoolSize /\ m.credit \in Int
    BY DEF MemType
<1>2. /\ balance \in 0 .. PoolSize /\ credit \in Int /\ balance <= credit
      /\ ~m.seeded => balance = 0
    BY <1>1, Sizes DEF Larger
<1>3. key \in NoPool .. PollLength
    BY Sizes DEF MemType, NoPool
<1>4. Spent(m, level, n) = [m EXCEPT !.balance = balance, !.credit = credit, !.key = key]
    BY DEF Spent, MemType
<1> HIDE DEF balance, credit, key
<1> QED BY <1>2, <1>3, <1>4 DEF MemType

LEMMA HandStep ==
  ASSUME IInv, NEW t \in Thread, Hand(t)
  PROVE  OwnStep(t)
<1> DEFINE m == Mem(t)
           c == call[t]
           taken == Length(t)
           s == Spent(m, c.level, taken)
           n == Given(s)
           d == IF c.rest = taken THEN NoCall
                ELSE [c EXCEPT !.pc = "begin", !.rest = @ - taken, !.got = "absent"]
<1> USE OwnFacts
<1>1. /\ c.pc = "hand" /\ c.pc \notin InInitialize /\ DepthOf(c) = 1
      /\ running' = running /\ starts' = starts /\ file' = file
      /\ writer' = writer /\ replaced' = replaced
      /\ mem' = [mem EXCEPT ![ProcOf[t]] = n] /\ call' = [call EXCEPT ![t] = d]
    BY DEF Hand, At, InInitialize, DepthOf, Where, Change
<1>2. m.owner = t /\ m.depth = 1
    BY <1>1, HeldFacts
<1>3. /\ c.level \in 0 .. 2 /\ c.rest \in Nat
      /\ taken \in 0 .. PoolSize /\ taken = Smaller(c.rest, PoolSize) /\ taken <= c.rest
    BY Sizes DEF CallType, Length, Smaller
<1>4. /\ s \in MemType /\ s.owner = t /\ s.depth = 1
      /\ s.balance <= s.credit /\ (~s.seeded => s.balance = 0)
      /\ s.strong = m.strong /\ s.filled = m.filled /\ s.seeded = m.seeded
    <2>1. /\ m \in MemType /\ m.balance <= m.credit /\ (~m.seeded => m.balance = 0)
          /\ c.level = 2 => m.balance >= taken
        <3>1. m \in MemType /\ m.balance <= m.credit /\ (~m.seeded => m.balance = 0)
            BY DEF ProcessInv
        <3>2. Where(c) = "hand"
            BY <1>1 DEF Where
        <3>3. c.level = 2 => m.balance >= Smaller(c.rest, PoolSize)
            BY <3>2 DEF Covered
        <3> HIDE DEF m, c, taken
        <3> QED BY <1>3, <3>1, <3>3
    <2> HIDE DEF m, c, taken
    <2>2. LET x == Spent(m, c.level, taken) IN
          /\ x \in MemType /\ x.owner = m.owner /\ x.depth = m.depth
          /\ x.balance <= x.credit /\ (~x.seeded => x.balance = 0)
          /\ x.strong = m.strong /\ x.filled = m.filled /\ x.seeded = m.seeded
        BY <1>3, <2>1, SpentFacts
    <2> QED BY <1>2, <2>2, Zenon
<1>5. n \in MemType /\ SameData(n, s) /\ n.owner = NoThread /\ n.depth = 0
    <2> HIDE DEF s
    <2> QED BY <1>4, GivenFacts
<1>6. ProcessInv(n) /\ (~replaced => Strong(n))
    <2> HIDE DEF n, s
    <2> QED BY <1>4, <1>5 DEF ProcessInv, SameData, Strong
<1>7. /\ d \in CallType /\ DepthOf(d) = 0 /\ CalledFrom(d) /\ Covered(d, n)
      /\ d.pc # "write" /\ StrongKey(d, n)
    <2>1. c.rest - taken \in Nat
        BY <1>3
    <2>2. d \in CallType /\ d.pc \in {"idle", "begin"} /\ d.back = "idle"
        <3> DEFINE e == [c EXCEPT !.pc = "begin", !.rest = @ - taken, !.got = "absent"]
        <3>1. e \in CallType /\ e.pc = "begin" /\ e.back = "idle"
            <4>1. c \in CallType /\ c.back = "idle"
                BY <1>1 DEF CalledFrom
            <4> HIDE DEF taken, c
            <4> QED BY <2>1, <4>1 DEF CallType, Pcs, Files
        <3>2. NoCall \in CallType /\ NoCall.pc = "idle" /\ NoCall.back = "idle"
            BY DEF CallType, NoCall, Pcs, Files
        <3> HIDE DEF e, taken
        <3> QED BY <3>1, <3>2 DEF e
    <2> HIDE DEF n, d
    <2> QED BY <2>2 DEF DepthOf, Where, InInitialize, CalledFrom, Covered,
                        StrongKey, InUse
<1>8. Becomes(t, n, d)
    BY <1>1, <1>5, <1>7 DEF Becomes
<1> HIDE DEF n, d
<1> QED BY <1>1, <1>2, <1>5, <1>6, <1>7, <1>8, OwningStep DEF Types

-----------------------------------------------------------------------------
LEMMA UpdateStep ==
  ASSUME IInv, NEW t \in Thread, Update(t)
  PROVE  OwnStep(t)
<1> DEFINE m == Mem(t)
           c == call[t]
<1> USE OwnFacts
<1>1. /\ c.pc = "idle" /\ c.pc \notin InInitialize /\ Free(t)
      /\ running' = running /\ starts' = starts
      /\ writer' = writer /\ replaced' = replaced
    BY DEF Update, At, InInitialize
<1>2. m.owner = NoThread /\ m.depth = 0 /\ DepthOf(c) = 0
    BY <1>1, FreeFacts
<1>3. CASE /\ Saves(m) /\ Change(t, [Taken(m, t) EXCEPT !.key = m.strong])
           /\ file' = IF file = "absent" THEN "empty" ELSE file
           /\ Goto(t, "lockfile")
    <2> DEFINE one == Taken(m, t)
               n == [one EXCEPT !.key = m.strong]
               d == [c EXCEPT !.pc = "lockfile"]
    <2>1. one \in MemType /\ SameData(one, m) /\ one.owner = t /\ one.depth = 1
        BY <1>2, TakenFacts
    <2>2. /\ n \in MemType /\ n.owner = t /\ n.depth = 1 /\ n.key = m.strong
          /\ n.strong = m.strong /\ n.filled = m.filled /\ n.seeded = m.seeded
          /\ n.balance = m.balance /\ n.credit = m.credit
        <3>1. m.strong \in NoPool .. PollLength
            <4>1. m \in MemType
                OBVIOUS
            <4>2. PollLength \in Nat /\ 0 .. PollLength \subseteq NoPool .. PollLength
                BY Sizes DEF NoPool
            <4> HIDE DEF m
            <4> QED BY <4>1, <4>2 DEF MemType
        <3> HIDE DEF one
        <3> QED BY <2>1, <3>1 DEF MemType, SameData
    <2>3. ProcessInv(n) /\ (~replaced => Strong(n) /\ n.key = PollLength)
        BY <1>3, <2>2, ThreadAssumption DEF ProcessInv, Strong, Saves
    <2>4. /\ d \in CallType /\ DepthOf(d) = 1 /\ CalledFrom(d) /\ Covered(d, n)
          /\ d.pc # "write" /\ (~replaced => StrongKey(d, n))
        <3>1. d \in CallType /\ d.pc = "lockfile" /\ d.back = "idle"
            BY <1>1 DEF CallType, Pcs, CalledFrom
        <3> HIDE DEF n, d
        <3> QED BY <2>3, <3>1 DEF DepthOf, Where, InInitialize, CalledFrom, Covered,
                                  StrongKey
    <2>5. Becomes(t, n, d)
        BY <1>3, <2>2, <2>4 DEF Becomes, Change, Goto
    <2>6. file' \in Files /\ (~replaced => file' # "poor")
        BY <1>3 DEF Files, Types
    <2> HIDE DEF n, d
    <2> QED BY <1>1, <1>2, <2>2, <2>3, <2>4, <2>5, <2>6, OwningStep DEF Types
<1>4. CASE mem' = mem /\ file' = file /\ Goto(t, "exit")
    <2> DEFINE d == [c EXCEPT !.pc = "exit"]
    <2>1. /\ d \in CallType /\ DepthOf(d) = 0 /\ CalledFrom(d) /\ Covered(d, m)
          /\ d.pc # "write" /\ StrongKey(d, m)
        BY <1>1 DEF CallType, Pcs, DepthOf, Where, InInitialize, CalledFrom, Covered,
                    StrongKey, InUse
    <2>2. Becomes(t, m, d)
        BY <1>4, <2>1 DEF Becomes, Goto
    <2> HIDE DEF d
    <2> QED BY <1>1, <1>2, <1>4, <2>1, <2>2, OwningStep DEF Types
<1> QED BY <1>3, <1>4 DEF Update

(* The three ways out of the update give the mutex back.                   *)
LEMMA SaveStep ==
  ASSUME IInv, NEW t \in Thread, GiveUp(t) \/ Truncate(t) \/ Write(t)
  PROVE  OwnStep(t)
<1> DEFINE m == Mem(t)
           c == call[t]
           n == Given(m)
           d == [c EXCEPT !.pc = "exit"]
<1> USE OwnFacts
<1>1. /\ c.pc \in {"lockfile", "write"} /\ c.pc \notin InInitialize /\ DepthOf(c) = 1
      /\ running' = running /\ starts' = starts /\ replaced' = replaced
    BY DEF GiveUp, Truncate, Write, At, InInitialize, DepthOf, Where
<1>2. m.owner = t /\ m.depth = 1
    BY <1>1, HeldFacts
<1>3. n \in MemType /\ SameData(n, m) /\ n.owner = NoThread /\ n.depth = 0
    BY <1>2, GivenFacts
<1>4. ProcessInv(n) /\ (Strong(m) => Strong(n))
    BY <1>3, SameDataFacts
<1>5. /\ d \in CallType /\ DepthOf(d) = 0 /\ CalledFrom(d) /\ Covered(d, n)
      /\ d.pc # "write" /\ StrongKey(d, n)
    BY <1>1 DEF CallType, Pcs, DepthOf, Where, InInitialize, CalledFrom, Covered,
                StrongKey, InUse
<1>6. CASE GiveUp(t)
    <2>1. Becomes(t, n, d) /\ file' = file /\ writer' = writer
        BY <1>3, <1>5, <1>6 DEF Becomes, GiveUp, Change, Goto
    <2> HIDE DEF n, d
    <2> QED BY <1>1, <1>2, <1>3, <1>4, <1>5, <2>1, OwningStep DEF Types
<1>7. CASE Write(t)
    <2>1. Becomes(t, n, d) /\ writer' = NoProc /\ c.pc = "write"
        BY <1>3, <1>5, <1>7 DEF Becomes, Write, Change, Goto, At
    \* What is written is worth a poll.
    <2>2. file' \in Files /\ (~replaced => file' # "poor")
        <3>1. ~replaced => m.key = PollLength
            BY <2>1 DEF StrongKey, InUse
        <3> QED BY <1>7, <3>1, Sizes DEF Write, Files, Types
    <2> HIDE DEF n, d
    <2> QED BY <1>1, <1>2, <1>3, <1>4, <1>5, <2>1, <2>2, OwningStep DEF Types
<1>8. CASE Truncate(t)
    <2> DEFINE w == [c EXCEPT !.pc = "write"]
    <2>1. /\ c.pc = "lockfile" /\ writer = NoProc /\ writer' = ProcOf[t]
          /\ file' = "empty" /\ mem' = mem /\ call' = [call EXCEPT ![t] = w]
        BY <1>8 DEF Truncate, At, Goto
    <2>2. /\ w \in CallType /\ DepthOf(w) = 1 /\ CalledFrom(w) /\ Covered(w, m)
          /\ StrongKey(c, m) => StrongKey(w, m)
        BY <2>1 DEF CallType, Pcs, DepthOf, Where, InInitialize, CalledFrom, Covered,
                    StrongKey, InUse
    <2>3. Becomes(t, m, w) /\ file' \in Files /\ file' # "poor"
        BY <2>1, <2>2 DEF Becomes, Files
    <2> HIDE DEF w
    <2> QED BY <1>1, <1>2, <2>1, <2>2, <2>3, OwningStep DEF Types
<1> QED BY <1>6, <1>7, <1>8


-----------------------------------------------------------------------------
(* What ends a process, and the whole.                                     *)
LEMMA NewFacts ==
  /\ NewProcess \in MemType /\ ProcessInv(NewProcess) /\ Strong(NewProcess)
  /\ NoCall \in CallType /\ CalledFrom(NoCall) /\ DepthOf(NoCall) = 0
  /\ \A m : Covered(NoCall, m) /\ StrongKey(NoCall, m)
  /\ \A t \in Thread : Locks(t, NoCall, NewProcess)
<1>1. 0 \in 0 .. PollLength /\ 0 \in 0 .. PoolSize - 1 /\ 0 \in 0 .. PoolSize
      /\ NoPool \in NoPool .. PollLength
    BY Sizes DEF NoPool
<1>2. NewProcess \in MemType /\ ProcessInv(NewProcess) /\ Strong(NewProcess)
    BY <1>1 DEF NewProcess, MemType, ProcessInv, Strong
<1>3. NoCall \in CallType /\ CalledFrom(NoCall) /\ DepthOf(NoCall) = 0
    BY DEF NoCall, CallType, Pcs, Files, CalledFrom, DepthOf, Where, InInitialize
<1>4. \A m : Covered(NoCall, m) /\ StrongKey(NoCall, m)
    BY DEF NoCall, Covered, StrongKey, Where, InInitialize, InUse
<1>5. \A t \in Thread : Locks(t, NoCall, NewProcess)
    BY <1>3, ThreadAssumption DEF Locks, NewProcess
<1> QED BY <1>2, <1>3, <1>4, <1>5

LEMMA EndInv ==
  ASSUME IInv, NEW p \in Proc, End(p), file' = file
  PROVE  IInv'
<1>1. Types
    BY TypeParts DEF IInv
<1>2. /\ mem' \in [Proc -> MemType] /\ mem'[p] = NewProcess
      /\ \A q \in Proc : q # p => mem'[q] = mem[q]
    BY <1>1, NewFacts DEF End, Types
<1>3. /\ call' \in [Thread -> CallType]
      /\ \A u \in Thread : call'[u] = IF ProcOf[u] = p THEN NoCall ELSE call[u]
    BY <1>1, NewFacts DEF End, Types
<1>4. Types' /\ TypeOK'
    BY <1>1, <1>2, <1>3 DEF End, Types, TypeOK, MemType, CallType
<1>5. \A q \in Proc : ProcessInv(mem'[q])
    BY <1>2, NewFacts DEF IInv
<1>6. ASSUME NEW u \in Thread
      PROVE  /\ ThreadInv(u, call'[u], mem'[ProcOf[u]])
             /\ call'[u].pc = "write" => writer' = ProcOf[u]
             /\ ~replaced => StrongKey(call'[u], mem'[ProcOf[u]])
    <2>1. ProcOf[u] \in Proc
        BY <1>1, OwnRecords
    <2>2. CASE ProcOf[u] = p
        <3>1. NoCall.pc # "write"
            BY DEF NoCall
        <3> QED BY <1>2, <1>3, <2>2, <3>1, NewFacts DEF ThreadInv
    <2>3. CASE ProcOf[u] # p
        <3>1. call'[u] = call[u] /\ mem'[ProcOf[u]] = mem[ProcOf[u]]
            BY <1>2, <1>3, <2>1, <2>3
        <3>2. writer = ProcOf[u] => writer' = writer
            BY <2>3 DEF End
        <3> QED BY <3>1, <3>2 DEF IInv, WriterHasLock, Sound, Mem
    <2> QED BY <2>2, <2>3
<1>7. ~replaced => \A q \in Proc : Strong(mem'[q])
    BY <1>2, NewFacts DEF IInv, Sound
<1>8. replaced' = replaced /\ (~replaced => file' # "poor")
    BY DEF End, IInv, Sound
<1>9. ~replaced' => Sound'
    BY <1>6, <1>7, <1>8 DEF Sound, Mem
<1> QED BY <1>4, <1>5, <1>6, <1>9 DEF IInv, WriterHasLock, Mem

LEMMA InitInv == Init => IInv
<1> SUFFICES ASSUME Init PROVE IInv
    OBVIOUS
<1>1. /\ \A p \in Proc : mem[p] = NewProcess
      /\ \A t \in Thread : call[t] = NoCall /\ Mem(t) = NewProcess
    BY ThreadAssumption DEF Init, Mem
<1>2. Types
    <2>1. mem \in [Proc -> MemType] /\ call \in [Thread -> CallType]
        BY NewFacts DEF Init
    <2>2. starts \in 0 .. MaxStarts /\ file \in Files /\ running \subseteq Proc
        BY BoundAssumption DEF Init, Files
    <2> QED BY <2>1, <2>2 DEF Init, Types
<1>3. ASSUME NEW t \in Thread
      PROVE  ThreadInv(t, call[t], Mem(t)) /\ call[t].pc # "write"
    <2>1. call[t] = NoCall /\ Mem(t) = NewProcess /\ NoCall.pc # "write"
        BY <1>1 DEF NoCall
    <2> QED BY <2>1, NewFacts DEF ThreadInv
<1>4. Sound
    BY <1>1, NewFacts DEF Sound, Init
<1> QED BY <1>1, <1>2, <1>3, <1>4, NewFacts, TypeParts DEF IInv, WriterHasLock

LEMMA IInvStep == IInv /\ [Next]_vars => IInv'
<1> SUFFICES ASSUME IInv, [Next]_vars PROVE IInv'
    OBVIOUS
<1>1. ASSUME NEW t \in Thread, Ask(t) \/ Open(t) \/ IsFaked(t) \/ Update(t)
      PROVE IInv'
    BY <1>1, CallSteps, UpdateStep, StepInv
<1>2. ASSUME NEW t \in Thread,
             Initialize(t) \/ NewPool(t) \/ NewKey(t) \/ SetInit(t) \/ FastPoll(t)
      PROVE IInv'
    BY <1>2, InitializeSteps, FastPollStep, StepInv
<1>3. ASSUME NEW t \in Thread, Begin(t) \/ ReadSeed(t) \/ Absorb(t) PROVE IInv'
    BY <1>3, BeginStep, ReadSeedStep, AbsorbStep, StepInv
<1>4. ASSUME NEW t \in Thread, Reseed(t) \/ FillPool(t) \/ Copy(t) \/ Hand(t)
      PROVE IInv'
    BY <1>4, ReseedStep, FillPoolStep, CopyStep, HandStep, StepInv
<1>5. ASSUME NEW t \in Thread, GiveUp(t) \/ Truncate(t) \/ Write(t) PROVE IInv'
    BY <1>5, SaveStep, StepInv
<1>6. ASSUME NEW t \in Thread, Crash(t) \/ Exit(t) PROVE IInv'
    BY <1>6, EndInv, OwnFacts DEF Crash, Exit
<1>7. ASSUME NEW p \in Proc, Die(p) PROVE IInv'
    BY <1>7, EndInv DEF Die
<1>8. ASSUME NEW p \in Proc, Start(p) PROVE IInv'
    <2>1. TypeOK'
        BY <1>8, BoundAssumption DEF Start, IInv, TypeOK
    <2> QED BY <1>8, <2>1 DEF Start, IInv, WriterHasLock, Sound, Mem
<1>9. CASE UNCHANGED vars
    BY <1>9 DEF vars, IInv, TypeOK, WriterHasLock, Sound, Mem
<1> QED BY <1>1, <1>2, <1>3, <1>4, <1>5, <1>6, <1>7, <1>8, <1>9 DEF Next, Work, Over

LEMMA Invariant == Spec => []IInv
BY InitInv, IInvStep, PTL DEF Spec

(* The records of every process and thread keep their types: the mutex is   *)
(* never taken more than twice, the balance never goes beyond the pool.     *)
THEOREM RandomTypes == Spec => []TypeOK
<1>1. IInv => TypeOK
    BY DEF IInv
<1> QED BY <1>1, Invariant, PTL

(* Whatever is asked for at whatever level, and however many threads ask,  *)
(* the balance promises no byte that was not gathered or is handed out.    *)
THEOREM BalanceBacked == Spec => []Backed
<1>1. IInv => Backed
    BY DEF IInv, ProcessInv, Backed
<1> QED BY <1>1, Invariant, PTL

(* Unless initialize replaces a pool in use, what is handed out comes from *)
(* a pool that has had a poll, here or before the seed file was written.   *)
THEOREM Seeding == Spec => []SeededUnlessReplaced
<1>1. IInv => SeededUnlessReplaced
    BY DEF IInv, Sound, StrongKey, InUse, SeededUnlessReplaced, At
<1> QED BY <1>1, Invariant, PTL

(* No process reads the seed file while another one has truncated it and   *)
(* not written it.                                                         *)
THEOREM SeedFileLocked == Spec => SeedNotMissed
<1>1. ASSUME IInv, NEW t \in Thread, ReadSeed(t), NEW u \in Thread, At(u, "write")
      PROVE FALSE
    <2>1. ProcOf[u] \in Proc /\ writer = ProcOf[u] /\ writer # NoProc
        BY <1>1, OwnFacts, ThreadAssumption DEF At
    <2>2. ProcOf[t] = ProcOf[u]
        BY <1>1, <2>1 DEF ReadSeed, CanRead
    <2>3. DepthOf(call[t]) > 0 /\ DepthOf(call[u]) > 0
        BY <1>1 DEF ReadSeed, At, DepthOf, Where, InInitialize
    <2>4. t = u
        BY <1>1, <2>2, <2>3, OneHolder
    <2> QED BY <1>1, <2>4 DEF ReadSeed, At
<1>2. IInv => [\A t \in Thread : ReadSeed(t) /\ file = "empty" =>
                  \A u \in Thread : ~At(u, "write")]_vars
    BY <1>1
<1> QED BY <1>2, Invariant, PTL DEF SeedNotMissed

===============================================================================
