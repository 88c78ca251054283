-------------------------------- MODULE Secmem --------------------------------
(***************************************************************************)
(* The pool of secure memory (util/secmem.c) with the wrappers of          *)
(* util/memory.c that decide what is secure, as the threads of one process *)
(* share it, and the two ways the pool ends: g10_exit and the handler of a *)
(* fatal signal.                                                           *)
(*                                                                         *)
(* The pool is cut from the front into blocks of whole granules of 32      *)
(* bytes; a freed block goes to the head of a list and is never split nor  *)
(* joined.  Requests are counted in words of 8 bytes, addresses and blocks *)
(* in granules.  The recursive mutex _rc_lock_sm guards the list and the   *)
(* length; pool_okay and the bounds of the pool are also read without it.  *)
(* The pool is mapped memory (HAVE_MMAP): after secmem_term an access to a *)
(* block kills the process.  Statistics, warnings and mlock are left out.  *)
(***************************************************************************)
EXTENDS Integers, Sequences, SequencesExt

CONSTANTS Thread, NoThread,
          PoolSize,     \* the granules of the pool
          Request,      \* the sizes that are asked for, in words
          Null,         \* no pointer
          Clean         \* the content of a granule that holds no secret

ASSUME PoolAssumption == PoolSize \in Nat
ASSUME RequestAssumption == Request \subseteq Nat
ASSUME NoneAssumption == NoThread \notin Thread /\ Clean \notin Thread
ASSUME NullAssumption == Null \notin Nat

VARIABLES okay,         \* pool_okay, and that the pool is mapped
          len,          \* poollen
          unused,       \* the list unused_blocks
          size,         \* the header mb->size of the block at an address
          data,         \* the thread whose secret a granule holds, or Clean
          owner, depth, \* of the recursive mutex
          held,         \* the blocks each thread has a pointer to
          pc,           \* where each thread is
          ptr, want,    \* the block it frees or resizes; the words it asks for
          found, fresh, \* mb in the list; the block it was given
          sig, catcher, \* the progress of the signal handler, its thread
          ended         \* the process is gone

pool == <<len, unused, size, data>>
lock == <<owner, depth>>
args == <<ptr, want, found, fresh>>
signal == <<sig, catcher>>
vars == <<okay, pool, lock, held, pc, args, signal, ended>>

Address == 0 .. PoolSize - 1
Pcs == {"idle", "malloc", "lock", "search", "take", "fill", "relock", "grow",
        "move", "free", "term", "exit"}

\* secmem_malloc: the request with a whole MEMBLOCK of two words, rounded up.
\* Only the word before u.aligned is kept from the user of a block.
Granules(n) == (n + 2 + 3) \div 4
Capacity(a) == 4 * size[a] - 1
Extent(a) == a .. a + size[a] - 1
\* poolsize, 0 after secmem_term
Room == IF okay THEN PoolSize ELSE 0
Blocks == Range(unused) \cup UNION {held[t] : t \in Thread}

TypeOK ==
  /\ okay \in BOOLEAN /\ ended \in BOOLEAN
  /\ len \in 0 .. PoolSize
  /\ unused \in Seq(Address)
  /\ size \in [Address -> Nat]
  /\ data \in [Address -> Thread \cup {Clean}]
  /\ owner \in Thread \cup {NoThread}
  /\ depth \in 0 .. 2
  /\ held \in [Thread -> SUBSET Address]
  /\ pc \in [Thread -> Pcs]
  /\ ptr \in [Thread -> Address \cup {Null}]
  /\ fresh \in [Thread -> Address \cup {Null}]
  /\ want \in [Thread -> Nat]
  /\ found \in [Thread -> Nat]
  /\ sig \in {"none", "check", "lock", "raise"}
  /\ catcher \in Thread \cup {NoThread}

NoMemory == [a \in Address |-> 0]
AllClean == [a \in Address |-> Clean]
All(x) == [t \in Thread |-> x]

Init ==   \* after secmem_init
  /\ okay = TRUE /\ ended = FALSE
  /\ len = 0 /\ unused = <<>> /\ size = NoMemory /\ data = AllClean
  /\ owner = NoThread /\ depth = 0
  /\ held = All({}) /\ pc = All("idle")
  /\ ptr = All(Null) /\ fresh = All(Null) /\ want = All(0) /\ found = All(0)
  /\ sig = "none" /\ catcher = NoThread

-----------------------------------------------------------------------------
(* The recursive mutex.                                                    *)
CanLock(t) == owner \in {NoThread, t}
Locked(t) == CanLock(t) /\ owner' = t /\ depth' = depth + 1
\* n times _unlock
Unlocked(n) == /\ depth' = depth - n
               /\ owner' = IF depth = n THEN NoThread ELSE owner

\* A thread that runs its signal handler never returns from it.
At(t, label) == ~ended /\ catcher # t /\ pc[t] = label
Goto(t, label) == pc' = [pc EXCEPT ![t] = label]
\* The call is over, and its locals with it.
Return(t) ==
  /\ Goto(t, "idle")
  /\ ptr' = [ptr EXCEPT ![t] = Null] /\ fresh' = [fresh EXCEPT ![t] = Null]
  /\ want' = [want EXCEPT ![t] = 0] /\ found' = [found EXCEPT ![t] = 0]
\* The process ends and its memory goes with it: by exit(3), by the signal, or by
\* an access to memory that is not mapped or a block of the pool given to libc.
End ==
  /\ okay' = FALSE /\ ended' = TRUE
  /\ len' = 0 /\ unused' = <<>> /\ size' = NoMemory /\ data' = AllClean
  /\ owner' = NoThread /\ depth' = 0
  /\ held' = All({}) /\ pc' = All("idle")
  /\ ptr' = All(Null) /\ fresh' = All(Null) /\ want' = All(0) /\ found' = All(0)
  /\ sig' = "none" /\ catcher' = NoThread

-----------------------------------------------------------------------------
(* xmalloc_secure and secmem_malloc.                                       *)
Malloc(t, n) ==
  /\ At(t, "idle")
  /\ Goto(t, "malloc")
  /\ want' = [want EXCEPT ![t] = n]
  /\ UNCHANGED <<okay, pool, lock, held, ptr, found, fresh, signal, ended>>

\* pool_okay is read before the lock is taken; without a pool exit(2).
CheckOkay(t) ==
  /\ At(t, "malloc")
  /\ \/ okay /\ Goto(t, "lock")
     \/ ~okay /\ Goto(t, "exit")
  /\ UNCHANGED <<okay, pool, lock, held, args, signal, ended>>

Lock(t) ==
  /\ At(t, "lock")
  /\ Locked(t)
  /\ Goto(t, "search")
  /\ UNCHANGED <<okay, pool, held, args, signal, ended>>

\* The first block of the list that is large enough, if any.
Fits(n) == {i \in DOMAIN unused : size[unused[i]] >= Granules(n)}
FirstFit(i, n) == \/ Fits(n) = {} /\ i = 0
                  \/ i \in Fits(n) /\ \A j \in Fits(n) : i <= j

Search(t) ==
  /\ At(t, "search")
  /\ \E i \in 0 .. Len(unused) :
        FirstFit(i, want[t]) /\ found' = [found EXCEPT ![t] = i]
  /\ Goto(t, "take")
  /\ UNCHANGED <<okay, pool, lock, held, ptr, want, fresh, signal, ended>>

Given(t, a) ==
  /\ fresh' = [fresh EXCEPT ![t] = a]
  /\ held' = [held EXCEPT ![t] = @ \cup {a}]
  /\ Goto(t, IF ptr[t] = Null THEN "fill" ELSE "move")
  /\ Unlocked(1)

\* mutant: the head of the list is not unlinked
Reuse_KeepsHead(t) ==
  /\ At(t, "take") /\ found[t] # 0
  /\ Given(t, unused[found[t]])
  /\ unused' = IF found[t] = 1 THEN unused ELSE RemoveAt(unused, found[t])
  /\ UNCHANGED <<okay, len, size, data, ptr, want, found, signal, ended>>

Reuse(t) ==
  /\ At(t, "take") /\ found[t] # 0
  /\ Given(t, unused[found[t]])
  /\ unused' = RemoveAt(unused, found[t])
  /\ UNCHANGED <<okay, len, size, data, ptr, want, found, signal, ended>>

Extend(t) ==
  /\ At(t, "take") /\ found[t] = 0
  /\ len + Granules(want[t]) <= Room
  /\ Given(t, len)
  /\ size' = [size EXCEPT ![len] = Granules(want[t])]
  /\ len' = len + Granules(want[t])
  /\ UNCHANGED <<okay, unused, data, ptr, want, found, signal, ended>>

\* mutant: the NULL return of a nested secmem_malloc keeps the lock
Exhausted_KeepsLock(t) ==
  /\ At(t, "take") /\ found[t] = 0
  /\ len + Granules(want[t]) > Room
  /\ Unlocked(1)
  /\ Goto(t, "exit")
  /\ UNCHANGED <<okay, pool, held, args, signal, ended>>

\* compress_pool does nothing, so the second try fails as well: NULL, also for
\* secmexrealloc, and out_of_core.
Exhausted(t) ==
  /\ At(t, "take") /\ found[t] = 0
  /\ len + Granules(want[t]) > Room
  /\ Unlocked(IF ptr[t] = Null THEN 1 ELSE 2)
  /\ Goto(t, "exit")
  /\ UNCHANGED <<okay, pool, held, args, signal, ended>>

\* The caller writes its secret into the block.
Fill(t) ==
  /\ At(t, "fill") /\ okay
  /\ data' = [g \in Address |-> IF g \in Extent(fresh[t]) THEN t ELSE data[g]]
  /\ Return(t)
  /\ UNCHANGED <<okay, len, unused, size, lock, held, signal, ended>>

-----------------------------------------------------------------------------
(* xfree and secmem_free, once m_is_secure has seen, without the lock, that *)
(* there is a pool.                                                        *)
Free(t, a) ==
  /\ At(t, "idle") /\ a \in held[t] /\ okay
  /\ Goto(t, "free")
  /\ ptr' = [ptr EXCEPT ![t] = a]
  /\ UNCHANGED <<okay, pool, lock, held, want, found, fresh, signal, ended>>

Wiped_Not(f, a) == f   \* mutant: the block is not wiped
Wiped(f, a) == [g \in Address |-> IF g \in Extent(a) THEN Clean ELSE f[g]]
Pushed(a) == unused' = <<a>> \o unused
Dropped(t, a) == held' = [held EXCEPT ![t] = @ \ {a}]

FreeBlock(t) ==
  /\ At(t, "free") /\ CanLock(t) /\ okay
  /\ data' = Wiped(data, ptr[t])
  /\ Pushed(ptr[t])
  /\ Dropped(t, ptr[t])
  /\ Return(t)
  /\ UNCHANGED <<okay, len, size, lock, signal, ended>>

-----------------------------------------------------------------------------
(* xrealloc and secmexrealloc, which lets the lock go between the read of  *)
(* the size and the allocation.                                            *)
Realloc(t, a, n) ==
  /\ At(t, "idle") /\ a \in held[t] /\ okay
  /\ Goto(t, "relock")
  /\ ptr' = [ptr EXCEPT ![t] = a]
  /\ want' = [want EXCEPT ![t] = n]
  /\ UNCHANGED <<okay, pool, lock, held, found, fresh, signal, ended>>

ReadSize(t) ==
  /\ At(t, "relock") /\ CanLock(t) /\ okay
  /\ \/ want[t] <= Capacity(ptr[t]) /\ Return(t)
     \/ want[t] > Capacity(ptr[t]) /\ Goto(t, "grow") /\ UNCHANGED args
  /\ UNCHANGED <<okay, pool, lock, held, signal, ended>>

Grow(t) ==
  /\ At(t, "grow")
  /\ Locked(t)
  /\ Goto(t, "malloc")
  /\ UNCHANGED <<okay, pool, held, args, signal, ended>>

\* mutant: the old block is wiped before it is copied
Copied_AfterFree(from, to) ==
  [g \in Address |-> IF g \in Extent(to) THEN Clean ELSE data[g]]

\* memcpy and memset
Copied(from, to) ==
  [g \in Address |->
     IF g \in Extent(to)
     THEN IF g - to < size[from] THEN data[from + (g - to)] ELSE Clean
     ELSE data[g]]

\* mutant: the old block is not freed
Move_Leaks(t) ==
  /\ At(t, "move")
  /\ data' = Wiped(Copied(ptr[t], fresh[t]), ptr[t])
  /\ Dropped(t, ptr[t])
  /\ Unlocked(1)
  /\ Goto(t, "fill")
  /\ UNCHANGED <<okay, len, unused, size, args, signal, ended>>

\* mutant: the outer lock is not given back
Move_KeepsLock(t) ==
  /\ At(t, "move")
  /\ data' = Wiped(Copied(ptr[t], fresh[t]), ptr[t])
  /\ Pushed(ptr[t])
  /\ Dropped(t, ptr[t])
  /\ Goto(t, "fill")
  /\ UNCHANGED <<okay, len, size, lock, args, signal, ended>>

Move(t) ==
  /\ At(t, "move")
  /\ data' = Wiped(Copied(ptr[t], fresh[t]), ptr[t])
  /\ Pushed(ptr[t])
  /\ Dropped(t, ptr[t])
  /\ Unlocked(1)
  /\ Goto(t, "fill")
  /\ UNCHANGED <<okay, len, size, args, signal, ended>>

-----------------------------------------------------------------------------
(* secmem_term, called by g10_exit and by got_fatal_signal.                *)
Terminated ==
  /\ okay' = FALSE
  /\ len' = 0
  /\ unused' = <<>>
  /\ data' = AllClean
  /\ UNCHANGED <<size, lock>>

Quit(t) ==
  /\ At(t, "idle")
  /\ Goto(t, IF okay THEN "term" ELSE "exit")
  /\ UNCHANGED <<okay, pool, lock, held, args, signal, ended>>

Term(t) ==
  /\ At(t, "term") /\ CanLock(t)
  /\ Terminated
  /\ Goto(t, "exit")
  /\ UNCHANGED <<held, args, signal, ended>>

\* Without a pool, the block of a call goes to free(3) or realloc(3), which
\* abort; whoever is already in a call reads or writes memory that is gone.
Fault(t) ==
  /\ ~okay
  /\ \/ At(t, "idle") /\ held[t] # {}
     \/ At(t, "fill")
     \/ (At(t, "free") \/ At(t, "relock")) /\ CanLock(t)
  /\ End

Exit(t) ==
  /\ At(t, "exit")
  /\ End

\* One fatal signal, in any thread and at any step of it.
Signal(t) ==
  /\ ~ended /\ sig = "none"
  /\ sig' = "check" /\ catcher' = t
  /\ UNCHANGED <<okay, pool, lock, held, pc, args, ended>>

HandlerCheck ==
  /\ ~ended /\ sig = "check"
  /\ sig' = IF okay THEN "lock" ELSE "raise"
  /\ UNCHANGED <<okay, pool, lock, held, pc, args, catcher, ended>>

HandlerTerm ==
  /\ ~ended /\ sig = "lock" /\ CanLock(catcher)
  /\ Terminated
  /\ sig' = "raise"
  /\ UNCHANGED <<held, pc, args, catcher, ended>>

Raise ==
  /\ ~ended /\ sig = "raise"
  /\ End

Over == ended /\ UNCHANGED vars

Call(t) ==
  \/ \E n \in Request : Malloc(t, n)
  \/ \E a \in Address : Free(t, a)
  \/ \E a \in Address, n \in Request : Realloc(t, a, n)
  \/ Quit(t)

Continue(t) ==
  \/ CheckOkay(t) \/ Lock(t) \/ Search(t) \/ Reuse(t) \/ Extend(t)
  \/ Exhausted(t) \/ Fill(t) \/ FreeBlock(t) \/ ReadSize(t) \/ Grow(t)
  \/ Move(t) \/ Term(t)

Stop(t) == Exit(t) \/ Fault(t)

Handler == HandlerCheck \/ HandlerTerm \/ Raise

Next == \/ \E t \in Thread : Call(t) \/ Continue(t) \/ Stop(t) \/ Signal(t)
        \/ Handler
        \/ Over

Spec == Init /\ [][Next]_vars

\* A thread in a call goes on, calls or not; a thread that waits for the mutex
\* gets it some day although others keep asking for it (pthread mutexes of the
\* platform are fair by default).
Fairness == /\ \A t \in Thread : WF_vars(Continue(t) \/ Stop(t))
            /\ SF_vars(Handler)
FairSpec == Spec /\ Fairness

-----------------------------------------------------------------------------
(* Properties.                                                             *)

Apart(a, b) == a + size[a] <= b \/ b + size[b] <= a

Separate ==
  /\ \A i, j \in DOMAIN unused : unused[i] = unused[j] => i = j
  /\ \A t \in Thread : held[t] \cap Range(unused) = {}
  /\ \A t, u \in Thread : t # u => held[t] \cap held[u] = {}
  /\ \A a, b \in Blocks : a # b => Apart(a, b)
  /\ \A a \in Blocks : size[a] > 0 /\ a + size[a] <= len

\* While there is a pool no granule is given away twice: a block is in the
\* list once or with one thread, two blocks never overlap, and all of them lie
\* in the used part of the pool (secmem_malloc, secmem_free, secmexrealloc).
Disjoint == okay => Separate

\* No part of the pool is lost: every used granule belongs to a block that is
\* in the list or with a thread, through every realloc and every free.
NothingLost == okay => \A g \in 0 .. len - 1 : \E a \in Blocks : g \in Extent(a)

\* A thread finds in its blocks what it has put there, whatever the others do;
\* a block that was resized still holds what fitted into the old one
\* (secmexrealloc copies before it frees).
Intact ==
  okay =>
    \A t \in Thread : \A a \in held[t] : \A g \in Extent(a) :
      \/ data[g] = t
      \/ a = fresh[t] /\ pc[t] = "move"
      \/ /\ a = fresh[t] /\ pc[t] = "fill"
         /\ ptr[t] # Null => g >= a + size[ptr[t]]

\* A secret is nowhere but in a block of the thread that has put it there: not in
\* a block that was given back, not behind the used part, and nowhere once the
\* pool was terminated, by an exit or a signal in the middle of any call.
NoTrace ==
  \A g \in Address :
    data[g] # Clean => okay /\ \E a \in held[data[g]] : g \in Extent(a)

\* The mutex is with the thread that is between _lock and _unlock and with nobody
\* else, as deep as its calls are nested: no return path keeps it.  Only the exit
\* of an allocation nested in secmexrealloc, once the pool is gone, goes with it.
Nesting(t) ==
  CASE pc[t] \in {"search", "take"} -> IF ptr[t] = Null THEN 1 ELSE 2
    [] pc[t] \in {"malloc", "lock"} -> IF ptr[t] = Null THEN 0 ELSE 1
    [] pc[t] = "move" -> 1
    [] OTHER -> 0

Kept(t) == IF Nesting(t) > 0 THEN owner = t /\ depth = Nesting(t)
           ELSE owner = t => pc[t] = "exit" /\ ~okay
LockKept == \A t \in Thread : Kept(t)

\* A fatal signal ends the process, also when it interrupts a thread that has the
\* mutex or finds it with a thread in a nested allocation: nobody waits for a
\* mutex that is never given back (got_fatal_signal calls secmem_term).
SignalEnds == (sig # "none") ~> ended
===============================================================================
