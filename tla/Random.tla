-------------------------------- MODULE Random --------------------------------
(***************************************************************************)
(* The pool of random numbers (cipher/random.c): how it is set up, seeded  *)
(* from the seed file and from the random device, read, and saved at the   *)
(* exit, by the threads of several processes that share the seed file.     *)
(*                                                                         *)
(* Bytes are counted, not kept: of the pool there is left how much of it   *)
(* came from the random device, up to one poll; of the key pool what the   *)
(* pool was worth when it was copied.  A step is what happens between two  *)
(* points at which others interfere: threads of the process only by what   *)
(* they do without the mutex, other processes only by the seed file.       *)
(* Requests, pool and polls are counted in tenths of the pool.             *)
(***************************************************************************)
EXTENDS Integers

CONSTANTS Thread, NoThread, Proc, NoProc,
          ProcOf,      \* the process of each thread
          PoolSize,    \* POOLSIZE
          FastLength,  \* what fast_random_poll adds
          Request,     \* pairs of a level and a length
          MaxCalls,    \* bound: the calls of each process before its exit
          MaxStarts    \* bound: starts of processes

ASSUME ThreadAssumption == ProcOf \in [Thread -> Proc] /\ NoThread \notin Thread
                           /\ NoProc \notin Proc
ASSUME SizeAssumption == PoolSize \in Nat /\ PoolSize >= 10 /\ FastLength \in 0 .. PoolSize
ASSUME BoundAssumption == MaxCalls \in [Proc -> Nat] /\ MaxStarts \in Nat
ASSUME RequestAssumption == Request \subseteq (0 .. 2) \X (Nat \ {0})

VARIABLES mem,       \* the static variables of random.c, in each process
          running,   \* the processes that run
          call,      \* where each thread is, and its locals
          file,      \* the seed file
          writer,    \* the process with the write lock on it
          replaced,  \* history: a pool or key pool in use was replaced
          starts     \* the starts so far

vars == <<mem, running, call, file, writer, replaced, starts>>

\* random_poll asks for a fifth of the pool; the first reading for keys for a half.
PollLength == PoolSize \div 5
HalfPool == PoolSize \div 2
NoPool == -1

\* Whole size or not, and whether it was written from a pool that had been filled.
Files == {"absent", "empty", "short", "poor", "whole"}
Pcs == {"idle", "begin", "read", "absorb", "reseed", "fill", "hand",
        "poll", "newpool", "newkey", "setinit", "latekey",
        "lockfile", "write", "exit"}

TypeOK ==
  /\ mem \in [Proc ->
       [inited : BOOLEAN,            \* is_initialized
        strong : 0 .. PollLength,    \* device bytes in rndpool
        key : NoPool .. PollLength,  \* what keypool holds
        pos : 0 .. PoolSize - 1,     \* pool_writepos
        filled : BOOLEAN,            \* pool_filled
        seeded : BOOLEAN,            \* did_initial_extra_seeding
        balance : 0 .. PoolSize,     \* pool_balance
        allow : BOOLEAN,             \* allow_seed_file_update
        owner : Thread \cup {NoThread}, depth : 0 .. 2,   \* of _rc_lock_rnd
        credit : Int,    \* history: level 2 bytes gathered and not handed out
        calls : Nat]]
  /\ running \subseteq Proc
  /\ call \in [Thread ->
       [pc : Pcs, back : Pcs, level : 0 .. 2, rest : Nat, got : Files]]
  /\ file \in Files /\ writer \in Proc \cup {NoProc}
  /\ replaced \in BOOLEAN /\ starts \in 0 .. MaxStarts

NewProcess == [inited |-> FALSE, strong |-> 0, key |-> NoPool, pos |-> 0,
               filled |-> FALSE, seeded |-> FALSE, balance |-> 0, allow |-> FALSE,
               owner |-> NoThread, depth |-> 0, credit |-> 0, calls |-> 0]
NoCall == [pc |-> "idle", back |-> "idle", level |-> 0, rest |-> 0, got |-> "absent"]

Init ==
  /\ mem = [p \in Proc |-> NewProcess]
  /\ running = {} /\ starts = 0
  /\ call = [t \in Thread |-> NoCall]
  /\ file = "absent" /\ writer = NoProc
  /\ replaced = FALSE

-----------------------------------------------------------------------------
Smaller(x, y) == IF x < y THEN x ELSE y
Larger(x, y) == IF x < y THEN y ELSE x

Mem(t) == mem[ProcOf[t]]
At(t, label) == ProcOf[t] \in running /\ call[t].pc = label
\* Back to where initialize was called from
Back(t) == call' = [call EXCEPT ![t].pc = call[t].back, ![t].back = "idle"]
Goto(t, label) == call' = [call EXCEPT ![t].pc = label]
Change(t, m) == mem' = [mem EXCEPT ![ProcOf[t]] = m]

Free_Always(t) == TRUE   \* mutant: nobody waits for the mutex
Free(t) == Mem(t).owner = NoThread
Taken(m, t) == [m EXCEPT !.owner = t, !.depth = @ + 1]
Given(m) == [m EXCEPT !.depth = @ - 1, !.owner = IF m.depth = 1 THEN NoThread ELSE @]

\* The process is gone, and its file locks with it.
End(p) ==
  /\ running' = running \ {p}
  /\ mem' = [mem EXCEPT ![p] = NewProcess]
  /\ call' = [t \in Thread |-> IF ProcOf[t] = p THEN NoCall ELSE call[t]]
  /\ writer' = IF writer = p THEN NoProc ELSE writer
  /\ UNCHANGED <<replaced, starts>>

\* add_randomness.  Once the pool is filled, where it is written does not matter.
Add(m, n, source) ==
  LET full == m.filled \/ (source > 1 /\ m.pos + n >= PoolSize) IN
  [m EXCEPT !.pos = IF full THEN 0 ELSE (@ + n) % PoolSize,
            !.filled = full,
            !.strong = IF source > 1 THEN Smaller(@ + n, PollLength) ELSE @]

\* get_random_bits asks for at most a pool at a time.
Length(t) == Smaller(call[t].rest, PoolSize)
Needed(t) == IF Mem(t).seeded THEN Larger(0, Length(t) - Mem(t).balance)
             ELSE Larger(Length(t), HalfPool)

-----------------------------------------------------------------------------
(* The calls.  read_random_source, add_randomness and fast_random_poll set *)
(* up the pools when they find is_initialized unset: the first two with    *)
(* the mutex, fast_random_poll and random_is_faked without.                *)
Called(t) == /\ At(t, "idle") /\ Mem(t).calls < MaxCalls[ProcOf[t]]
             /\ Change(t, [Mem(t) EXCEPT !.calls = @ + 1])
             /\ UNCHANGED <<running, file, writer, replaced, starts>>

\* get_random_bits
Ask(t) ==
  /\ Called(t)
  /\ \E r \in Request :
       call' = [call EXCEPT ![t] = [NoCall EXCEPT !.pc = "begin", !.level = r[1],
                                                  !.rest = r[2]]]

\* md_open or cipher_open, which call fast_random_poll
Open(t) == Called(t) /\ Goto(t, "poll")

\* random_is_faked
IsFaked(t) ==
  /\ Called(t) /\ ~Mem(t).inited
  /\ Goto(t, "newpool")

-----------------------------------------------------------------------------
(* initialize.  The two stores after the last allocation may be seen in    *)
(* either order by a thread that does not hold the mutex.                  *)
NeedsPool(t) == \/ At(t, "absorb") \/ At(t, "poll")
                \/ At(t, "reseed") /\ Needed(t) > 0
                \/ At(t, "fill") /\ ~Mem(t).filled

Initialize(t) ==
  /\ NeedsPool(t) /\ ~Mem(t).inited
  /\ call' = [call EXCEPT ![t].pc = "newpool", ![t].back = call[t].pc]
  /\ UNCHANGED <<mem, running, file, writer, replaced, starts>>

NewPool(t) ==
  /\ At(t, "newpool")
  /\ Change(t, [Mem(t) EXCEPT !.strong = 0])
  /\ replaced' = (replaced \/ Mem(t).strong > 0)
  /\ Goto(t, "newkey")
  /\ UNCHANGED <<running, file, writer, starts>>

KeyInUse(p) == \E u \in Thread : /\ ProcOf[u] = p
                                 /\ call[u].pc \in {"hand", "lockfile", "write"}
NewKey(t) ==
  /\ \/ At(t, "newkey") /\ Goto(t, "setinit")
     \/ At(t, "latekey") /\ Back(t)
  /\ Change(t, [Mem(t) EXCEPT !.key = 0])
  /\ replaced' = (replaced \/ KeyInUse(ProcOf[t]))
  /\ UNCHANGED <<running, file, writer, starts>>

SetInit(t) ==
  /\ \/ At(t, "newkey") /\ Goto(t, "latekey")
     \/ At(t, "setinit") /\ Back(t)
  /\ Change(t, [Mem(t) EXCEPT !.inited = TRUE])
  /\ UNCHANGED <<running, file, writer, replaced, starts>>

\* The rest of fast_random_poll, outside read_pool
FastPoll(t) ==
  /\ At(t, "poll") /\ Mem(t).inited /\ Free(t)
  /\ Change(t, Add(Mem(t), FastLength, 1))
  /\ Goto(t, "idle")
  /\ UNCHANGED <<running, file, writer, replaced, starts>>

-----------------------------------------------------------------------------
(* read_pool and read_seed_file.                                           *)

\* Level 2 looks at the balance first.
Stage(t) == IF call[t].level = 2 THEN "reseed" ELSE "fill"
Seeded(t) == Goto(t, Stage(t))

\* mutant: the return for a file that is not there keeps the mutex
Begin_KeepsLock(t) ==
  /\ At(t, "begin") /\ Free(t)
  /\ LET m == Taken(Mem(t), t) IN
     \/ Mem(t).filled /\ Change(t, m) /\ Seeded(t)
     \/ ~Mem(t).filled /\ file = "absent" /\ Change(t, Taken([m EXCEPT !.allow = TRUE], t)) /\ Seeded(t)
     \/ ~Mem(t).filled /\ Change(t, m) /\ Seeded(t)
     \/ ~Mem(t).filled /\ file # "absent" /\ Change(t, Taken(m, t)) /\ Goto(t, "read")
  /\ UNCHANGED <<running, file, writer, replaced, starts>>

\* The mutex, and open(2) of the seed file, which may also fail
Begin(t) ==
  /\ At(t, "begin") /\ Free(t)
  /\ LET m == Taken(Mem(t), t) IN
     \/ Mem(t).filled /\ Change(t, m) /\ Seeded(t)
     \/ ~Mem(t).filled /\ file = "absent" /\ Change(t, [m EXCEPT !.allow = TRUE]) /\ Seeded(t)
     \/ ~Mem(t).filled /\ Change(t, m) /\ Seeded(t)
     \/ ~Mem(t).filled /\ file # "absent" /\ Change(t, Taken(m, t)) /\ Goto(t, "read")
  /\ UNCHANGED <<running, file, writer, replaced, starts>>

\* The file is empty, or has not the size of the pool, or cannot be locked or read.
Refused(t) ==
  \/ file = "empty" /\ Change(t, [Given(Mem(t)) EXCEPT !.allow = TRUE])
  \/ Change(t, Given(Mem(t)))

CanRead_Always(p) == TRUE   \* mutant: the seed file is read without a lock
CanRead(p) == writer \in {NoProc, p}

Valid_NotEmpty(f) == f # "empty"   \* mutant: the size is not compared
Valid(f) == f \in {"poor", "whole"}

\* F_RDLCK, the tests of the size, the reading, and the close that unlocks
ReadSeed(t) ==
  /\ At(t, "read") /\ CanRead(ProcOf[t])
  /\ \/ Refused(t) /\ Seeded(t)
     \/ /\ Valid(file) /\ UNCHANGED mem
        /\ call' = [call EXCEPT ![t].pc = "absorb", ![t].got = file]
  /\ UNCHANGED <<running, file, writer, replaced, starts>>

Absorb(t) ==
  /\ At(t, "absorb") /\ Mem(t).inited
  /\ Change(t, [Given(Mem(t)) EXCEPT
                  !.filled = TRUE, !.pos = 0, !.allow = TRUE,
                  !.strong = IF call[t].got = "whole" THEN PollLength ELSE @])
  /\ call' = [call EXCEPT ![t].pc = Stage(t), ![t].got = "absent"]
  /\ UNCHANGED <<running, file, writer, replaced, starts>>

\* The extra seeding of the first reading, or what the balance lacks
Reseed(t) ==
  /\ At(t, "reseed")
  /\ LET m == Mem(t) n == Needed(t) IN
     /\ n > 0 => m.inited
     /\ Change(t, [Add(m, n, 3) EXCEPT
                     !.balance = @ + n, !.credit = @ + n, !.seeded = TRUE])
  /\ Goto(t, "fill")
  /\ UNCHANGED <<running, file, writer, replaced, starts>>

\* random_poll, as often as it takes to write round the end of the pool
FillPool(t) ==
  /\ At(t, "fill") /\ ~Mem(t).filled /\ Mem(t).inited
  /\ Change(t, [Mem(t) EXCEPT !.filled = TRUE, !.pos = 0, !.strong = PollLength])
  /\ UNCHANGED <<running, call, file, writer, replaced, starts>>

\* fast_random_poll; the pool is copied into the key pool, and both are mixed.
Copy(t) ==
  /\ At(t, "fill") /\ Mem(t).filled /\ Mem(t).key # NoPool
  /\ LET m == Add(Mem(t), FastLength, 1) IN Change(t, [m EXCEPT !.key = m.strong])
  /\ Goto(t, "hand")
  /\ UNCHANGED <<running, file, writer, replaced, starts>>

\* A store of initialize that was not yet seen: the null pointer is used.
Crash(t) ==
  /\ At(t, "fill") /\ Mem(t).filled /\ Mem(t).key = NoPool
  /\ End(ProcOf[t])
  /\ UNCHANGED file

\* mutant: what was handed out stays on the balance
Spent_Not(m, level, n) ==
  [m EXCEPT !.credit = IF level = 2 THEN @ - n ELSE @,
            !.key = IF level > 0 THEN 0 ELSE @]

Spent(m, level, n) ==
  [m EXCEPT !.balance = IF level > 0 THEN Larger(0, @ - n) ELSE @,
            !.credit = IF level = 2 THEN @ - n ELSE @,
            !.key = IF level > 0 THEN 0 ELSE @]   \* wipememory

Hand(t) ==
  /\ At(t, "hand")
  /\ LET n == Length(t) c == call[t] IN
     /\ Change(t, Given(Spent(Mem(t), c.level, n)))
     /\ call' = [call EXCEPT ![t] =
                   IF c.rest = n THEN NoCall
                   ELSE [c EXCEPT !.pc = "begin", !.rest = @ - n, !.got = "absent"]]
  /\ UNCHANGED <<running, file, writer, replaced, starts>>

-----------------------------------------------------------------------------
(* update_random_seed_file, and the exit.                                  *)
Saves(m) == m.inited /\ m.filled /\ m.allow

\* g10_exit, as soon as it has the mutex.  The pool is copied and both are mixed, as
\* in read_pool; open(2) creates the file.
Update(t) ==
  /\ At(t, "idle") /\ Free(t)
  /\ LET m == Mem(t) IN
     \/ /\ Saves(m)
        /\ Change(t, [Taken(m, t) EXCEPT !.key = m.strong])
        /\ file' = IF file = "absent" THEN "empty" ELSE file
        /\ Goto(t, "lockfile")
     \/ UNCHANGED <<mem, file>> /\ Goto(t, "exit")   \* not saved, or no file
  /\ UNCHANGED <<running, writer, replaced, starts>>

\* Every failure ends in a return that closes the file and gives the mutex back.
GiveUp(t) ==
  /\ At(t, "lockfile")
  /\ Change(t, Given(Mem(t)))
  /\ Goto(t, "exit")
  /\ UNCHANGED <<running, file, writer, replaced, starts>>

\* F_WRLCK, waited for as long as it takes, and ftruncate
Truncate(t) ==
  /\ At(t, "lockfile") /\ writer = NoProc
  /\ writer' = ProcOf[t]
  /\ file' = "empty"
  /\ Goto(t, "write")
  /\ UNCHANGED <<mem, running, replaced, starts>>

\* write(2) may fail or be cut short; close(2) gives the lock back.
Write(t) ==
  /\ At(t, "write")
  /\ \/ file' = IF Mem(t).key >= PollLength THEN "whole" ELSE "poor"
     \/ file' = "short"
     \/ UNCHANGED file
  /\ Change(t, Given(Mem(t)))
  /\ writer' = NoProc
  /\ Goto(t, "exit")
  /\ UNCHANGED <<running, replaced, starts>>

Exit(t) ==
  /\ At(t, "exit")
  /\ End(ProcOf[t])
  /\ UNCHANGED file

\* A signal, or a fatal error of the random device
Die(p) ==
  /\ p \in running
  /\ End(p)
  /\ UNCHANGED file

Start(p) ==
  /\ p \notin running /\ starts < MaxStarts
  /\ running' = running \cup {p} /\ starts' = starts + 1
  /\ UNCHANGED <<mem, call, file, writer, replaced>>

Over == running = {} /\ starts = MaxStarts /\ UNCHANGED vars

Work(t) ==
  \/ Initialize(t) \/ NewPool(t) \/ NewKey(t) \/ SetInit(t) \/ FastPoll(t)
  \/ Begin(t) \/ ReadSeed(t) \/ Absorb(t) \/ Reseed(t) \/ FillPool(t)
  \/ Copy(t) \/ Crash(t) \/ Hand(t)
  \/ GiveUp(t) \/ Truncate(t) \/ Write(t)
  \/ Exit(t)

Next == \/ \E t \in Thread : Ask(t) \/ Open(t) \/ IsFaked(t) \/ Update(t) \/ Work(t)
        \/ \E p \in Proc : Die(p) \/ Start(p)
        \/ Over

Spec == Init /\ [][Next]_vars
\* As long as a thread in a call can go on, one of them does: the device answers.
Fairness == WF_vars(\E t \in Thread : Work(t))
FairSpec == Spec /\ Fairness

-----------------------------------------------------------------------------
(* Properties.                                                             *)

\* No byte of level 2 is handed out that was not gathered for it: in any order of
\* readings of all levels and lengths, cut into pieces of at most a pool, the
\* balance never promises more than what was gathered and not yet handed out.
Backed == \A p \in Proc : mem[p].balance <= mem[p].credit

\* What is handed out at any level comes from a pool into which at least one poll of
\* the random device has gone, in this process or in those that have left the seed
\* from one to the next; unless initialize has replaced a pool in use.
SeededUnlessReplaced ==
  \A t \in Thread : At(t, "hand") /\ ~replaced => Mem(t).key = PollLength

\* A process finds the seed file empty only when it was just created or its writer
\* has died: never because it looks between the truncation and the write of another.
SeedNotMissed ==
  [][\A t \in Thread : ReadSeed(t) /\ file = "empty" =>
       \A u \in Thread : ~At(u, "write")]_vars

\* Every request ends, with random bytes or with the process: no return path keeps
\* the mutex or the file lock, and the pool is filled after a few polls.
Delivered == (\E t \in Thread : call[t].pc = "begin")
               ~> (\A t \in Thread : call[t].pc = "idle")
===============================================================================
