---------------------------- MODULE KeyringProofs ----------------------------
(***************************************************************************)
(* Proofs about Keyring, for any processes, any keyrings of both kinds and *)
(* any content: what the dot locks do for the secret keyrings, whatever    *)
(* happens to the public ones that are registered with them.               *)
(***************************************************************************)
EXTENDS Keyring, TLAPS, SequenceTheorems, WellFoundedInduction

-----------------------------------------------------------------------------
(* A keyblock is a content, and so is an empty keyring.                    *)
Contents == Seq(Key \X Nat)

LEMMA BlockFacts ==
  ASSUME NEW k \in Key, NEW len \in Nat
  PROVE  /\ Block(k, len) \in Contents /\ Block(k, len) # Absent
         /\ Len(Block(k, len)) = len
         /\ \A i \in 1 .. len : Block(k, len)[i] = <<k, i>>
<1>1. Block(k, len) \in Contents /\ Len(Block(k, len)) = len
    BY DEF Block, Contents
<1>2. Block(k, len) # Absent
    BY <1>1, AbsentAssumption DEF Contents
<1>3. \A i \in 1 .. len : Block(k, len)[i] = <<k, i>>
    BY DEF Block
<1> QED BY <1>1, <1>2, <1>3

LEMMA EmptyFacts == <<>> \in Contents /\ <<>> # Absent
<1>1. <<>> \in Contents
    BY DEF Contents
<1> QED BY <1>1, AbsentAssumption DEF Contents

-----------------------------------------------------------------------------
(* The inductive invariant: what a process at each of its steps has locked,*)
(* for which keyrings it has lock handles, and which keyrings it can count *)
(* on.                                                                     *)
Creating == {"bootcheck", "bootmake", "bootdone"}
Booting == {"boot", "bootlock"} \cup Creating
Outside == {"idle", "found", "missing", "got", "release"}
Changing == {"access", "open", "write", "backup", "rename"}
Looping == Booting \cup {"make", "take", "unlock"}

\* The keyrings that the current loop over kr_names is through with.
Names(p) == KrNames[p]
Before(p) == {Names(p)[j] : j \in {i \in 1 .. Len(Names(p)) : i < idx[p]}}

Fields == {"kind", "ring", "key", "len", "new"}
Types ==
  /\ pc \in [Proc -> Steps]
  /\ idx \in [Proc -> Nat]
  /\ \A p \in Proc : idx[p] \in 1 .. Len(Names(p))
  /\ DOMAIN job = Proc
  /\ locked \in [Proc -> SUBSET Ring]
  /\ lockhd \in [Proc -> SUBSET Ring]
  /\ owner \in [Ring -> Proc \cup {NoProc}]
  /\ DOMAIN file = Ring

\* What is copied is a secret keyring or has a backup; what is inserted is a
\* keyblock.
Task(p) ==
  /\ DOMAIN job[p] = Fields
  /\ job[p].len \in 0 .. MaxLen
  /\ pc[p] = "found" => job[p].kind = "none"
  /\ pc[p] = "missing" \/ job[p].kind = "insert" => job[p].key \in Key
  /\ pc[p] = "backup" => job[p].ring \notin Secret

Owns(p) ==
  \A r \in Ring :
    owner[r] = p <=> r \in locked[p] \/ (pc[p] \in Creating /\ r = Now(p))

Locks(p) ==
  /\ pc[p] \in Booting \cup {"dead"} => locked[p] = {}
  /\ pc[p] \in Outside \cup {"make"} => locked[p] \cap Secret = {}
  /\ pc[p] = "take" =>
       /\ locked[p] \cap Secret \subseteq Before(p)
       /\ job[p].kind # "none" => Before(p) \cap Secret \subseteq locked[p]
  /\ pc[p] \in Changing => Secret \subseteq locked[p]
  /\ pc[p] = "unlock" => locked[p] \cap Secret \cap Before(p) = {}
  /\ pc[p] \notin Looping => idx[p] = 1

Handles(p) ==
  /\ pc[p] = "make" /\ job[p].kind # "none" => Before(p) \cap Secret \subseteq lockhd[p]
  /\ pc[p] = "take" => Secret \subseteq lockhd[p]

There(p) ==
  /\ pc[p] \in Booting => \A r \in Before(p) \cap Secret : file[r] # Absent
  /\ pc[p] \notin Booting \cup {"dead"} => \A r \in Secret : file[r] # Absent
  /\ pc[p] = "bootdone" /\ Now(p) \in Secret => file[Now(p)] # Absent
  /\ pc[p] = "bootmake" /\ Now(p) \in Secret => file[Now(p)] = Absent

Place(p) == Task(p) /\ Owns(p) /\ Locks(p) /\ Handles(p) /\ There(p)
IInv == Types /\ \A p \in Proc : Place(p)

-----------------------------------------------------------------------------
(* The loops over kr_names.                                                *)
LEMMA NamesFacts ==
  ASSUME NEW p \in Proc
  PROVE  /\ Names(p) \in Seq(Ring) /\ Len(Names(p)) \in Nat /\ 1 \in 1 .. Len(Names(p))
         /\ \A r \in Ring : \E i \in 1 .. Len(Names(p)) : r = Names(p)[i]
         /\ \A i, j \in 1 .. Len(Names(p)) : Names(p)[i] = Names(p)[j] => i = j
<1>1. /\ Names(p) \in Seq(Ring) /\ Names(p) # <<>>
      /\ Range(Names(p)) = Ring /\ IsInjective(Names(p))
    BY KrNamesAssumption DEF Names
<1>2. DOMAIN Names(p) = 1 .. Len(Names(p)) /\ Len(Names(p)) \in Nat
    BY <1>1
<1>3. Len(Names(p)) # 0
    BY <1>1
<1>4. 1 \in 1 .. Len(Names(p))
    BY <1>2, <1>3
<1> QED BY <1>1, <1>2, <1>4 DEF Range, IsInjective

LEMMA NowFacts ==
  ASSUME Types, NEW p \in Proc
  PROVE  Now(p) = Names(p)[idx[p]] /\ Now(p) \in Ring /\ Rings(p) = Names(p)
BY NamesFacts DEF Types, Now, Rings, Names

LEMMA FirstBefore ==
  ASSUME NEW p \in Proc, idx[p] = 1
  PROVE  Before(p) = {}
BY NamesFacts DEF Before

LEMMA StepFacts ==
  ASSUME Types, NEW p \in Proc, NEW after, Step(p, after)
  PROVE  \/ /\ pc' = pc /\ idx' = [idx EXCEPT ![p] = @ + 1]
            /\ idx'[p] \in 1 .. Len(Names(p))
            /\ Before(p)' = Before(p) \cup {Now(p)}
         \/ /\ pc' = [pc EXCEPT ![p] = after] /\ idx' = [idx EXCEPT ![p] = 1]
            /\ Before(p)' = {} /\ Ring \subseteq Before(p) \cup {Now(p)}
<1> DEFINE n == Len(Names(p))
<1>1. /\ n \in Nat /\ idx[p] \in 1 .. n /\ idx \in [Proc -> Nat]
      /\ Now(p) = Names(p)[idx[p]]
    BY NamesFacts, NowFacts DEF Types
<1>2. CASE idx[p] < n /\ idx' = [idx EXCEPT ![p] = @ + 1] /\ UNCHANGED pc
    <2>1. idx'[p] = idx[p] + 1
        BY <1>1, <1>2
    <2>2. Before(p)' = {Names(p)[j] : j \in {i \in 1 .. n : i < idx'[p]}}
        BY DEF Before, Names
    <2>3. {i \in 1 .. n : i < idx'[p]} = {i \in 1 .. n : i < idx[p]} \cup {idx[p]}
        BY <1>1, <1>2, <2>1
    <2>4. Before(p)' = Before(p) \cup {Now(p)}
        BY <1>1, <2>2, <2>3 DEF Before
    <2> QED BY <1>1, <1>2, <2>1, <2>4
<1>3. CASE ~(idx[p] < n) /\ idx' = [idx EXCEPT ![p] = 1] /\ pc' = [pc EXCEPT ![p] = after]
    <2>1. idx[p] = n
        BY <1>1, <1>3
    <2>2. Ring \subseteq Before(p) \cup {Now(p)}
        <3>1. ASSUME NEW r \in Ring PROVE r \in Before(p) \cup {Now(p)}
            <4>1. PICK i \in 1 .. n : r = Names(p)[i]
                BY NamesFacts
            <4>2. i = idx[p] \/ i < idx[p]
                BY <1>1, <2>1
            <4> QED BY <1>1, <4>1, <4>2 DEF Before
        <3> QED BY <3>1
    <2>3. Before(p)' = {}
        <3>1. idx'[p] = 1
            BY <1>1, <1>3
        <3>2. {i \in 1 .. n : i < idx'[p]} = {}
            BY <1>1, <3>1
        <3> QED BY <3>2 DEF Before, Names
    <2> QED BY <1>3, <2>2, <2>3
<1> QED BY <1>2, <1>3, NowFacts DEF Step, Goto

-----------------------------------------------------------------------------
(* What a step of one process leaves to the others.                        *)
Frame(p) ==
  /\ \A q \in Proc \ {p} :
       pc'[q] = pc[q] /\ idx'[q] = idx[q] /\ job'[q] = job[q]
       /\ locked'[q] = locked[q] /\ lockhd'[q] = lockhd[q]
  /\ \A r \in Ring : \/ owner'[r] = owner[r]
                     \/ owner[r] \in {NoProc, p} /\ owner'[r] \in {NoProc, p}
  /\ \A r \in Secret : file'[r] = file[r] \/ (file'[r] # Absent /\ owner[r] = p)

LEMMA OtherPlace ==
  ASSUME Types, NEW p \in Proc, NEW q \in Proc \ {p}, Frame(p), Place(q)
  PROVE  Place(q)'
<1>0. /\ pc'[q] = pc[q] /\ idx'[q] = idx[q] /\ job'[q] = job[q]
      /\ locked'[q] = locked[q] /\ lockhd'[q] = lockhd[q]
    BY DEF Frame
<1>1. Now(q)' = Now(q) /\ Before(q)' = Before(q) /\ Now(q) \in Ring
    BY <1>0, NowFacts DEF Now, Rings, Before, Names
<1>2. Task(q)' /\ Locks(q)' /\ Handles(q)'
    BY <1>0, <1>1 DEF Place, Task, Locks, Handles
<1>3. Owns(q)'
    <2>1. ASSUME NEW r \in Ring PROVE owner'[r] = q <=> owner[r] = q
        BY NoProcAssumption DEF Frame
    <2> QED BY <1>0, <1>1, <2>1 DEF Place, Owns
<1>4. There(q)'
    <2>1. \A r \in Secret : file[r] # Absent => file'[r] # Absent
        BY DEF Frame
    <2>2. pc[q] = "bootmake" /\ Now(q) \in Secret => file'[Now(q)] = file[Now(q)]
        BY <1>1 DEF Frame, Place, Owns, Creating
    <2> QED BY <1>0, <1>1, <2>1, <2>2 DEF Place, There
<1> QED BY <1>2, <1>3, <1>4 DEF Place

-----------------------------------------------------------------------------
(* The steps of one process.                                               *)
Moved(p) == Types' /\ Frame(p) /\ Place(p)'

\* A step within a transaction, before the locks are taken or while all are held.
LEMMA Hop ==
  ASSUME Types, NEW p \in Proc, Place(p),
         UNCHANGED <<idx, locked, lockhd, owner>>, NEW l \in Steps,
         pc' = [pc EXCEPT ![p] = l],
         \/ pc[p] \in Outside /\ l \in Outside \cup {"make"}
         \/ pc[p] \in Changing /\ l \in Changing \cup {"unlock"},
         DOMAIN job' = Proc, \A q \in Proc \ {p} : job'[q] = job[q], Task(p)',
         DOMAIN file' = Ring,
         \A r \in Secret : file'[r] = file[r] \/ (file'[r] # Absent /\ owner[r] = p)
  PROVE  Moved(p)
<1> USE DEF Outside, Changing, Creating, Booting, Looping
<1>1. Types'
    BY DEF Types
<1>2. Frame(p)
    BY DEF Types, Frame
<1>3. pc'[p] = l /\ idx[p] = 1 /\ Before(p)' = {}
    <2>1. pc'[p] = l /\ idx[p] = 1
        BY DEF Types, Place, Locks
    <2>2. Before(p) = {} /\ Before(p)' = Before(p)
        BY <2>1, FirstBefore DEF Before
    <2> QED BY <2>1, <2>2
<1>4. Owns(p)'
    BY <1>3 DEF Place, Owns, Now, Rings
<1>5. Locks(p)' /\ Handles(p)'
    BY <1>3 DEF Place, Locks, Handles
<1>6. There(p)'
    BY <1>3 DEF Place, There
<1> QED BY <1>1, <1>2, <1>4, <1>5, <1>6 DEF Moved, Place

\* Reading, choosing and giving up (keydb_search to keydb_release).
LEMMA OutsideStep ==
  ASSUME Types, NEW p \in Proc, Place(p),
         Search(p) \/ Get(p) \/ Choose(p) \/ GiveUp(p) \/ Release(p)
  PROVE  Moved(p)
<1> USE DEF Outside, Steps
<1>1. UNCHANGED <<idx, locked, lockhd, owner, file>>
    BY DEF Search, Get, Choose, GiveUp, Release, mem, disk
<1>2. DOMAIN file' = Ring /\ \A r \in Secret : file'[r] = file[r]
    BY <1>1 DEF Types
<1>3. CASE Search(p)
    <2>1. PICK r \in Ring, k \in Key :
             job' = [job EXCEPT ![p] = [NoJob EXCEPT !.ring = r, !.key = k]]
        BY <1>3 DEF Search
    <2>2. DOMAIN job' = Proc /\ \A q \in Proc \ {p} : job'[q] = job[q]
        BY <2>1 DEF Types
    <2>3. job'[p] = [NoJob EXCEPT !.ring = r, !.key = k]
        BY <2>1 DEF Types
    <2>4. pc[p] = "idle" /\ (pc' = [pc EXCEPT ![p] = "found"]
                              \/ pc' = [pc EXCEPT ![p] = "missing"])
        BY <1>3 DEF Search, Goto
    <2>5. Task(p)'
        <3>1. pc'[p] \in {"found", "missing"}
            BY <2>4 DEF Types
        <3>2. DOMAIN job'[p] = Fields /\ job'[p].kind = "none" /\ job'[p].len = 0
              /\ job'[p].key = k
            BY <2>3 DEF NoJob, Fields
        <3> QED BY <3>1, <3>2, MaxLenAssumption DEF Task
    <2> QED BY <1>1, <1>2, <2>2, <2>4, <2>5, Hop
<1>4. CASE Get(p)
    <2>1. \/ /\ pc' = [pc EXCEPT ![p] = "got"]
             /\ \E k : job' = [job EXCEPT ![p].key = k]
          \/ pc' = [pc EXCEPT ![p] = "release"] /\ job' = job
        BY <1>4, Zenon DEF Get, Goto
    <2>2. pc[p] = "found" /\ job[p].kind = "none"
        BY <1>4 DEF Get, Place, Task
    <2>3. CASE pc' = [pc EXCEPT ![p] = "got"] /\ \E k : job' = [job EXCEPT ![p].key = k]
        <3>1. PICK k : job' = [job EXCEPT ![p].key = k]
            BY <2>3
        <3>2. job'[p] = [job[p] EXCEPT !.key = k]
            BY <3>1 DEF Types
        <3>3. pc'[p] = "got" /\ DOMAIN job'[p] = Fields /\ job'[p].kind = "none"
              /\ job'[p].len = job[p].len
            BY <2>2, <2>3, <3>2 DEF Types, Place, Task, Fields
        <3>4. Task(p)'
            BY <3>3 DEF Task, Place
        <3>5. DOMAIN job' = Proc /\ \A q \in Proc \ {p} : job'[q] = job[q]
            BY <3>1 DEF Types
        <3> QED BY <1>1, <1>2, <2>2, <2>3, <3>4, <3>5, Hop
    <2>4. CASE pc' = [pc EXCEPT ![p] = "release"] /\ job' = job
        <3>1. Task(p)'
            BY <2>2, <2>4 DEF Types, Task, Place
        <3> QED BY <1>1, <1>2, <2>2, <2>4, <3>1, Hop DEF Types
    <2> QED BY <2>1, <2>3, <2>4
<1>5. CASE Choose(p)
    <2>1. PICK kind \in {"insert", "update", "delete"}, len \in 0 .. MaxLen :
             /\ kind = "insert" <=> pc[p] = "missing"
             /\ job' = [job EXCEPT ![p].kind = kind, ![p].len = len]
        BY <1>5 DEF Choose
    <2>2. pc[p] \in {"got", "missing"} /\ pc' = [pc EXCEPT ![p] = "make"]
        BY <1>5 DEF Choose, Goto
    <2>3. job'[p] = [job[p] EXCEPT !.kind = kind, !.len = len]
        BY <2>1 DEF Types
    <2>4. DOMAIN job'[p] = Fields /\ job'[p].kind = kind /\ job'[p].len = len
          /\ job'[p].key = job[p].key /\ pc'[p] = "make"
        BY <2>2, <2>3 DEF Types, Place, Task, Fields
    <2>5. Task(p)'
        BY <2>1, <2>4 DEF Task, Place
    <2>6. DOMAIN job' = Proc /\ \A q \in Proc \ {p} : job'[q] = job[q]
        BY <2>1 DEF Types
    <2> QED BY <1>1, <1>2, <2>2, <2>5, <2>6, Hop
<1>6. CASE GiveUp(p)
    <2>1. pc[p] \in Outside /\ pc' = [pc EXCEPT ![p] = "release"] /\ job' = job
        BY <1>6 DEF GiveUp, Goto
    <2>2. Task(p)'
        BY <2>1 DEF Types, Task, Place
    <2> QED BY <1>1, <1>2, <2>1, <2>2, Hop DEF Types
<1>7. CASE Release(p)
    <2>1. pc[p] = "release" /\ pc' = [pc EXCEPT ![p] = "idle"]
          /\ job' = [job EXCEPT ![p] = NoJob]
        BY <1>7 DEF Release, Goto
    <2>2. DOMAIN NoJob = Fields /\ NoJob.kind = "none" /\ NoJob.len = 0
        BY DEF NoJob, Fields
    <2>3. Task(p)'
        BY <2>1, <2>2, MaxLenAssumption DEF Types, Task
    <2>4. DOMAIN job' = Proc /\ \A q \in Proc \ {p} : job'[q] = job[q]
        BY <2>1 DEF Types
    <2> QED BY <1>1, <1>2, <2>1, <2>3, <2>4, Hop
<1> QED BY <1>3, <1>4, <1>5, <1>6, <1>7

\* Copying, with all locks held (do_copy and rename_tmp_file).
LEMMA ChangingStep ==
  ASSUME Types, NEW p \in Proc, Place(p),
         \/ Access(p) \/ Open(p) \/ Write(p) \/ WriteFails(p)
         \/ Backup(p) \/ Rename(p) \/ RenameFails(p)
  PROVE  Moved(p)
<1> USE DEF Changing, Steps
<1>1. UNCHANGED <<idx, locked, lockhd, owner>> /\ pc[p] \in Changing
    BY DEF Access, Open, Write, WriteFails, Backup, Rename, RenameFails, mem, disk
<1>2. \A r \in Secret : r \in Ring /\ owner[r] = p
    BY <1>1, SecretAssumption DEF Place, Locks, Owns
<1>3. job' = job \/ \E c : job' = [job EXCEPT ![p].new = c]
    BY Zenon DEF Access, Open, Write, WriteFails, Backup, Rename, RenameFails
<1>4. /\ DOMAIN job' = Proc /\ \A q \in Proc \ {p} : job'[q] = job[q]
      /\ DOMAIN job'[p] = Fields /\ job'[p].kind = job[p].kind
      /\ job'[p].len = job[p].len /\ job'[p].key = job[p].key /\ job'[p].ring = job[p].ring
    <2>1. CASE job' = job
        BY <2>1 DEF Types, Place, Task
    <2>2. CASE \E c : job' = [job EXCEPT ![p].new = c]
        <3>1. PICK c : job' = [job EXCEPT ![p].new = c]
            BY <2>2
        <3>2. job'[p] = [job[p] EXCEPT !.new = c] /\ DOMAIN job[p] = Fields
            BY <3>1 DEF Types, Place, Task
        <3> QED BY <3>1, <3>2 DEF Types, Fields
    <2> QED BY <1>3, <2>1, <2>2
<1>5. PICK l \in {"open", "write", "backup", "rename", "unlock"} :
         /\ pc' = [pc EXCEPT ![p] = l]
         /\ l = "backup" => job[p].ring \notin Secret
    BY DEF Access, Open, Write, WriteFails, Backup, Rename, RenameFails, Goto
<1>6. pc'[p] = l
    BY <1>5 DEF Types
<1>7. Task(p)'
    BY <1>1, <1>4, <1>5, <1>6 DEF Place, Task
<1>8. DOMAIN file' = Ring /\ \A r \in Secret : file'[r] = file[r] \/ file'[r] # Absent
    <2>1. CASE Access(p) \/ Write(p) \/ WriteFails(p) \/ RenameFails(p)
        BY <2>1 DEF Types, Access, Write, WriteFails, RenameFails, disk
    <2>2. CASE Open(p)
        <3>1. \/ file' = file
              \/ /\ job[p].kind = "insert"
                 /\ file' = [file EXCEPT ![job[p].ring] = Block(job[p].key, job[p].len)]
            BY <2>2, Zenon DEF Open
        <3>2. job[p].kind = "insert" => Block(job[p].key, job[p].len) # Absent
            BY BlockFacts, MaxLenAssumption DEF Place, Task
        <3> QED BY <3>1, <3>2, SecretAssumption DEF Types
    <2>3. CASE Backup(p)
        <3>1. \/ file' = file
              \/ file' = [file EXCEPT ![job[p].ring] = Absent]
            BY <2>3, Zenon DEF Backup
        <3>2. job[p].ring \notin Secret
            BY <2>3 DEF Backup, Place, Task
        <3> QED BY <3>1, <3>2, SecretAssumption DEF Types
    <2>4. CASE Rename(p)
        <3>1. /\ file' = [file EXCEPT ![job[p].ring] = tmp[job[p].ring]]
              /\ tmp[job[p].ring] # Absent
            BY <2>4, Zenon DEF Rename
        <3> QED BY <3>1, SecretAssumption DEF Types
    <2> QED BY <2>1, <2>2, <2>3, <2>4
<1> QED BY <1>1, <1>2, <1>4, <1>5, <1>7, <1>8, Hop

\* The end of a process and its restart.
LEMMA EndStep ==
  ASSUME Types, NEW p \in Proc, Place(p), Die(p) \/ Start(p)
  PROVE  Moved(p)
<1> USE DEF Outside, Changing, Creating, Booting, Looping, Steps
<1>1. UNCHANGED file
    BY DEF Die, Start, disk
<1>2. CASE Start(p)
    <2>1. /\ UNCHANGED <<idx, job, locked, lockhd, owner, file>> /\ pc[p] = "dead"
          /\ pc' = [pc EXCEPT ![p] = "boot"] /\ pc'[p] = "boot" /\ idx[p] = 1
        BY <1>2 DEF Types, Start, Goto, mem, disk, Place, Locks
    <2>2. Types' /\ Frame(p)
        BY <2>1 DEF Types, Frame
    <2>3. Before(p)' = {}
        BY <2>1, FirstBefore DEF Before
    <2>4. Task(p)' /\ Owns(p)' /\ Locks(p)' /\ Handles(p)'
        BY <2>1, <2>3 DEF Place, Task, Owns, Locks, Handles, Now, Rings
    <2>5. There(p)'
        BY <2>1, <2>3 DEF There
    <2> QED BY <2>2, <2>4, <2>5 DEF Moved, Place
<1>3. CASE Die(p)
    <2>1. /\ pc' = [pc EXCEPT ![p] = "dead"] /\ idx' = [idx EXCEPT ![p] = 1]
          /\ job' = [job EXCEPT ![p] = NoJob]
          /\ lockhd' = [lockhd EXCEPT ![p] = {}] /\ locked' = [locked EXCEPT ![p] = {}]
          /\ owner' = [r \in Ring |-> IF owner[r] = p THEN NoProc ELSE owner[r]]
        BY <1>3 DEF Die, Goto
    <2>2. /\ pc'[p] = "dead" /\ idx'[p] = 1 /\ locked'[p] = {} /\ job'[p] = NoJob
          /\ \A r \in Ring : owner'[r] # p
        BY <2>1, NoProcAssumption DEF Types
    <2>3. Types'
        BY <1>1, <2>1, NamesFacts DEF Types
    <2>4. Frame(p)
        BY <1>1, <2>1 DEF Types, Frame
    <2>5. Task(p)'
        BY <2>2, MaxLenAssumption DEF Task, NoJob, Fields
    <2>6. Owns(p)' /\ Locks(p)' /\ Handles(p)' /\ There(p)'
        BY <2>2 DEF Owns, Locks, Handles, There
    <2> QED BY <2>3, <2>4, <2>5, <2>6 DEF Moved, Place
<1> QED BY <1>2, <1>3

\* maybe_create_keyring.
LEMMA BootStep ==
  ASSUME Types, NEW p \in Proc, Place(p),
         Boot(p) \/ BootLock(p) \/ BootCheck(p) \/ BootMake(p) \/ BootDone(p)
  PROVE  Moved(p)
<1> USE DEF Outside, Changing, Creating, Booting, Looping, Steps
<1>1. /\ UNCHANGED <<job, locked, lockhd>> /\ locked[p] = {} /\ pc[p] \in Booting
      /\ \A r \in Ring : owner[r] = p <=> pc[p] \in Creating /\ r = Now(p)
    BY DEF Boot, BootLock, BootCheck, BootMake, BootDone, mem, Place, Locks, Owns
<1>2. /\ Now(p) \in Ring /\ Secret \subseteq Ring
      /\ \A r \in Before(p) \cap Secret : file[r] # Absent
    BY <1>1, NowFacts, SecretAssumption DEF Place, There
<1>3. CASE Boot(p) /\ file[Now(p)] # Absent
    <2>1. Step(p, "idle") /\ UNCHANGED <<owner, file>> /\ pc[p] = "boot"
        BY <1>3 DEF Boot, disk
    <2>2. CASE /\ pc' = pc /\ idx' = [idx EXCEPT ![p] = @ + 1]
               /\ idx'[p] \in 1 .. Len(Names(p))
               /\ Before(p)' = Before(p) \cup {Now(p)}
        <3>1. Types'
            BY <1>1, <2>1, <2>2 DEF Types
        <3>2. Frame(p)
            BY <1>1, <2>1, <2>2 DEF Types, Frame
        <3>3. Task(p)' /\ Owns(p)' /\ Locks(p)' /\ Handles(p)'
            BY <1>1, <2>1, <2>2 DEF Place, Task, Owns, Locks, Handles
        <3>4. There(p)'
            BY <1>2, <1>3, <2>1, <2>2 DEF There
        <3> QED BY <3>1, <3>2, <3>3, <3>4 DEF Moved, Place
    <2>3. CASE /\ pc' = [pc EXCEPT ![p] = "idle"] /\ idx' = [idx EXCEPT ![p] = 1]
               /\ Before(p)' = {} /\ Ring \subseteq Before(p) \cup {Now(p)}
        <3>0. pc'[p] = "idle" /\ idx'[p] = 1
            BY <2>3 DEF Types
        <3>1. Types'
            BY <1>1, <2>1, <2>3, NamesFacts DEF Types
        <3>2. Frame(p)
            BY <1>1, <2>1, <2>3 DEF Types, Frame
        <3>3. Task(p)' /\ Owns(p)' /\ Locks(p)' /\ Handles(p)'
            BY <1>1, <2>1, <3>0 DEF Place, Task, Owns, Locks, Handles
        <3>4. There(p)'
            BY <1>2, <1>3, <2>1, <2>3, <3>0 DEF There
        <3> QED BY <3>1, <3>2, <3>3, <3>4 DEF Moved, Place
    <2> QED BY <2>1, <2>2, <2>3, StepFacts
<1>4. ASSUME idx' = idx, NEW l \in Booting, pc' = [pc EXCEPT ![p] = l],
             owner' \in [Ring -> Proc \cup {NoProc}],
             \A r \in Ring : owner'[r] = p <=> l \in Creating /\ r = Now(p),
             \A r \in Ring : \/ owner'[r] = owner[r]
                             \/ owner[r] \in {NoProc, p} /\ owner'[r] \in {NoProc, p},
             DOMAIN file' = Ring,
             \A r \in Secret : file'[r] = file[r] \/ (file'[r] # Absent /\ owner[r] = p),
             l = "bootdone" => file'[Now(p)] # Absent,
             l = "bootmake" => file'[Now(p)] = Absent
      PROVE  Moved(p)
    <2>0. pc'[p] = l /\ Now(p)' = Now(p) /\ Before(p)' = Before(p)
        BY <1>4 DEF Types, Now, Rings, Before, Names
    <2>1. Types'
        BY <1>1, <1>4 DEF Types
    <2>2. Frame(p)
        BY <1>1, <1>4 DEF Types, Frame
    <2>3. Task(p)' /\ Owns(p)' /\ Locks(p)' /\ Handles(p)'
        BY <1>1, <1>4, <2>0 DEF Place, Task, Owns, Locks, Handles
    <2>4. There(p)'
        BY <1>2, <1>4, <2>0 DEF There
    <2> QED BY <2>1, <2>2, <2>3, <2>4 DEF Moved, Place
<1>5. CASE Boot(p) /\ file[Now(p)] = Absent
    <2>1. UNCHANGED <<idx, owner, file>> /\ pc' = [pc EXCEPT ![p] = "bootlock"]
          /\ pc[p] = "boot"
        BY <1>5 DEF Boot, disk, Goto
    <2> QED BY <1>1, <1>4, <2>1 DEF Types
<1>6. CASE BootLock(p)
    <2>1. /\ UNCHANGED <<idx, file>> /\ pc' = [pc EXCEPT ![p] = "bootcheck"]
          /\ pc[p] = "bootlock" /\ owner[Now(p)] = NoProc
          /\ owner' = [owner EXCEPT ![Now(p)] = p]
        BY <1>6 DEF BootLock, Goto
    <2> QED BY <1>1, <1>2, <1>4, <2>1 DEF Types
<1>7. CASE BootCheck(p)
    <2>1. /\ UNCHANGED <<idx, owner, file>> /\ pc[p] = "bootcheck"
          /\ pc' = [pc EXCEPT ![p] = IF file[Now(p)] = Absent THEN "bootmake" ELSE "bootdone"]
        BY <1>7 DEF BootCheck, Goto, disk
    <2> QED BY <1>1, <1>4, <2>1 DEF Types
<1>8. CASE BootMake(p)
    <2>1. /\ UNCHANGED <<idx, owner>> /\ pc[p] = "bootmake"
          /\ pc' = [pc EXCEPT ![p] = "bootdone"] /\ file' = [file EXCEPT ![Now(p)] = <<>>]
        BY <1>8 DEF BootMake, Goto
    <2>2. DOMAIN file' = Ring /\ \A r \in Ring : file'[r] = IF r = Now(p) THEN <<>> ELSE file[r]
        BY <2>1 DEF Types
    <2> QED BY <1>1, <1>2, <1>4, <2>1, <2>2, EmptyFacts DEF Types
<1>9. CASE BootDone(p)
    <2>1. /\ UNCHANGED <<idx, file>> /\ pc[p] = "bootdone"
          /\ pc' = [pc EXCEPT ![p] = "boot"] /\ owner' = [owner EXCEPT ![Now(p)] = NoProc]
        BY <1>9 DEF BootDone
    <2> QED BY <1>1, <1>2, <1>4, <2>1, NoProcAssumption DEF Types
<1> QED BY <1>3, <1>5, <1>6, <1>7, <1>8, <1>9

\* One turn of a loop over kr_names, in keyring_lock and for the release.
Mine(p) ==
  /\ DOMAIN job' = Proc
  /\ \A q \in Proc \ {p} : job'[q] = job[q] /\ locked'[q] = locked[q] /\ lockhd'[q] = lockhd[q]
  /\ DOMAIN job'[p] = Fields /\ job'[p].len = job[p].len /\ job'[p].key = job[p].key
  /\ job'[p].kind \in {job[p].kind, "none"}
  /\ locked' \in [Proc -> SUBSET Ring] /\ lockhd' \in [Proc -> SUBSET Ring]
  /\ owner' \in [Ring -> Proc \cup {NoProc}]
  /\ \A r \in Ring : \/ owner'[r] = owner[r]
                     \/ owner[r] \in {NoProc, p} /\ owner'[r] \in {NoProc, p}
  /\ \A r \in Ring : owner'[r] = p <=> r \in locked'[p]
  /\ file' = file

LEMMA Turn ==
  ASSUME Types, NEW p \in Proc, Place(p), pc[p] \in {"make", "take", "unlock"},
         NEW l \in {"take", "unlock", "access", "release"}, Step(p, l), Mine(p)
  PROVE  /\ Types' /\ Frame(p) /\ Task(p)' /\ Owns(p)' /\ There(p)'
         /\ \/ pc'[p] = pc[p] /\ Before(p)' = Before(p) \cup {Now(p)}
            \/ /\ pc'[p] = l /\ idx'[p] = 1 /\ Before(p)' = {}
               /\ Secret \subseteq Before(p) \cup {Now(p)}
<1> USE DEF Outside, Changing, Creating, Booting, Looping, Steps
<1>1. \/ /\ pc' = pc /\ idx' = [idx EXCEPT ![p] = @ + 1]
         /\ idx'[p] \in 1 .. Len(Names(p))
         /\ Before(p)' = Before(p) \cup {Now(p)}
      \/ /\ pc' = [pc EXCEPT ![p] = l] /\ idx' = [idx EXCEPT ![p] = 1]
         /\ Before(p)' = {} /\ Ring \subseteq Before(p) \cup {Now(p)}
    BY StepFacts
<1>2. /\ pc'[p] \in {"make", "take", "unlock", "access", "release"} /\ pc' \in [Proc -> Steps]
      /\ \A q \in Proc \ {p} : pc'[q] = pc[q]
    BY <1>1 DEF Types
<1>3. /\ idx' \in [Proc -> Nat] /\ \A q \in Proc : idx'[q] \in 1 .. Len(Names(q))
      /\ \A q \in Proc \ {p} : idx'[q] = idx[q]
    <2>1. /\ idx'[p] \in 1 .. Len(Names(p)) /\ Len(Names(p)) \in Nat
          /\ idx' = [idx EXCEPT ![p] = idx'[p]]
        BY <1>1, NamesFacts DEF Types
    <2>2. idx'[p] \in Nat
        BY <2>1
    <2> QED BY <2>1, <2>2 DEF Types
<1>4. Types'
    BY <1>2, <1>3 DEF Types, Mine, Names
<1>5. Frame(p)
    BY <1>2, <1>3 DEF Frame, Mine
<1>6. Task(p)' /\ Owns(p)'
    BY <1>2 DEF Mine, Place, Task, Owns
<1>7. There(p)'
    BY <1>2 DEF Mine, Place, There
<1>8. \/ pc'[p] = pc[p] /\ Before(p)' = Before(p) \cup {Now(p)}
      \/ /\ pc'[p] = l /\ idx'[p] = 1 /\ Before(p)' = {}
         /\ Secret \subseteq Before(p) \cup {Now(p)}
    BY <1>1, SecretAssumption DEF Types
<1> QED BY <1>4, <1>5, <1>6, <1>7, <1>8

LEMMA LoopStep ==
  ASSUME Types, NEW p \in Proc, Place(p),
         MakeHandle(p) \/ MakeFails(p) \/ TakeSkip(p) \/ TakeLock(p) \/ TakeFails(p)
         \/ Unlock(p)
  PROVE  Moved(p)
<1> USE DEF Outside, Changing, Creating, Booting, Looping
<1>1. /\ pc[p] \in {"make", "take", "unlock"} /\ file' = file
      /\ \A r \in Secret : file[r] # Absent
    BY DEF MakeHandle, MakeFails, TakeSkip, TakeLock, TakeFails, Unlock, disk, Place, There
<1>2. Now(p) \in Ring /\ Secret \subseteq Ring
    BY NowFacts, SecretAssumption
<1>3. \A r \in Ring : owner[r] = p <=> r \in locked[p]
    BY <1>1 DEF Place, Owns
<1>4. CASE MakeHandle(p) \/ MakeFails(p)
    <2>1. /\ pc[p] = "make" /\ UNCHANGED <<locked, owner>>
          /\ Step(p, IF job'[p].kind = "none" THEN "unlock" ELSE "take")
        BY <1>4 DEF MakeHandle, MakeFails, AfterMake, mem, disk
    <2>2. \/ /\ job' = job
             /\ lockhd' = [lockhd EXCEPT ![p] = IF IsWritable(Now(p)) THEN @ \cup {Now(p)} ELSE @]
          \/ job' = [job EXCEPT ![p].kind = "none"] /\ lockhd' = lockhd
        BY <1>4 DEF MakeHandle, MakeFails, mem
    <2>3. /\ DOMAIN job' = Proc /\ \A q \in Proc \ {p} : job'[q] = job[q]
          /\ DOMAIN job'[p] = Fields /\ job'[p].len = job[p].len /\ job'[p].key = job[p].key
          /\ job'[p].kind = job[p].kind \/ job'[p].kind = "none"
        <3>1. CASE job' = job
            BY <3>1 DEF Types, Place, Task
        <3>2. CASE job' = [job EXCEPT ![p].kind = "none"]
            <4>1. job'[p] = [job[p] EXCEPT !.kind = "none"] /\ DOMAIN job[p] = Fields
                BY <3>2 DEF Types, Place, Task
            <4> QED BY <3>2, <4>1 DEF Types, Fields
        <3> QED BY <2>2, <3>1, <3>2
    <2>4. /\ lockhd' \in [Proc -> SUBSET Ring] /\ lockhd[p] \subseteq lockhd'[p]
          /\ job'[p].kind # "none" /\ Now(p) \in Secret => Now(p) \in lockhd'[p]
          /\ \A q \in Proc \ {p} : lockhd'[q] = lockhd[q]
        <3>1. CASE job' = [job EXCEPT ![p].kind = "none"] /\ lockhd' = lockhd
            <4>1. job'[p] = [job[p] EXCEPT !.kind = "none"] /\ DOMAIN job[p] = Fields
                BY <3>1 DEF Types, Place, Task
            <4>2. job'[p].kind = "none"
                BY <4>1 DEF Fields
            <4> QED BY <3>1, <4>2 DEF Types
        <3>2. CASE lockhd' = [lockhd EXCEPT ![p] = IF IsWritable(Now(p)) THEN @ \cup {Now(p)} ELSE @]
            BY <1>1, <1>2, <3>2 DEF Types, IsWritable
        <3> QED BY <2>2, <3>1, <3>2
    <2>5. Mine(p)
        BY <1>1, <1>3, <2>1, <2>3, <2>4 DEF Types, Mine
    <2>6. PICK l \in {"unlock", "take"} :
             l = IF job'[p].kind = "none" THEN "unlock" ELSE "take"
        OBVIOUS
    <2>7. /\ Types' /\ Frame(p) /\ Task(p)' /\ Owns(p)' /\ There(p)'
          /\ \/ pc'[p] = "make" /\ Before(p)' = Before(p) \cup {Now(p)}
             \/ /\ pc'[p] = l /\ idx'[p] = 1 /\ Before(p)' = {}
                /\ Secret \subseteq Before(p) \cup {Now(p)}
        BY <1>1, <2>1, <2>5, <2>6, Turn
    <2>8. locked'[p] = locked[p] /\ locked[p] \cap Secret = {}
          /\ (job[p].kind # "none" => Before(p) \cap Secret \subseteq lockhd[p])
        BY <2>1 DEF Place, Locks, Handles
    <2>9. Locks(p)' /\ Handles(p)'
        BY <2>1, <2>3, <2>4, <2>6, <2>7, <2>8 DEF Locks, Handles
    <2> QED BY <2>7, <2>9 DEF Moved, Place
<1>5. CASE TakeSkip(p) \/ TakeLock(p) \/ TakeFails(p)
    <2>1. /\ pc[p] = "take" /\ lockhd' = lockhd
          /\ Step(p, IF job'[p].kind = "none" THEN "unlock" ELSE "access")
        BY <1>5 DEF TakeSkip, TakeLock, TakeFails, AfterTake, mem
    <2>2. \/ /\ UNCHANGED <<locked, owner>>
             /\ \/ job' = job /\ (Now(p) \in Secret => Now(p) \in locked[p])
                \/ job' = [job EXCEPT ![p].kind = "none"]
          \/ /\ owner[Now(p)] = NoProc /\ owner' = [owner EXCEPT ![Now(p)] = p]
             /\ locked' = [locked EXCEPT ![p] = @ \cup {Now(p)}] /\ job' = job
        BY <1>1, <1>5 DEF TakeSkip, TakeLock, TakeFails, mem, disk, IsWritable
    <2>3. /\ DOMAIN job' = Proc /\ \A q \in Proc \ {p} : job'[q] = job[q]
          /\ DOMAIN job'[p] = Fields /\ job'[p].len = job[p].len /\ job'[p].key = job[p].key
          /\ job'[p].kind = job[p].kind \/ job'[p].kind = "none"
        <3>1. CASE job' = job
            BY <3>1 DEF Types, Place, Task
        <3>2. CASE job' = [job EXCEPT ![p].kind = "none"]
            <4>1. job'[p] = [job[p] EXCEPT !.kind = "none"] /\ DOMAIN job[p] = Fields
                BY <3>2 DEF Types, Place, Task
            <4> QED BY <3>2, <4>1 DEF Types, Fields
        <3> QED BY <2>2, <3>1, <3>2
    <2>4. /\ locked' \in [Proc -> SUBSET Ring]
          /\ \A q \in Proc \ {p} : locked'[q] = locked[q]
          /\ locked[p] \subseteq locked'[p] /\ locked'[p] \subseteq locked[p] \cup {Now(p)}
          /\ job'[p].kind # "none" /\ Now(p) \in Secret => Now(p) \in locked'[p]
        <3>1. CASE job' = [job EXCEPT ![p].kind = "none"] /\ locked' = locked
            <4>1. job'[p] = [job[p] EXCEPT !.kind = "none"] /\ DOMAIN job[p] = Fields
                BY <3>1 DEF Types, Place, Task
            <4>2. job'[p].kind = "none"
                BY <4>1 DEF Fields
            <4> QED BY <3>1, <4>2 DEF Types
        <3>2. CASE job' = job /\ (Now(p) \in Secret => Now(p) \in locked[p]) /\ locked' = locked
            BY <3>2 DEF Types
        <3>3. CASE locked' = [locked EXCEPT ![p] = @ \cup {Now(p)}]
            BY <1>2, <3>3 DEF Types
        <3> QED BY <2>2, <3>1, <3>2, <3>3
    <2>5. /\ owner' \in [Ring -> Proc \cup {NoProc}]
          /\ \A r \in Ring : \/ owner'[r] = owner[r]
                             \/ owner[r] \in {NoProc, p} /\ owner'[r] \in {NoProc, p}
          /\ \A r \in Ring : owner'[r] = p <=> r \in locked'[p]
        BY <1>2, <1>3, <2>2, NoProcAssumption DEF Types
    <2>6. Mine(p)
        BY <1>1, <2>1, <2>3, <2>4, <2>5 DEF Types, Mine
    <2>7. PICK l \in {"unlock", "access"} :
             l = IF job'[p].kind = "none" THEN "unlock" ELSE "access"
        OBVIOUS
    <2>8. /\ Types' /\ Frame(p) /\ Task(p)' /\ Owns(p)' /\ There(p)'
          /\ \/ pc'[p] = "take" /\ Before(p)' = Before(p) \cup {Now(p)}
             \/ /\ pc'[p] = l /\ idx'[p] = 1 /\ Before(p)' = {}
                /\ Secret \subseteq Before(p) \cup {Now(p)}
        BY <1>1, <2>1, <2>6, <2>7, Turn
    <2>9. /\ locked[p] \cap Secret \subseteq Before(p)
          /\ job'[p].kind # "none" => Before(p) \cap Secret \subseteq locked[p]
          /\ Secret \subseteq lockhd[p]
        BY <2>1, <2>3 DEF Place, Locks, Handles
    <2>10. Locks(p)' /\ Handles(p)'
        BY <2>1, <2>4, <2>7, <2>8, <2>9 DEF Locks, Handles
    <2> QED BY <2>8, <2>10 DEF Moved, Place
<1>6. CASE Unlock(p)
    <2>1. /\ pc[p] = "unlock" /\ UNCHANGED <<job, lockhd>> /\ Step(p, "release")
          /\ IF IsWritable(Now(p)) /\ Now(p) \in locked[p]
               THEN /\ owner' = [owner EXCEPT ![Now(p)] = NoProc]
                    /\ locked' = [locked EXCEPT ![p] = @ \ {Now(p)}]
               ELSE UNCHANGED <<owner, locked>>
        BY <1>6 DEF Unlock
    <2>2. /\ locked' \in [Proc -> SUBSET Ring] /\ locked'[p] \subseteq locked[p]
          /\ Now(p) \in Secret => Now(p) \notin locked'[p]
          /\ \A q \in Proc \ {p} : locked'[q] = locked[q]
        BY <1>1, <2>1 DEF Types, IsWritable
    <2>3. /\ owner' \in [Ring -> Proc \cup {NoProc}]
          /\ \A r \in Ring : \/ owner'[r] = owner[r]
                             \/ owner[r] \in {NoProc, p} /\ owner'[r] \in {NoProc, p}
          /\ \A r \in Ring : owner'[r] = p <=> r \in locked'[p]
        <3>1. CASE IsWritable(Now(p)) /\ Now(p) \in locked[p]
            <4>1. owner' = [owner EXCEPT ![Now(p)] = NoProc]
                  /\ locked'[p] = locked[p] \ {Now(p)}
                BY <2>1, <3>1 DEF Types
            <4> QED BY <1>2, <1>3, <3>1, <4>1, NoProcAssumption DEF Types
        <3>2. CASE ~(IsWritable(Now(p)) /\ Now(p) \in locked[p])
            BY <1>3, <2>1, <3>2 DEF Types
        <3> QED BY <3>1, <3>2
    <2>4. Mine(p)
        BY <1>1, <2>1, <2>2, <2>3 DEF Types, Mine, Place, Task
    <2>5. /\ Types' /\ Frame(p) /\ Task(p)' /\ Owns(p)' /\ There(p)'
          /\ \/ pc'[p] = "unlock" /\ Before(p)' = Before(p) \cup {Now(p)}
             \/ /\ pc'[p] = "release" /\ idx'[p] = 1 /\ Before(p)' = {}
                /\ Secret \subseteq Before(p) \cup {Now(p)}
        BY <1>1, <2>1, <2>4, Turn
    <2>6. Locks(p)' /\ Handles(p)'
        BY <2>1, <2>2, <2>5 DEF Place, Locks, Handles
    <2> QED BY <2>5, <2>6 DEF Moved, Place
<1> QED BY <1>4, <1>5, <1>6

-----------------------------------------------------------------------------
(* The invariant is inductive.                                             *)
LEMMA InitInv == Init => IInv
<1> SUFFICES ASSUME Init PROVE IInv
    OBVIOUS
<1>1. DOMAIN NoJob = Fields /\ NoJob.kind = "none" /\ NoJob.len = 0
    BY DEF NoJob, Fields
<1>2. Types
    BY NamesFacts, InitialAssumption DEF Init, Types, Steps
<1>3. ASSUME NEW p \in Proc PROVE Place(p)
    <2>1. pc[p] = "boot" /\ idx[p] = 1 /\ job[p] = NoJob /\ locked[p] = {}
          /\ \A r \in Ring : owner[r] = NoProc
        BY DEF Init
    <2>2. Before(p) = {}
        BY <2>1, FirstBefore
    <2>3. Task(p)
        BY <1>1, <2>1, MaxLenAssumption DEF Task
    <2>4. Owns(p)
        BY <2>1, NoProcAssumption DEF Owns, Creating
    <2>5. Locks(p) /\ Handles(p) /\ There(p)
        BY <2>1, <2>2 DEF Locks, Handles, There, Booting, Creating, Outside, Changing,
           Looping
    <2> QED BY <2>3, <2>4, <2>5 DEF Place
<1> QED BY <1>2, <1>3 DEF IInv

LEMMA IInvStep == IInv /\ [Next]_vars => IInv'
<1> SUFFICES ASSUME IInv, [Next]_vars PROVE IInv'
    OBVIOUS
<1>1. ASSUME NEW p \in Proc, Moved(p) PROVE IInv'
    <2>1. ASSUME NEW q \in Proc PROVE Place(q)'
        BY <1>1, OtherPlace DEF IInv, Moved
    <2> QED BY <1>1, <2>1 DEF IInv, Moved
<1>2. CASE Next
    <2>1. PICK p \in Proc :
             \/ Boot(p) \/ BootLock(p) \/ BootCheck(p) \/ BootMake(p) \/ BootDone(p)
             \/ Search(p) \/ Get(p) \/ Choose(p) \/ GiveUp(p)
             \/ MakeHandle(p) \/ MakeFails(p) \/ TakeSkip(p) \/ TakeLock(p) \/ TakeFails(p)
             \/ Unlock(p) \/ Release(p)
             \/ Access(p) \/ Open(p) \/ Write(p) \/ WriteFails(p)
             \/ Backup(p) \/ Rename(p) \/ RenameFails(p)
             \/ Die(p) \/ Start(p)
        BY <1>2 DEF Next
    <2>2. Moved(p)
        BY <2>1, BootStep, OutsideStep, LoopStep, ChangingStep, EndStep DEF IInv
    <2> QED BY <1>1, <2>2
<1>3. CASE UNCHANGED vars
    <2>1. UNCHANGED <<pc, idx, job, locked, lockhd, owner, file>>
        BY <1>3 DEF vars, mem, disk
    <2>2. Types'
        BY <2>1 DEF IInv, Types
    <2>3. ASSUME NEW p \in Proc PROVE Place(p)'
        BY <2>1 DEF IInv, Place, Task, Owns, Locks, Handles, There, Before, Names, Now, Rings
    <2> QED BY <2>2, <2>3 DEF IInv
<1> QED BY <1>2, <1>3

LEMMA Invariant == Spec => []IInv
BY InitInv, IInvStep, PTL DEF Spec

-----------------------------------------------------------------------------
(* The results.                                                            *)

\* However the processes and their failures and deaths interleave, and whatever
\* the public keyrings do, a secret keyring and its fname.tmp are written by one
\* process at a time: it has the dot lock (OneWriter).
THEOREM SecretWriter == Spec => []OneWriter
<1>1. IInv => OneWriter
    <2> SUFFICES ASSUME IInv, NEW r \in Secret, NEW p \in Proc, NEW q \in Proc,
                        Copying(p, r), Copying(q, r)
                 PROVE  p = q
        BY DEF OneWriter
    <2>1. r \in locked[p] /\ r \in locked[q] /\ r \in Ring
        BY SecretAssumption DEF IInv, Place, Locks, Copying, Changing
    <2> QED BY <2>1 DEF IInv, Place, Owns
<1> QED BY <1>1, Invariant, PTL

\* keyring_lock follows no NULL handle of a secret keyring in its second pass
\* (HandlesMade).
THEOREM SecretHandles == Spec => []HandlesMade
<1>1. IInv => HandlesMade
    BY DEF IInv, Place, Handles, HandlesMade, NullHandle
<1> QED BY <1>1, Invariant, PTL

\* maybe_create_keyring empties no secret keyring that is there: what it has
\* tested under the lock still holds when it creates the file (CreatesOnlyMissing).
THEOREM SecretCreation == Spec => CreatesOnlyMissing
<1>1. IInv /\ [Next]_vars =>
        [\A p \in Proc : pc[p] = "bootmake" /\ pc'[p] = "bootdone"
                           /\ Now(p) \in Secret => file[Now(p)] = Absent]_vars
    BY DEF IInv, Place, There
<1> QED BY <1>1, Invariant, PTL DEF Spec, CreatesOnlyMissing

\* Processes that lock their keyrings in the same order never wait for each other,
\* although one may keep the lock of a public keyring that was missing when the
\* locks were given back: a public keyring is the first in the order, if there is
\* one (NoDeadlock; kr_names has the keyring registered last first, and the secret
\* ones are registered before the public ones).
PublicFirst ==
  /\ \A p, q \in Proc : KrNames[p] = KrNames[q]
  /\ \A p \in Proc : \A i \in 1 .. Len(KrNames[p]) : i > 1 => KrNames[p][i] \in Secret

THEOREM NoCycle == ASSUME PublicFirst PROVE Spec => []NoDeadlock
<1>1. IInv => NoDeadlock
    <2> SUFFICES ASSUME IInv, NEW p \in Proc, NEW q \in Proc, p # q,
                        WaitsFor(p, q), WaitsFor(q, p)
                 PROVE  FALSE
        BY DEF NoDeadlock
    <2>1. ASSUME NEW u \in Proc, NEW w \in Proc, WaitsFor(u, w), WaitsFor(w, u)
          PROVE  /\ pc[u] = "take" /\ owner[Now(u)] = w
                 /\ Now(u) \in Ring
        <3>1. Now(u) \in Ring /\ Now(w) \in Ring
            BY NowFacts DEF IInv
        <3>2. pc[u] # "bootlock"
            <4>1. pc[w] \in {"take", "bootlock"} /\ owner[Now(w)] = u
                BY <2>1 DEF WaitsFor
            <4>2. pc[u] = "bootlock" => owner[Now(w)] # u
                BY <3>1 DEF IInv, Place, Owns, Locks, Booting, Creating
            <4> QED BY <4>1, <4>2
        <3> QED BY <2>1, <3>1, <3>2 DEF WaitsFor
    <2>2. ASSUME NEW u \in Proc, NEW w \in Proc, u # w, WaitsFor(u, w), WaitsFor(w, u)
          PROVE  idx[u] > 1 => idx[u] < idx[w]
        <3> SUFFICES ASSUME idx[u] > 1 PROVE idx[u] < idx[w]
            OBVIOUS
        <3>1. /\ Names(u) = Names(w) /\ Now(u) = Names(w)[idx[u]] /\ Now(u) \in Secret
              /\ idx[u] \in 1 .. Len(Names(w)) /\ idx[w] \in 1 .. Len(Names(w))
            BY NowFacts DEF PublicFirst, Names, IInv, Types
        <3>2. pc[w] = "take" /\ owner[Now(u)] = w /\ Now(u) \in Ring
            BY <2>1, <2>2
        <3>3. Now(u) \in locked[w]
            BY <3>2 DEF IInv, Place, Owns, Creating
        <3>4. Now(u) \in Before(w)
            BY <3>1, <3>2, <3>3 DEF IInv, Place, Locks
        <3>5. PICK j \in 1 .. Len(Names(w)) : j < idx[w] /\ Now(u) = Names(w)[j]
            BY <3>4 DEF Before
        <3> QED BY <3>1, <3>5, NamesFacts
    <2>3. idx[p] \in Nat /\ idx[q] \in Nat /\ idx[p] >= 1 /\ idx[q] >= 1
        BY NamesFacts DEF IInv, Types
    <2>4. CASE idx[p] = 1 /\ idx[q] = 1
        <3>1. Now(p) = Now(q)
            BY <2>4, NowFacts DEF PublicFirst, Names, IInv
        <3> QED BY <2>1, <3>1
    <2>5. CASE idx[p] > 1 \/ idx[q] > 1
        BY <2>2, <2>3, <2>5
    <2> QED BY <2>3, <2>4, <2>5
<1> QED BY <1>1, Invariant, PTL

\* No transaction, however it ends, leaves a secret keyring locked.
THEOREM SecretReleased ==
  Spec => [](\A p \in Proc, r \in Secret : pc[p] \in Outside => owner[r] # p)
<1>1. IInv => \A p \in Proc, r \in Secret : pc[p] \in Outside => owner[r] # p
    <2> SUFFICES ASSUME IInv, NEW p \in Proc, NEW r \in Secret, pc[p] \in Outside
                 PROVE  owner[r] # p
        OBVIOUS
    <2>1. r \in Ring /\ r \notin locked[p] /\ pc[p] \notin Creating
        BY SecretAssumption DEF IInv, Place, Locks, Outside, Creating
    <2> QED BY <2>1 DEF IInv, Place, Owns
<1> QED BY <1>1, Invariant, PTL

-----------------------------------------------------------------------------
(* A process that is alone.  It changes no file while it is not copying, so*)
(* a public keyring whose lock it has kept stays missing.                  *)
Alone == \A p, q \in Proc : p = q

Left(p) ==
  /\ pc[p] \in Outside \cup {"make"} => \A r \in locked[p] : file[r] = Absent
  /\ pc[p] = "take" => \A r \in locked[p] : r \in Before(p) \/ file[r] = Absent
  /\ pc[p] = "unlock" => \A r \in locked[p] \cap Before(p) : file[r] = Absent

LEMMA LeftStep ==
  ASSUME IInv, NEW p \in Proc, Left(p),
         \/ Boot(p) \/ BootLock(p) \/ BootCheck(p) \/ BootMake(p) \/ BootDone(p)
         \/ Search(p) \/ Get(p) \/ Choose(p) \/ GiveUp(p)
         \/ MakeHandle(p) \/ MakeFails(p) \/ TakeSkip(p) \/ TakeLock(p) \/ TakeFails(p)
         \/ Unlock(p) \/ Release(p)
         \/ Access(p) \/ Open(p) \/ Write(p) \/ WriteFails(p)
         \/ Backup(p) \/ Rename(p) \/ RenameFails(p)
         \/ Die(p) \/ Start(p)
  PROVE  Left(p)'
<1> USE DEF Outside, Steps
<1>0. Types /\ Locks(p) /\ Now(p) \in Ring
    BY NowFacts DEF IInv, Place
<1>1. CASE Boot(p) \/ BootLock(p) \/ BootCheck(p) \/ BootMake(p) \/ BootDone(p)
           \/ Die(p) \/ Start(p)
    <2>1. locked'[p] = {}
        BY <1>0, <1>1 DEF Boot, BootLock, BootCheck, BootMake, BootDone, Die, Start, mem,
           Types, Locks, Booting, Creating
    <2> QED BY <2>1 DEF Left
<1>2. CASE Search(p) \/ Get(p) \/ Choose(p) \/ GiveUp(p) \/ Release(p)
    <2>1. UNCHANGED <<locked, file>> /\ pc[p] \in Outside
        BY <1>2 DEF Search, Get, Choose, GiveUp, Release, mem, disk
    <2>2. PICK s \in Outside \cup {"make"} : Goto(p, s)
        BY <1>2 DEF Search, Get, Choose, GiveUp, Release
    <2>3. pc'[p] \in Outside \cup {"make"}
        BY <1>0, <2>2 DEF Goto, Types
    <2> QED BY <2>1, <2>3 DEF Left
<1>3. CASE Access(p) \/ Open(p) \/ Write(p) \/ WriteFails(p)
           \/ Backup(p) \/ Rename(p) \/ RenameFails(p)
    <2>1. idx[p] = 1 /\ idx' = idx
        BY <1>0, <1>3 DEF Access, Open, Write, WriteFails, Backup, Rename, RenameFails,
           Locks, Looping, Booting, Creating
    <2>2. pc'[p] \in Changing \cup {"unlock"}
        BY <1>0, <1>3 DEF Access, Open, Write, WriteFails, Backup, Rename, RenameFails,
           Goto, Types, Changing
    <2>3. Before(p)' = {}
        BY <2>1, FirstBefore DEF Before
    <2> QED BY <2>2, <2>3 DEF Left, Changing
<1>4. CASE MakeHandle(p) \/ MakeFails(p)
    <2>1. pc[p] = "make" /\ UNCHANGED <<locked, file>>
        BY <1>4 DEF MakeHandle, MakeFails, mem, disk
    <2>2. PICK l \in {"unlock", "take"} :
             l = IF job'[p].kind = "none" THEN "unlock" ELSE "take"
        OBVIOUS
    <2>3. Step(p, l)
        BY <1>4, <2>2 DEF MakeHandle, MakeFails, AfterMake
    <2>4. pc'[p] = "make" \/ (pc'[p] = l /\ Before(p)' = {})
        BY <1>0, <2>1, <2>3, StepFacts DEF Types
    <2> QED BY <2>1, <2>2, <2>4 DEF Left
<1>5. CASE TakeSkip(p) \/ TakeLock(p) \/ TakeFails(p)
    <2>1. /\ pc[p] = "take" /\ file' = file
          /\ locked'[p] \subseteq locked[p] \cup {Now(p)}
        BY <1>0, <1>5 DEF TakeSkip, TakeLock, TakeFails, mem, disk, Types
    <2>2. PICK l \in {"unlock", "access"} :
             l = IF job'[p].kind = "none" THEN "unlock" ELSE "access"
        OBVIOUS
    <2>3. Step(p, l)
        BY <1>5, <2>2 DEF TakeSkip, TakeLock, TakeFails, AfterTake
    <2>4. \/ pc'[p] = "take" /\ Before(p)' = Before(p) \cup {Now(p)}
          \/ pc'[p] = l /\ Before(p)' = {}
        BY <1>0, <2>1, <2>3, StepFacts DEF Types
    <2> QED BY <2>1, <2>2, <2>4 DEF Left
<1>6. CASE Unlock(p)
    <2>1. /\ pc[p] = "unlock" /\ file' = file /\ Step(p, "release")
          /\ locked'[p] \subseteq locked[p]
          /\ Now(p) \in locked'[p] => file[Now(p)] = Absent
        BY <1>0, <1>6 DEF Unlock, IsWritable, Types
    <2>2. \/ pc'[p] = "unlock" /\ Before(p)' = Before(p) \cup {Now(p)}
          \/ pc'[p] = "release" /\ Ring \subseteq Before(p) \cup {Now(p)}
        BY <1>0, <2>1, StepFacts DEF Types
    <2>3. locked[p] \subseteq Ring
        BY <1>0 DEF Types
    <2> QED BY <2>1, <2>2, <2>3 DEF Left
<1> QED BY <1>1, <1>2, <1>3, <1>4, <1>5, <1>6

\* A process that works alone has the lock of a keyring between its transactions
\* only while that keyring is missing, whatever failed before (NoLeakedLock).
THEOREM LocksReturned == ASSUME Alone PROVE Spec => []NoLeakedLock
<1>1. Init => \A p \in Proc : Left(p)
    BY DEF Init, Left, Outside
<1>2. IInv /\ (\A p \in Proc : Left(p)) /\ [Next]_vars => (\A p \in Proc : Left(p))'
    <2> SUFFICES ASSUME IInv, \A p \in Proc : Left(p), [Next]_vars, NEW p \in Proc
                 PROVE  Left(p)'
        OBVIOUS
    <2>1. CASE Next
        <3>1. PICK q \in Proc :
                 \/ Boot(q) \/ BootLock(q) \/ BootCheck(q) \/ BootMake(q) \/ BootDone(q)
                 \/ Search(q) \/ Get(q) \/ Choose(q) \/ GiveUp(q)
                 \/ MakeHandle(q) \/ MakeFails(q) \/ TakeSkip(q) \/ TakeLock(q) \/ TakeFails(q)
                 \/ Unlock(q) \/ Release(q)
                 \/ Access(q) \/ Open(q) \/ Write(q) \/ WriteFails(q)
                 \/ Backup(q) \/ Rename(q) \/ RenameFails(q)
                 \/ Die(q) \/ Start(q)
            BY <2>1 DEF Next
        <3>2. p = q
            BY DEF Alone
        <3> QED BY <3>1, <3>2, LeftStep
    <2>2. CASE UNCHANGED vars
        BY <2>2 DEF vars, mem, disk, Left, Before, Names
    <2> QED BY <2>1, <2>2
<1>3. IInv /\ (\A p \in Proc : Left(p)) => NoLeakedLock
    <2> SUFFICES ASSUME IInv, \A p \in Proc : Left(p), NEW p \in Proc, NEW r \in Ring,
                        owner[r] = p, pc[p] \in {"idle", "found", "missing", "got"}
                 PROVE  file[r] = Absent
        BY DEF NoLeakedLock
    <2>1. r \in locked[p]
        BY DEF IInv, Place, Owns, Creating
    <2> QED BY <2>1 DEF Left, Outside
<1> QED BY <1>1, <1>2, <1>3, Invariant, PTL DEF Spec

-----------------------------------------------------------------------------
(***************************************************************************)
(* Proofs about Keyring: what is in the files.  One process that works     *)
(* alone, on any keyrings with any keyblocks, loses none and finds all.    *)
(***************************************************************************)

(* Looking for the first packet of some kind.                              *)
LEMMA LeastExists ==
  ASSUME NEW S \in SUBSET Nat, S # {}
  PROVE  \E x \in S : \A y \in S : x <= y
<1> DEFINE R == {ss \in Nat \X Nat : ss[1] < ss[2]}
<1>1. IsWellFoundedOn(R, Nat)
    BY NatLessThanWellFounded DEF OpToRel
<1>2. PICK x \in S : \A y \in S : ~(<<y, x>> \in R)
    BY <1>1, WFMin
<1>3. ASSUME NEW y \in S PROVE x <= y
    <2>1. x \in Nat /\ y \in Nat /\ ~(<<y, x>> \in R)
        BY <1>2
    <2>2. <<y, x>> \in R <=> y < x
        BY <2>1
    <2> QED BY <2>1, <2>2
<1> QED BY <1>3

LEMMA MinFacts ==
  ASSUME NEW S \in SUBSET Nat, S # {}
  PROVE  Min(S) \in S /\ \A y \in S : Min(S) <= y
<1>1. \E x \in S : \A y \in S : x <= y
    BY LeastExists
<1> QED BY <1>1 DEF Min

\* SelectInSeq for the two tests of the model.
LEMMA AtFacts ==
  ASSUME NEW c, Len(c) \in Nat, NEW k
  PROVE  \/ At(c, k) = 0 /\ \A j \in 1 .. Len(c) : c[j] # Primary(k)
         \/ At(c, k) \in 1 .. Len(c) /\ c[At(c, k)] = Primary(k)
<1> DEFINE I == {i \in 1 .. Len(c) : c[i] = Primary(k)}
<1>1. At(c, k) = IF I # {} THEN Min(I) ELSE 0
    BY DEF At, SelectInSeq
<1>2. I \in SUBSET Nat
    OBVIOUS
<1>3. I # {} => Min(I) \in I
    <2> HIDE DEF I
    <2> QED BY <1>2, MinFacts
<1> QED BY <1>1, <1>3

LEMMA NextFacts ==
  ASSUME NEW s, Len(s) \in Nat, NEW n, n = SelectInSeq(s, LAMBDA packet : packet[2] = 1)
  PROVE  \/ n = 0 /\ \A j \in 1 .. Len(s) : s[j][2] # 1
         \/ n \in 1 .. Len(s) /\ s[n][2] = 1 /\ \A j \in 1 .. Len(s) : s[j][2] = 1 => n <= j
<1> DEFINE I == {i \in 1 .. Len(s) : s[i][2] = 1}
<1>1. n = IF I # {} THEN Min(I) ELSE 0
    BY DEF SelectInSeq
<1>2. I \in SUBSET Nat
    OBVIOUS
<1>3. I # {} => Min(I) \in I /\ \A j \in I : Min(I) <= j
    <2> HIDE DEF I
    <2> QED BY <1>2, MinFacts
<1> QED BY <1>1, <1>3

LEMMA KeptFacts ==
  ASSUME NEW s, Len(s) \in Nat
  PROVE  \/ Kept(s) = 0 /\ \A j \in 1 .. Len(s) : s[j] = Absent
         \/ Kept(s) \in 1 .. Len(s) /\ s[Kept(s)] # Absent
<1> DEFINE I == {i \in 1 .. Len(s) : s[i] # Absent}
<1>1. Kept(s) = IF I # {} THEN Min(I) ELSE 0
    BY DEF Kept, SelectInSeq
<1>2. I \in SUBSET Nat
    OBVIOUS
<1>3. I # {} => Min(I) \in I
    <2> HIDE DEF I
    <2> QED BY <1>2, MinFacts
<1> QED BY <1>1, <1>3

LEMMA SlotFacts ==
  ASSUME NEW s, Len(s) \in Nat
  PROVE  Slot(s) = 0 \/ Slot(s) \in 1 .. Len(s)
<1> DEFINE I == {i \in 1 .. Len(s) : s[i] = Absent}
<1>1. Slot(s) = IF I # {} THEN Min(I) ELSE 0
    BY DEF Slot, SelectInSeq
<1>2. I \in SUBSET Nat
    OBVIOUS
<1>3. I # {} => Min(I) \in I
    <2> HIDE DEF I
    <2> QED BY <1>2, MinFacts
<1> QED BY <1>1, <1>3

-----------------------------------------------------------------------------
(* Whole contents: each keyblock is one stretch of the file.               *)
Stretch(c, k, a, n) ==
  /\ a \in 0 .. Len(c) /\ a + n <= Len(c)
  /\ \A i \in 1 .. Len(c) :
       IF i \in a + 1 .. a + n THEN c[i] = <<k, i - a>> ELSE c[i][1] # k
Keyblocks == [Key -> Nat]

LEMMA WholeDef ==
  ASSUME NEW c, NEW L
  PROVE  Whole(c, L) <=> /\ \A i \in 1 .. Len(c) : c[i][1] \in Key
                         /\ \A k \in Key : \E a : Stretch(c, k, a, L[k])
BY DEF Whole, Stretch

LEMMA StretchAt ==
  ASSUME NEW c, NEW k, NEW n, NEW a, Stretch(c, k, a, n), NEW i \in 1 .. Len(c)
  PROVE  /\ c[i][1] = k => i \in a + 1 .. a + n
         /\ i \in a + 1 .. a + n => c[i] = <<k, i - a>> /\ c[i][1] = k
BY DEF Stretch

LEMMA StretchStart ==
  ASSUME NEW c, Len(c) \in Nat, NEW k, NEW n \in Nat, NEW a, Stretch(c, k, a, n),
         NEW off \in Nat, off + 1 <= Len(c), c[off + 1] = Primary(k)
  PROVE  off = a /\ n # 0
<1>1. a \in Nat
    BY DEF Stretch
<1>2. PICK i \in 1 .. Len(c) : i = off + 1
    OBVIOUS
<1>3. c[i][1] = k /\ c[i][2] = 1
    BY <1>2 DEF Primary
<1>4. i \in a + 1 .. a + n /\ c[i] = <<k, i - a>>
    BY <1>3 DEF Stretch
<1>5. i - a = 1
    BY <1>3, <1>4
<1> QED BY <1>1, <1>2, <1>4, <1>5

LEMMA FoundFacts ==
  ASSUME NEW c, Len(c) \in Nat, NEW L \in Keyblocks, Whole(c, L), NEW k \in Key,
         NEW off \in Nat, off + 1 <= Len(c), c[off + 1] = Primary(k)
  PROVE  Stretch(c, k, off, L[k]) /\ L[k] # 0
<1>1. PICK a : Stretch(c, k, a, L[k])
    BY WholeDef
<1>2. off = a /\ L[k] # 0
    BY <1>1, StretchStart DEF Keyblocks
<1> QED BY <1>1, <1>2

\* A search finds the primary key packet of every keyblock that is there.
LEMMA AtWhole ==
  ASSUME NEW c, Len(c) \in Nat, NEW L \in Keyblocks, Whole(c, L), NEW k \in Key
  PROVE  /\ At(c, k) = 0 => L[k] = 0
         /\ At(c, k) # 0 => /\ At(c, k) \in 1 .. Len(c) /\ c[At(c, k)] = Primary(k)
                            /\ L[k] # 0
<1>1. PICK a : Stretch(c, k, a, L[k])
    BY WholeDef
<1>2. L[k] \in Nat /\ a \in Nat
    BY <1>1 DEF Keyblocks, Stretch
<1>3. ASSUME L[k] # 0 PROVE At(c, k) # 0
    <2>1. a + 1 \in 1 .. Len(c) /\ a + 1 \in a + 1 .. a + L[k]
        BY <1>1, <1>2, <1>3 DEF Stretch
    <2>2. c[a + 1] = <<k, a + 1 - a>>
        BY <1>1, <2>1 DEF Stretch
    <2>3. c[a + 1] = Primary(k)
        BY <1>2, <2>2 DEF Primary
    <2> QED BY <2>1, <2>3, AtFacts
<1>4. ASSUME At(c, k) # 0
      PROVE  At(c, k) \in 1 .. Len(c) /\ c[At(c, k)] = Primary(k) /\ L[k] # 0
    <2>1. At(c, k) \in 1 .. Len(c) /\ c[At(c, k)] = Primary(k)
        BY <1>4, AtFacts
    <2>2. PICK off \in Nat : off + 1 = At(c, k)
        BY <2>1
    <2>3. off + 1 <= Len(c) /\ c[off + 1] = Primary(k)
        BY <2>1, <2>2
    <2>4. L[k] # 0
        BY <2>3, FoundFacts
    <2> QED BY <2>1, <2>4
<1> QED BY <1>3, <1>4

\* The packets of two keyblocks do not mix: behind the last one of a keyblock comes
\* a primary key packet.
LEMMA NextStarts ==
  ASSUME NEW c, Len(c) \in Nat, NEW L \in Keyblocks, Whole(c, L), NEW k \in Key,
         NEW off, Stretch(c, k, off, L[k]), L[k] # 0, off + L[k] < Len(c)
  PROVE  c[off + L[k] + 1][2] = 1
<1> DEFINE q == off + L[k]
<1>1. L[k] \in Nat /\ off \in Nat /\ q \in 1 .. Len(c) /\ q + 1 \in 1 .. Len(c)
    BY DEF Keyblocks, Stretch
<1>2. c[q][1] = k
    <2>1. q \in off + 1 .. off + L[k]
        BY <1>1
    <2>2. c[q] = <<k, q - off>>
        BY <1>1, <2>1 DEF Stretch
    <2> QED BY <2>2
<1>3. PICK m \in Key : m = c[q + 1][1]
    BY <1>1, WholeDef
<1>4. m # k
    <2>1. q + 1 \notin off + 1 .. off + L[k]
        BY <1>1
    <2> QED BY <1>1, <1>3, <2>1 DEF Stretch
<1>5. PICK a : Stretch(c, m, a, L[m])
    BY WholeDef
<1>6. a \in Nat /\ L[m] \in Nat
    BY <1>5 DEF Stretch, Keyblocks
<1> HIDE DEF q
<1>7. q + 1 \in a + 1 .. a + L[m] /\ c[q + 1] = <<m, q + 1 - a>>
    <2>1. PICK j \in 1 .. Len(c) : j = q + 1
        BY <1>1
    <2>2. c[j][1] = m
        BY <1>3, <2>1
    <2>3. j \in a + 1 .. a + L[m]
        BY <1>5, <1>6, <2>2, StretchAt
    <2>4. c[j] = <<m, j - a>>
        BY <1>5, <1>6, <2>3, StretchAt
    <2> QED BY <1>1, <1>6, <2>1, <2>3, <2>4
<1>8. q \notin a + 1 .. a + L[m]
    BY <1>1, <1>2, <1>4, <1>5, StretchAt
<1>9. q + 1 - a = 1
    BY <1>1, <1>6, <1>7, <1>8
<1>10. c[q + 1][2] = 1
    BY <1>7, <1>9
<1> QED BY <1>10 DEF q

\* Reading up to the next primary key packet gives the whole keyblock.
LEMMA RunWhole ==
  ASSUME NEW c \in Contents, NEW L \in Keyblocks, Whole(c, L), NEW k \in Key,
         NEW off \in Nat, off + 1 <= Len(c), c[off + 1] = Primary(k)
  PROVE  RunFrom(c, off) = L[k]
<1> DEFINE from == SubSeq(c, off + 2, Len(c))
<1>1. PICK next : next = SelectInSeq(from, LAMBDA packet : packet[2] = 1)
    OBVIOUS
<1>2. RunFrom(c, off) = IF next = 0 THEN Len(c) - off ELSE next
    BY <1>1 DEF RunFrom
<1>3. Len(c) \in Nat /\ L[k] \in Nat
    BY DEF Contents, Keyblocks
<1>4. Stretch(c, k, off, L[k]) /\ L[k] # 0
    BY <1>3, FoundFacts
<1>5. /\ Len(from) = Len(c) - (off + 1) /\ Len(from) \in Nat
      /\ \A j \in 1 .. Len(from) : from[j] = c[off + 1 + j]
    <2>1. \A i \in off + 2 .. Len(c) : c[i] \in Key \X Nat
        BY <1>3, ElementOfSeq DEF Contents
    <2>2. /\ Len(from) = IF off + 2 <= Len(c) THEN Len(c) - (off + 2) + 1 ELSE 0
          /\ \A j \in 1 .. Len(c) - (off + 2) + 1 : from[j] = c[off + 2 + j - 1]
        BY <1>3, <2>1, SubSeqProperties
    <2>3. Len(from) = Len(c) - (off + 1)
        BY <1>3, <2>2
    <2>4. ASSUME NEW j \in 1 .. Len(from) PROVE from[j] = c[off + 1 + j]
        <3>1. j \in 1 .. Len(c) - (off + 2) + 1 /\ off + 2 + j - 1 = off + 1 + j
            BY <1>3, <2>3
        <3> QED BY <2>2, <3>1
    <2> QED BY <1>3, <2>3, <2>4
<1>6. \/ next = 0 /\ \A j \in 1 .. Len(from) : from[j][2] # 1
      \/ next \in 1 .. Len(from) /\ from[next][2] = 1
         /\ \A j \in 1 .. Len(from) : from[j][2] = 1 => next <= j
    <2> HIDE DEF from
    <2> QED BY <1>1, <1>5, NextFacts
<1> HIDE DEF from
<1>7. off + L[k] <= Len(c)
    BY <1>4 DEF Stretch
<1>8. ASSUME L[k] \in 1 .. Len(from) PROVE from[L[k]][2] = 1
    <2>1. off + L[k] < Len(c)
        BY <1>3, <1>5, <1>8
    <2>2. c[off + L[k] + 1][2] = 1
        BY <1>3, <1>4, <2>1, NextStarts
    <2>3. off + 1 + L[k] = off + L[k] + 1
        BY <1>3
    <2> QED BY <1>5, <1>8, <2>2, <2>3
<1>9. ASSUME NEW j \in 1 .. Len(from), j < L[k] PROVE from[j][2] # 1
    <2>1. off + 1 + j \in 1 .. Len(c) /\ off + 1 + j \in off + 1 .. off + L[k]
        BY <1>3, <1>5, <1>9
    <2>2. c[off + 1 + j] = <<k, off + 1 + j - off>>
        BY <1>4, <2>1 DEF Stretch
    <2>3. off + 1 + j - off = j + 1
        BY <1>3
    <2> QED BY <1>5, <1>9, <2>2, <2>3
<1>10. CASE L[k] \in 1 .. Len(from)
    BY <1>2, <1>3, <1>6, <1>8, <1>9, <1>10
<1>11. CASE L[k] \notin 1 .. Len(from)
    <2>1. L[k] = Len(from) + 1
        BY <1>3, <1>4, <1>5, <1>7, <1>11
    <2>2. next = 0
        BY <1>3, <1>5, <1>6, <1>9, <2>1
    <2> QED BY <1>2, <1>3, <1>5, <2>1, <2>2
<1> QED BY <1>10, <1>11

-----------------------------------------------------------------------------
(* What a transaction writes.                                              *)
\* d is c with len packets of k in the place of the n behind the first off.
Spliced(d, c, off, n, k, len) ==
  /\ Len(d) = off + len + (Len(c) - (off + n))
  /\ \A i \in 1 .. Len(d) :
       /\ i <= off => d[i] = c[i]
       /\ i \in off + 1 .. off + len => d[i] = <<k, i - off>>
       /\ \A j \in off + n + 1 .. Len(c) : i + (off + n) = j + (off + len) => d[i] = c[j]

LEMMA ReplacedFacts ==
  ASSUME NEW c \in Contents, NEW off \in Nat, NEW n \in Nat, off + n <= Len(c),
         NEW k \in Key, NEW len \in Nat, NEW d, d = Replaced(c, off, n, Block(k, len))
  PROVE  d \in Contents /\ Len(d) \in Nat /\ Spliced(d, c, off, n, k, len)
<1> DEFINE b == Block(k, len)
           before == SubSeq(c, 1, off)
           after == SubSeq(c, off + n + 1, Len(c))
           rest == Len(c) - (off + n)
<1>0. /\ Len(c) \in Nat /\ rest \in Nat /\ off + n <= Len(c) /\ off <= Len(c)
      /\ rest = Len(c) - (off + n)
    BY LenProperties DEF Contents
<1> HIDE DEF rest
<1>1. d = (before \o b) \o after
    <2>1. ~(off + n > Len(c))
        BY <1>0
    <2> QED BY <2>1, Zenon DEF Replaced
<1>2. \A i \in 1 .. Len(c) : c[i] \in Key \X Nat
    BY ElementOfSeq DEF Contents
<1>3. /\ before \in Contents /\ Len(before) = off
      /\ \A i \in 1 .. off : before[i] = c[i]
    <2>1. \A i \in 1 .. off : c[i] \in Key \X Nat
        BY <1>0, <1>2
    <2>2. /\ before \in Contents
          /\ Len(before) = IF 1 <= off THEN off - 1 + 1 ELSE 0
          /\ \A i \in 1 .. off - 1 + 1 : before[i] = c[1 + i - 1]
        BY <2>1, SubSeqProperties DEF Contents
    <2>3. \A i \in 1 .. off : i \in 1 .. off - 1 + 1 /\ 1 + i - 1 = i
        OBVIOUS
    <2> QED BY <2>2, <2>3
<1>4. /\ after \in Contents /\ Len(after) = rest
      /\ \A i \in 1 .. rest : after[i] = c[i + (off + n)]
    <2>1. \A i \in off + n + 1 .. Len(c) : c[i] \in Key \X Nat
        BY <1>0, <1>2
    <2>2. /\ after \in Contents
          /\ Len(after) = IF off + n + 1 <= Len(c) THEN Len(c) - (off + n + 1) + 1 ELSE 0
          /\ \A i \in 1 .. Len(c) - (off + n + 1) + 1 : after[i] = c[off + n + 1 + i - 1]
        BY <1>0, <2>1, SubSeqProperties DEF Contents
    <2>3. \A i \in 1 .. rest : /\ i \in 1 .. Len(c) - (off + n + 1) + 1
                               /\ off + n + 1 + i - 1 = i + (off + n)
        BY <1>0
    <2>4. Len(after) = rest
        BY <1>0, <2>2
    <2> QED BY <2>2, <2>3, <2>4
<1>5. b \in Contents /\ Len(b) = len /\ \A i \in 1 .. len : b[i] = <<k, i>>
    BY BlockFacts
<1> HIDE DEF before, after, b
<1>6. /\ before \o b \in Contents /\ Len(before \o b) = off + len
      /\ \A i \in 1 .. off + len : (before \o b)[i] = IF i <= off THEN before[i] ELSE b[i - off]
    <2>1. /\ before \o b \in Contents /\ Len(before \o b) = Len(before) + Len(b)
          /\ \A i \in 1 .. Len(before) + Len(b) :
               (before \o b)[i] = IF i <= Len(before) THEN before[i] ELSE b[i - Len(before)]
        BY <1>3, <1>5, ConcatProperties, Zenon DEF Contents
    <2> QED BY <1>3, <1>5, <2>1, Zenon
<1>7. /\ d \in Contents /\ Len(d) = off + len + rest
      /\ \A i \in 1 .. off + len + rest :
           d[i] = IF i <= off + len THEN (before \o b)[i] ELSE after[i - (off + len)]
    <2>1. ASSUME NEW h \in Contents
          PROVE  /\ h \o after \in Contents /\ Len(h \o after) = Len(h) + Len(after)
                 /\ \A i \in 1 .. Len(h) + Len(after) :
                      (h \o after)[i] = IF i <= Len(h) THEN h[i] ELSE after[i - Len(h)]
        BY <1>4, ConcatProperties, Zenon DEF Contents
    <2>2. PICK h \in Contents : h = before \o b
        BY <1>6
    <2>3. Len(h) = off + len /\ Len(after) = rest /\ d = h \o after
        BY <1>1, <1>4, <1>6, <2>2, Zenon
    <2>4. /\ d \in Contents /\ Len(d) = Len(h) + Len(after)
          /\ \A i \in 1 .. Len(h) + Len(after) :
               d[i] = IF i <= Len(h) THEN h[i] ELSE after[i - Len(h)]
        BY <2>1, <2>3, Zenon
    <2> QED BY <2>2, <2>3, <2>4, Zenon
<1>8. ASSUME NEW i \in 1 .. Len(d), i <= off PROVE d[i] = c[i]
    <2>1. /\ i \in 1 .. off /\ i \in 1 .. off + len /\ i <= off + len
          /\ i \in 1 .. off + len + rest
        BY <1>0, <1>8
    <2>2. d[i] = (before \o b)[i]
        BY <1>7, <2>1
    <2>3. (before \o b)[i] = before[i]
        BY <1>6, <1>8, <2>1
    <2> QED BY <1>3, <2>1, <2>2, <2>3
<1>9. ASSUME NEW i \in 1 .. Len(d), i \in off + 1 .. off + len
      PROVE  d[i] = <<k, i - off>>
    <2>1. /\ i - off \in 1 .. len /\ i \in 1 .. off + len /\ ~(i <= off)
          /\ i <= off + len /\ i \in 1 .. off + len + rest
        BY <1>0, <1>9
    <2>2. d[i] = (before \o b)[i]
        BY <1>7, <2>1
    <2>3. (before \o b)[i] = b[i - off]
        BY <1>6, <2>1
    <2> QED BY <1>5, <2>1, <2>2, <2>3
<1>10. ASSUME NEW i \in 1 .. Len(d), NEW j \in off + n + 1 .. Len(c),
              i + (off + n) = j + (off + len)
       PROVE  d[i] = c[j]
    <2>1. PICK h \in 1 .. rest : h + (off + n) = j
        <3>1. j - (off + n) \in 1 .. rest /\ (j - (off + n)) + (off + n) = j
            BY <1>0
        <3> QED BY <3>1
    <2>2. i - (off + len) = h /\ ~(i <= off + len) /\ i \in 1 .. off + len + rest
        BY <1>0, <1>7, <1>10, <2>1
    <2>3. d[i] = after[h]
        BY <1>7, <2>2
    <2> QED BY <1>4, <2>1, <2>3
<1>11. Len(d) \in Nat
    BY <1>0, <1>7
<1>12. Len(d) = off + len + (Len(c) - (off + n))
    BY <1>0, <1>7
<1> QED BY <1>7, <1>8, <1>9, <1>10, <1>11, <1>12, Zenon DEF Spliced

\* Where a packet of the new content comes from.
From(i, d, c, off, n, k, len) ==
  \/ i \in off + 1 .. off + len /\ d[i] = <<k, i - off>>
  \/ i <= off /\ i \in 1 .. Len(c) /\ d[i] = c[i]
  \/ \E j \in 1 .. Len(c) : /\ j > off + n /\ i + (off + n) = j + (off + len)
                           /\ d[i] = c[j]

LEMMA Origin ==
  ASSUME NEW c, Len(c) \in Nat, NEW d, Len(d) \in Nat, NEW off \in Nat, NEW n \in Nat,
         NEW k, NEW len \in Nat, Spliced(d, c, off, n, k, len), off + n <= Len(c),
         NEW i \in 1 .. Len(d)
  PROVE  From(i, d, c, off, n, k, len)
<1>1. CASE i <= off
    BY <1>1 DEF Spliced, From
<1>2. CASE i \in off + 1 .. off + len
    BY <1>2 DEF Spliced, From
<1>3. CASE off + len < i
    <2>1. Len(d) = off + len + (Len(c) - (off + n))
        BY DEF Spliced
    <2>2. PICK j \in off + n + 1 .. Len(c) : i + (off + n) = j + (off + len)
        <3>1. (i - (off + len)) + (off + n) \in off + n + 1 .. Len(c)
            BY <1>3, <2>1
        <3>2. i + (off + n) = ((i - (off + len)) + (off + n)) + (off + len)
            OBVIOUS
        <3> QED BY <3>1, <3>2
    <2>3. d[i] = c[j]
        BY <2>2 DEF Spliced
    <2>4. j \in 1 .. Len(c) /\ j > off + n
        OBVIOUS
    <2> QED BY <2>2, <2>3, <2>4 DEF From
<1> QED BY <1>1, <1>2, <1>3

LEMMA NewStretch ==
  ASSUME NEW c, Len(c) \in Nat, NEW d, Len(d) \in Nat, NEW off \in Nat, NEW n \in Nat,
         NEW k, NEW len \in Nat, Spliced(d, c, off, n, k, len), Stretch(c, k, off, n)
  PROVE  Stretch(d, k, off, len)
<1>1. off + n <= Len(c)
    BY DEF Stretch
<1>2. off \in 0 .. Len(d) /\ off + len <= Len(d)
    BY <1>1 DEF Spliced
<1>3. ASSUME NEW i \in 1 .. Len(d)
      PROVE  IF i \in off + 1 .. off + len THEN d[i] = <<k, i - off>> ELSE d[i][1] # k
    <2>1. CASE i \in off + 1 .. off + len
        BY <2>1 DEF Spliced
    <2>2. CASE i <= off /\ i \in 1 .. Len(c) /\ d[i] = c[i]
        <3>1. i \notin off + 1 .. off + n /\ i \notin off + 1 .. off + len
            BY <2>2
        <3> QED BY <2>2, <3>1 DEF Stretch
    <2>3. ASSUME NEW j \in 1 .. Len(c), j > off + n, i + (off + n) = j + (off + len),
                 d[i] = c[j]
          PROVE  i \notin off + 1 .. off + len /\ d[i][1] # k
        <3>1. j \notin off + 1 .. off + n /\ i \notin off + 1 .. off + len
            BY <2>3
        <3> QED BY <2>3, <3>1 DEF Stretch
    <2>4. From(i, d, c, off, n, k, len)
        BY <1>1, Origin
    <2> QED BY <2>1, <2>2, <2>3, <2>4 DEF From
<1> QED BY <1>2, <1>3 DEF Stretch

\* The packets of another key are before or behind those of k.
LEMMA Apart ==
  ASSUME NEW c, Len(c) \in Nat, NEW off \in Nat, NEW n \in Nat, n # 0, NEW a \in Nat,
         NEW w \in Nat, NEW k, NEW m, m # k, Stretch(c, k, off, n), Stretch(c, m, a, w)
  PROVE  w = 0 \/ a + w <= off \/ off + n <= a
<1>1. SUFFICES ASSUME w # 0, a + w > off, off + n > a PROVE FALSE
    OBVIOUS
<1>2. off + n <= Len(c) /\ a + w <= Len(c)
    BY DEF Stretch
<1>3. PICK q \in 1 .. Len(c) : q \in off + 1 .. off + n /\ q \in a + 1 .. a + w
    <2>1. CASE a < off
        <3>1. off + 1 \in 1 .. Len(c) /\ off + 1 \in off + 1 .. off + n
              /\ off + 1 \in a + 1 .. a + w
            BY <1>1, <1>2, <2>1
        <3> QED BY <3>1
    <2>2. CASE ~(a < off)
        <3>1. a + 1 \in 1 .. Len(c) /\ a + 1 \in off + 1 .. off + n
              /\ a + 1 \in a + 1 .. a + w
            BY <1>1, <1>2, <2>2
        <3> QED BY <3>1
    <2> QED BY <2>1, <2>2
<1>4. c[q] = <<k, q - off>> /\ c[q] = <<m, q - a>>
    BY <1>3 DEF Stretch
<1> QED BY <1>4

LEMMA OtherStretch ==
  ASSUME NEW c, Len(c) \in Nat, NEW d, Len(d) \in Nat, NEW off \in Nat, NEW n \in Nat,
         NEW k, NEW len \in Nat, Spliced(d, c, off, n, k, len), off + n <= Len(c),
         NEW m, m # k, NEW a \in Nat, NEW w \in Nat, Stretch(c, m, a, w),
         w = 0 \/ a + w <= off \/ off + n <= a
  PROVE  \E e : Stretch(d, m, e, w)
<1>0. a + w <= Len(c) /\ Len(d) = off + len + (Len(c) - (off + n))
    BY DEF Stretch, Spliced
<1>1. CASE w = 0
    <2>1. ASSUME NEW i \in 1 .. Len(c) PROVE c[i][1] # m
        <3>1. i \notin a + 1 .. a + w
            BY <1>1
        <3> QED BY <3>1 DEF Stretch
    <2>2. ASSUME NEW i \in 1 .. Len(d) PROVE d[i][1] # m
        <3>1. d[i] = <<k, i - off>> => d[i][1] # m
            OBVIOUS
        <3>2. From(i, d, c, off, n, k, len)
            BY Origin
        <3> QED BY <2>1, <3>1, <3>2 DEF From
    <2>3. Stretch(d, m, 0, w)
        BY <1>1, <2>2 DEF Stretch
    <2> QED BY <2>3
<1>2. CASE a + w <= off
    <2>1. a \in 0 .. Len(d) /\ a + w <= Len(d)
        BY <1>0, <1>2
    <2>2. ASSUME NEW i \in 1 .. Len(d)
          PROVE  IF i \in a + 1 .. a + w THEN d[i] = <<m, i - a>> ELSE d[i][1] # m
        <3>1. CASE i \in 1 .. Len(c) /\ d[i] = c[i]
            BY <3>1 DEF Stretch
        <3>2. CASE i \in off + 1 .. off + len /\ d[i] = <<k, i - off>>
            <4>1. i \notin a + 1 .. a + w
                BY <1>2, <3>2
            <4>2. d[i][1] = k
                BY <3>2
            <4> QED BY <4>1, <4>2
        <3>3. ASSUME NEW j \in 1 .. Len(c), j > off + n, i + (off + n) = j + (off + len),
                     d[i] = c[j]
              PROVE  i \notin a + 1 .. a + w /\ d[i][1] # m
            <4>1. j \notin a + 1 .. a + w
                BY <1>2, <3>3
            <4>2. i > off
                BY <3>3
            <4>3. i \notin a + 1 .. a + w
                BY <1>2, <4>2
            <4> QED BY <3>3, <4>1, <4>3 DEF Stretch
        <3>4. From(i, d, c, off, n, k, len)
            BY Origin
        <3> QED BY <3>1, <3>2, <3>3, <3>4 DEF From
    <2>3. Stretch(d, m, a, w)
        BY <2>1, <2>2 DEF Stretch
    <2> QED BY <2>3
<1>3. CASE off + n <= a
    <2>1. PICK e \in Nat : e + (off + n) = a + (off + len)
        <3>1. /\ (a - (off + n)) + (off + len) \in Nat
              /\ ((a - (off + n)) + (off + len)) + (off + n) = a + (off + len)
            BY <1>3
        <3> QED BY <3>1
    <2>2. e \in 0 .. Len(d) /\ e + w <= Len(d) /\ off + len <= e
        BY <1>0, <1>3, <2>1
    <2>3. ASSUME NEW i \in 1 .. Len(d)
          PROVE  IF i \in e + 1 .. e + w THEN d[i] = <<m, i - e>> ELSE d[i][1] # m
        <3>1. CASE i <= off /\ i \in 1 .. Len(c) /\ d[i] = c[i]
            <4>1. i \notin a + 1 .. a + w /\ i \notin e + 1 .. e + w
                BY <1>3, <2>2, <3>1
            <4> QED BY <3>1, <4>1 DEF Stretch
        <3>2. CASE i \in off + 1 .. off + len /\ d[i] = <<k, i - off>>
            <4>1. i \notin e + 1 .. e + w
                BY <2>2, <3>2
            <4> QED BY <3>2, <4>1
        <3>3. ASSUME NEW j \in 1 .. Len(c), i + (off + n) = j + (off + len), d[i] = c[j]
              PROVE  IF i \in e + 1 .. e + w THEN d[i] = <<m, i - e>> ELSE d[i][1] # m
            <4>1. j - a = i - e /\ (i \in e + 1 .. e + w <=> j \in a + 1 .. a + w)
                BY <2>1, <3>3
            <4> QED BY <3>3, <4>1 DEF Stretch
        <3>4. From(i, d, c, off, n, k, len)
            BY Origin
        <3> QED BY <3>1, <3>2, <3>3, <3>4 DEF From
    <2>4. Stretch(d, m, e, w)
        BY <2>2, <2>3 DEF Stretch
    <2> QED BY <2>4
<1> QED BY <1>1, <1>2, <1>3

LEMMA ReplacedWhole ==
  ASSUME NEW c \in Contents, NEW L \in Keyblocks, Whole(c, L), NEW k \in Key,
         NEW off \in Nat, off + 1 <= Len(c), c[off + 1] = Primary(k),
         NEW len \in Nat, NEW d, d = Replaced(c, off, L[k], Block(k, len))
  PROVE  d \in Contents /\ Whole(d, [L EXCEPT ![k] = len])
<1>1. Len(c) \in Nat /\ L[k] \in Nat
    BY LenProperties DEF Contents, Keyblocks
<1>2. Stretch(c, k, off, L[k]) /\ L[k] # 0
    BY <1>1, FoundFacts
<1>3. off + L[k] <= Len(c)
    BY <1>2 DEF Stretch
<1>4. d \in Contents /\ Len(d) \in Nat /\ Spliced(d, c, off, L[k], k, len)
    BY <1>1, <1>3, ReplacedFacts
<1>5. ASSUME NEW i \in 1 .. Len(d) PROVE d[i][1] \in Key
    <2>1. \A j \in 1 .. Len(c) : c[j][1] \in Key
        BY WholeDef
    <2>2. d[i] = <<k, i - off>> => d[i][1] \in Key
        OBVIOUS
    <2>3. From(i, d, c, off, L[k], k, len)
        BY <1>1, <1>3, <1>4, Origin
    <2> QED BY <2>1, <2>2, <2>3 DEF From
<1>6. ASSUME NEW m \in Key PROVE \E a : Stretch(d, m, a, [L EXCEPT ![k] = len][m])
    <2>1. CASE m = k
        <3>1. Stretch(d, k, off, len)
            BY <1>1, <1>2, <1>4, NewStretch
        <3> QED BY <2>1, <3>1 DEF Keyblocks
    <2>2. CASE m # k
        <3>1. PICK a : Stretch(c, m, a, L[m])
            BY WholeDef
        <3>2. a \in Nat /\ L[m] \in Nat
            BY <1>1, <3>1 DEF Stretch, Keyblocks
        <3>3. L[m] = 0 \/ a + L[m] <= off \/ off + L[k] <= a
            BY <1>1, <1>2, <2>2, <3>1, <3>2, Apart
        <3>4. \E e : Stretch(d, m, e, L[m])
            BY <1>1, <1>3, <1>4, <2>2, <3>1, <3>2, <3>3, OtherStretch
        <3> QED BY <2>2, <3>4 DEF Keyblocks
    <2> QED BY <2>1, <2>2
<1> QED BY <1>4, <1>5, <1>6, WholeDef

LEMMA AppendedWhole ==
  ASSUME NEW c \in Contents, NEW L \in Keyblocks, Whole(c, L), NEW k \in Key,
         L[k] = 0, NEW len \in Nat, NEW d, d = c \o Block(k, len)
  PROVE  d \in Contents /\ Whole(d, [L EXCEPT ![k] = len])
<1>0. Len(c) \in Nat
    BY LenProperties DEF Contents
<1>1. /\ Block(k, len) \in Contents /\ Len(Block(k, len)) = len
      /\ \A i \in 1 .. len : Block(k, len)[i] = <<k, i>>
    BY BlockFacts
<1>2. /\ d \in Contents /\ Len(d) = Len(c) + len
      /\ \A i \in 1 .. Len(c) + len :
           d[i] = IF i <= Len(c) THEN c[i] ELSE Block(k, len)[i - Len(c)]
    BY <1>1, ConcatProperties DEF Contents
<1>3. ASSUME NEW i \in 1 .. Len(d)
      PROVE  \/ i \in 1 .. Len(c) /\ d[i] = c[i]
             \/ i \in Len(c) + 1 .. Len(c) + len /\ d[i] = <<k, i - Len(c)>>
    <2>1. CASE i <= Len(c)
        BY <1>0, <1>2, <2>1
    <2>2. CASE ~(i <= Len(c))
        <3>1. i - Len(c) \in 1 .. len /\ i \in Len(c) + 1 .. Len(c) + len
            BY <1>0, <1>2, <2>2
        <3> QED BY <1>0, <1>1, <1>2, <2>2, <3>1
    <2> QED BY <2>1, <2>2
<1>4. ASSUME NEW i \in 1 .. Len(d) PROVE d[i][1] \in Key
    <2>1. \A j \in 1 .. Len(c) : c[j][1] \in Key
        BY WholeDef
    <2>2. CASE i \in 1 .. Len(c) /\ d[i] = c[i]
        BY <2>1, <2>2
    <2>3. CASE d[i] = <<k, i - Len(c)>>
        BY <2>3
    <2> QED BY <1>3, <2>2, <2>3
<1>5. ASSUME NEW m \in Key PROVE \E a : Stretch(d, m, a, [L EXCEPT ![k] = len][m])
    <2>1. PICK a : Stretch(c, m, a, L[m])
        BY WholeDef
    <2>2. a \in Nat /\ L[m] \in Nat /\ a + L[m] <= Len(c) /\ a <= Len(c)
        BY <2>1 DEF Stretch, Keyblocks
    <2>3. CASE m = k
        <3>1. \A i \in 1 .. Len(c) : c[i][1] # k
            BY <2>1, <2>2, <2>3 DEF Stretch
        <3>2. ASSUME NEW i \in 1 .. Len(d)
              PROVE  IF i \in Len(c) + 1 .. Len(c) + len THEN d[i] = <<k, i - Len(c)>>
                                                       ELSE d[i][1] # k
            <4>1. CASE i \in 1 .. Len(c) /\ d[i] = c[i]
                BY <1>0, <3>1, <4>1
            <4>2. CASE i \in Len(c) + 1 .. Len(c) + len /\ d[i] = <<k, i - Len(c)>>
                BY <4>2
            <4> QED BY <1>3, <4>1, <4>2
        <3>3. Len(c) \in 0 .. Len(d) /\ Len(c) + len <= Len(d)
            BY <1>0, <1>2
        <3>4. Stretch(d, k, Len(c), len)
            BY <3>2, <3>3, Zenon DEF Stretch
        <3> QED BY <2>3, <3>4 DEF Keyblocks
    <2>4. CASE m # k
        <3>1. ASSUME NEW i \in 1 .. Len(d)
              PROVE  IF i \in a + 1 .. a + L[m] THEN d[i] = <<m, i - a>> ELSE d[i][1] # m
            <4>1. CASE i \in 1 .. Len(c) /\ d[i] = c[i]
                BY <2>1, <4>1 DEF Stretch
            <4>2. CASE i \in Len(c) + 1 .. Len(c) + len /\ d[i] = <<k, i - Len(c)>>
                BY <1>0, <2>2, <2>4, <4>2
            <4> QED BY <1>3, <4>1, <4>2
        <3>2. Stretch(d, m, a, L[m])
            BY <1>0, <1>2, <2>2, <3>1 DEF Stretch
        <3> QED BY <2>4, <3>2 DEF Keyblocks
    <2> QED BY <2>3, <2>4
<1> QED BY <1>2, <1>4, <1>5, WholeDef

LEMMA EmptyWhole ==
  ASSUME NEW L \in Keyblocks, \A k \in Key : L[k] = 0
  PROVE  Whole(<<>>, L)
<1>1. ASSUME NEW k \in Key PROVE Stretch(<<>>, k, 0, L[k])
    BY <1>1 DEF Stretch
<1> QED BY <1>1, WholeDef

-----------------------------------------------------------------------------
(* The descriptor cache of a process that sees one content.                *)
LEMMA OpenFacts ==
  ASSUME NEW f, NEW s \in Seq({Absent, f})
  PROVE  /\ (IF Kept(s) # 0 THEN s[Kept(s)] ELSE f) = f
         /\ AfterOpen(s) \in Seq({Absent, f})
<1>1. Len(s) \in Nat /\ \A i \in 1 .. Len(s) : s[i] \in {Absent, f}
    BY ElementOfSeq
<1>2. \/ Kept(s) = 0 /\ \A j \in 1 .. Len(s) : s[j] = Absent
      \/ Kept(s) \in 1 .. Len(s) /\ s[Kept(s)] # Absent
    BY <1>1, KeptFacts
<1>3. Kept(s) # 0 => s[Kept(s)] = f
    BY <1>1, <1>2
<1>4. AfterOpen(s) \in Seq({Absent, f})
    BY <1>1, <1>2, ExceptSeq DEF AfterOpen
<1> QED BY <1>3, <1>4

LEMMA CloseFacts ==
  ASSUME NEW f, NEW s \in Seq({Absent, f}), NEW c \in {Absent, f}
  PROVE  AfterClose(s, c) \in Seq({Absent, f})
<1>1. Len(s) \in Nat
    BY LenProperties
<1>2. Slot(s) # 0 => [s EXCEPT ![Slot(s)] = c] \in Seq({Absent, f})
    <2>1. Slot(s) = 0 \/ Slot(s) \in 1 .. Len(s)
        BY <1>1, SlotFacts
    <2> QED BY <2>1, ExceptSeq
<1>3. <<c>> \o s \in Seq({Absent, f})
    <2>1. <<c>> \in Seq({Absent, f})
        OBVIOUS
    <2> QED BY <2>1, ConcatProperties
<1> QED BY <1>2, <1>3 DEF AfterClose

LEMMA InvalidFacts ==
  ASSUME NEW S, NEW s \in Seq(S), NEW g
  PROVE  Invalidated(s) \in Seq({Absent, g})
<1>1. Len(s) \in Nat
    BY LenProperties
<1> QED BY <1>1 DEF Invalidated

-----------------------------------------------------------------------------
(* The inductive invariant: what the files hold, and what the process knows *)
(* of them.                                                                *)
Kinds == {"insert", "update", "delete"}
Position == {"off", "n", "cur"}
Files == [Ring -> Contents \cup {Absent}]
Empty(lengths) == \A k \in Key : lengths[k] = 0

Stored ==
  /\ file \in Files /\ bak \in Files /\ tmp \in Files
  /\ want \in [Ring -> Keyblocks]
  /\ \A r \in Ring :
       /\ file[r] # Absent => Whole(file[r], want[r])
       /\ file[r] = Absent => \/ Empty(want[r])
                              \/ r \notin Secret /\ bak[r] # Absent /\ Whole(bak[r], want[r])

\* A process that starts for the first time finds a file or nothing to lose.
Fresh(p) ==
  /\ pc[p] \in Booting => \A r \in Ring : file[r] = Absent => Empty(want[r])
  /\ pc[p] = "bootmake" => file[Now(p)] = Absent

\* No descriptor shows anything but the file as it is.
Shown(p) ==
  /\ DOMAIN cache = Proc /\ DOMAIN cache[p] = Ring
  /\ \A r \in Ring : cache[p][r] \in Seq({Absent, file[r]})
  /\ DOMAIN hd = Proc /\ DOMAIN hd[p] = Position
  /\ hd[p].off \in Nat
  /\ hd[p].cur \in {Absent, file[job[p].ring]}
  /\ pc[p] \in Changing \ {"access"} => hd[p].cur = Absent

\* What was found is still there, and what was missing still is.
Target(p) ==
  LET r == job[p].ring
      k == job[p].key
      aimed == pc[p] \in {"make", "take", "access", "open"}
  IN
  /\ r \in Ring
  /\ job[p].kind \in Kinds \cup {"none"}
  /\ pc[p] \in Changing => job[p].kind \in Kinds
  /\ pc[p] \in {"found", "missing", "got"} => job[p].kind = "none"
  /\ job[p].kind = "delete" => job[p].len = 0
  /\ pc[p] \in {"found", "got"} \/ (aimed /\ job[p].kind \in {"update", "delete"}) =>
       /\ k \in Key /\ file[r] # Absent
       /\ hd[p].off + 1 <= Len(file[r]) /\ file[r][hd[p].off + 1] = Primary(k)
       /\ pc[p] # "found" => hd[p].n = want[r][k]
  /\ pc[p] = "missing" \/ (aimed /\ job[p].kind = "insert") =>
       k \in Key /\ file[r] # Absent /\ want[r][k] = 0

\* What is written is the content that the transaction is to leave.
Copy(p) ==
  LET r == job[p].ring
      k == job[p].key
  IN
  /\ pc[p] \in {"write", "backup", "rename"} =>
       /\ k \in Key /\ job[p].new \in Contents
       /\ Whole(job[p].new, [want[r] EXCEPT ![k] = job[p].len])
  /\ pc[p] \in {"write", "backup"} => file[r] # Absent
  /\ pc[p] \in {"backup", "rename"} => tmp[r] = job[p].new

\* Once a keyring was read to its end the table has every key that is in it.
Tabled(p) ==
  /\ DOMAIN known = Proc /\ DOMAIN scanned = Proc
  /\ scanned[p] \subseteq Ring \ Secret
  /\ \A r \in scanned[p], k \in Key : want[r][k] # 0 => k \in known[p]

Data(p) == Fresh(p) /\ Shown(p) /\ Target(p) /\ Copy(p) /\ Tabled(p)
DInv == Stored /\ \A p \in Proc : Data(p)


-----------------------------------------------------------------------------
(* The steps, first those that touch no file.  A process is started again  *)
(* only if none can have died between the two renames of a public keyring. *)
Restart == Reboots => Ring \subseteq Secret

LEMMA SameStored ==
  ASSUME Stored, UNCHANGED <<file, bak, tmp, want>>
  PROVE  Stored'
BY DEF Stored

\* The loops over kr_names and what changes nothing but the control.
LEMMA QuietStep ==
  ASSUME Restart, Types, NEW p \in Proc, Place(p), Stored, Data(p),
         \/ Boot(p) \/ BootLock(p) \/ BootCheck(p) \/ BootDone(p) \/ GiveUp(p)
         \/ MakeHandle(p) \/ TakeSkip(p) \/ TakeLock(p) \/ Unlock(p) \/ Start(p)
  PROVE  Stored' /\ Data(p)'
<1> USE DEF Booting, Creating, Changing
<1>1. UNCHANGED <<file, bak, tmp, want, hd, cache, known, scanned, job>>
    BY DEF Boot, BootLock, BootCheck, BootDone, GiveUp, MakeHandle, TakeSkip, TakeLock,
       Unlock, Start, mem, disk, table
<1>2. \/ /\ pc[p] \in Booting \/ Ring \subseteq Secret
         /\ pc'[p] \in (Booting \ {"bootmake"}) \cup {"idle"}
      \/ /\ pc[p] \in Booting /\ pc'[p] = "bootmake"
         /\ file[Now(p)] = Absent /\ Now(p)' = Now(p)
      \/ pc'[p] \in {"release", "unlock"}
      \/ pc[p] = "make" /\ pc'[p] \in {"make", "take", "unlock"}
      \/ pc[p] = "take" /\ pc'[p] = "take"
      \/ pc[p] = "take" /\ pc'[p] = "access" /\ job[p].kind # "none"
    <2>1. CASE Boot(p)
        <3>1. CASE file[Now(p)] # Absent
            <4>1. pc[p] = "boot" /\ Step(p, "idle")
                BY <2>1, <3>1 DEF Boot
            <4>2. pc'[p] \in {"boot", "idle"}
                BY <4>1, StepFacts DEF Types
            <4> QED BY <4>1, <4>2
        <3>2. CASE file[Now(p)] = Absent
            BY <2>1, <3>2 DEF Boot, Goto, Types
        <3> QED BY <3>1, <3>2
    <2>2. CASE BootLock(p) \/ BootDone(p) \/ GiveUp(p)
        BY <2>2 DEF BootLock, BootDone, GiveUp, Goto, Types
    <2>3. CASE BootCheck(p)
        <3>1. /\ pc[p] = "bootcheck" /\ idx' = idx
              /\ pc' = [pc EXCEPT ![p] = IF file[Now(p)] = Absent THEN "bootmake" ELSE "bootdone"]
            BY <2>3 DEF BootCheck, Goto
        <3>2. Now(p)' = Now(p)
            BY <3>1 DEF Now, Rings
        <3>3. pc'[p] = IF file[Now(p)] = Absent THEN "bootmake" ELSE "bootdone"
            BY <3>1 DEF Types
        <3> QED BY <3>1, <3>2, <3>3
    <2>4. CASE Start(p)
        BY <2>4 DEF Start, Goto, Types, Restart
    <2>5. CASE MakeHandle(p)
        <3>1. PICK l \in {"unlock", "take"} :
                 l = IF job[p].kind = "none" THEN "unlock" ELSE "take"
            OBVIOUS
        <3>2. pc[p] = "make" /\ Step(p, l)
            BY <1>1, <2>5, <3>1 DEF MakeHandle, AfterMake
        <3> QED BY <3>2, StepFacts DEF Types
    <2>6. CASE TakeSkip(p) \/ TakeLock(p)
        <3>1. PICK l : l = IF job[p].kind = "none" THEN "unlock" ELSE "access"
            OBVIOUS
        <3>2. pc[p] = "take" /\ Step(p, l)
            BY <1>1, <2>6, <3>1 DEF TakeSkip, TakeLock, AfterTake
        <3>3. pc'[p] = "take" \/ pc'[p] = l
            BY <3>2, StepFacts DEF Types
        <3> QED BY <3>1, <3>2, <3>3
    <2>7. CASE Unlock(p)
        <3>1. pc[p] = "unlock" /\ Step(p, "release")
            BY <2>7 DEF Unlock
        <3> QED BY <3>1, StepFacts DEF Types
    <2> QED BY <2>1, <2>2, <2>3, <2>4, <2>5, <2>6, <2>7
<1>3. Stored'
    BY <1>1, SameStored
<1>4. Fresh(p)'
    BY <1>1, <1>2 DEF Data, Fresh, Stored
<1>5. Shown(p)' /\ Tabled(p)'
    BY <1>1, <1>2 DEF Data, Shown, Tabled
<1>6. Target(p)'
    BY <1>1, <1>2 DEF Data, Target, Kinds
<1>7. Copy(p)'
    BY <1>1, <1>2 DEF Copy
<1> QED BY <1>3, <1>4, <1>5, <1>6, <1>7 DEF Data

\* A lock that cannot be had, or no handle for it.
LEMMA FailStep ==
  ASSUME Types, NEW p \in Proc, Place(p), Stored, Data(p), MakeFails(p) \/ TakeFails(p)
  PROVE  Stored' /\ Data(p)'
<1> USE DEF Booting, Creating, Changing
<1>1. /\ UNCHANGED <<file, bak, tmp, want, hd, cache, known, scanned>>
      /\ job' = [job EXCEPT ![p].kind = "none"]
    BY DEF MakeFails, TakeFails, mem, disk, table
<1>2. /\ job'[p].kind = "none" /\ job'[p].ring = job[p].ring /\ job'[p].key = job[p].key
    <2>1. job'[p] = [job[p] EXCEPT !.kind = "none"] /\ DOMAIN job[p] = Fields
        BY <1>1 DEF Types, Place, Task
    <2> QED BY <2>1 DEF Fields
<1>3. pc'[p] \in {"make", "take", "unlock"}
    <2>1. pc[p] \in {"make", "take"} /\ Step(p, "unlock")
        BY <1>2 DEF MakeFails, TakeFails, AfterMake, AfterTake
    <2> QED BY <2>1, StepFacts DEF Types
<1>4. Stored'
    BY <1>1, SameStored
<1>5. Fresh(p)' /\ Copy(p)'
    BY <1>3 DEF Fresh, Copy
<1>6. Shown(p)' /\ Tabled(p)'
    BY <1>1, <1>2, <1>3 DEF Data, Shown, Tabled
<1>7. Target(p)'
    BY <1>1, <1>2, <1>3 DEF Data, Target, Kinds
<1> QED BY <1>4, <1>5, <1>6, <1>7 DEF Data

LEMMA DieStep ==
  ASSUME Types, NEW p \in Proc, Place(p), Stored, Data(p), Die(p)
  PROVE  Stored' /\ Data(p)'
<1>1. /\ UNCHANGED <<file, bak, tmp, want>>
      /\ hd' = [hd EXCEPT ![p] = NoHandle] /\ job' = [job EXCEPT ![p] = NoJob]
      /\ cache' = [cache EXCEPT ![p] = [r \in Ring |-> <<>>]]
      /\ known' = [known EXCEPT ![p] = {}] /\ scanned' = [scanned EXCEPT ![p] = {}]
    BY DEF Die
<1>2. pc'[p] = "dead" /\ job'[p] = NoJob
    BY <1>1 DEF Die, Goto, Types
<1>3. Stored'
    BY <1>1, SameStored
<1>4. Fresh(p)' /\ Copy(p)'
    BY <1>2 DEF Fresh, Copy, Booting, Creating
<1>5. Shown(p)'
    <2>1. hd'[p] = NoHandle /\ DOMAIN hd' = Proc /\ DOMAIN NoHandle = Position
          /\ NoHandle.off \in Nat /\ NoHandle.cur = Absent
        BY <1>1 DEF Data, Shown, NoHandle, Position
    <2>2. cache'[p] = [r \in Ring |-> <<>>] /\ DOMAIN cache' = Proc
        BY <1>1 DEF Data, Shown
    <2> QED BY <2>1, <2>2 DEF Shown
<1>6. Target(p)'
    <2>1. NoJob.kind = "none" /\ NoJob.ring \in Ring
        BY NamesFacts DEF NoJob
    <2> QED BY <1>2, <2>1 DEF Target, Kinds, Changing
<1>7. Tabled(p)'
    BY <1>1 DEF Data, Tabled
<1> QED BY <1>3, <1>4, <1>5, <1>6, <1>7 DEF Data

-----------------------------------------------------------------------------
(* Reading.  What a process opens shows the file, kept open or not.        *)
LEMMA ReadFacts ==
  ASSUME NEW p \in Proc, Shown(p), NEW r \in Ring
  PROVE  /\ CacheOpen(p, r) = file[r] /\ AfterOpen(cache[p][r]) \in Seq({Absent, file[r]})
         /\ AfterClose(AfterOpen(cache[p][r]), CacheOpen(p, r)) \in Seq({Absent, file[r]})
<1>1. cache[p][r] \in Seq({Absent, file[r]})
    BY DEF Shown
<1>2. CacheOpen(p, r) = file[r] /\ AfterOpen(cache[p][r]) \in Seq({Absent, file[r]})
    BY <1>1, OpenFacts DEF CacheOpen
<1> QED BY <1>2, CloseFacts

\* The descriptors after one list of them changed.
LEMMA CacheSet ==
  ASSUME NEW p \in Proc, Shown(p), NEW r \in Ring, NEW s, SetCache(p, r, s),
         DOMAIN file = Ring, DOMAIN file' = Ring, s \in Seq({Absent, file'[r]}),
         \A x \in Ring \ {r} : file'[x] = file[x]
  PROVE  /\ DOMAIN cache' = Proc /\ DOMAIN cache'[p] = Ring
         /\ \A x \in Ring : cache'[p][x] \in Seq({Absent, file'[x]})
<1>1. cache' = [cache EXCEPT ![p][r] = s] /\ DOMAIN cache = Proc /\ DOMAIN cache[p] = Ring
    BY DEF SetCache, Shown
<1>2. cache'[p] = [cache[p] EXCEPT ![r] = s] /\ DOMAIN cache' = Proc
    BY <1>1
<1>3. ASSUME NEW x \in Ring PROVE cache'[p][x] \in Seq({Absent, file'[x]})
    <2>1. cache'[p][x] = IF x = r THEN s ELSE cache[p][x]
        BY <1>1, <1>2
    <2>2. cache[p][x] \in Seq({Absent, file[x]})
        BY DEF Shown
    <2>3. CASE x = r
        BY <2>1, <2>3
    <2>4. CASE x # r
        BY <2>1, <2>2, <2>4
    <2> QED BY <2>3, <2>4
<1> QED BY <1>1, <1>2, <1>3

LEMMA ScanFacts ==
  ASSUME NEW c \in Contents, NEW L \in Keyblocks, Whole(c, L)
  PROVE  \A k \in Key : L[k] # 0 => k \in {c[i][1] : i \in 1 .. Len(c)}
<1> SUFFICES ASSUME NEW k \in Key, L[k] # 0 PROVE \E i \in 1 .. Len(c) : c[i][1] = k
    OBVIOUS
<1>1. Len(c) \in Nat
    BY LenProperties DEF Contents
<1>2. At(c, k) # 0
    BY <1>1, AtWhole
<1>3. At(c, k) \in 1 .. Len(c) /\ c[At(c, k)] = Primary(k)
    BY <1>1, <1>2, AtWhole
<1> QED BY <1>3 DEF Primary

LEMMA SearchStep ==
  ASSUME Types, NEW p \in Proc, Place(p), Stored, Data(p), Search(p)
  PROVE  Stored' /\ Data(p)'
<1> USE DEF Booting, Creating, Changing
<1>1. PICK r \in Ring, k \in Key, byKid \in BOOLEAN :
        LET c == CacheOpen(p, r)
            s == AfterOpen(cache[p][r])
            denied == byKid /\ r \notin Secret /\ Ready(p) /\ k \notin known[p]
        IN
        /\ c # Absent
        /\ job' = [job EXCEPT ![p] = [NoJob EXCEPT !.ring = r, !.key = k]]
        /\ IF At(c, k) # 0 /\ ~denied
             THEN /\ hd' = [hd EXCEPT ![p] = [off |-> At(c, k) - 1, n |-> 0, cur |-> c]]
                  /\ SetCache(p, r, s)
                  /\ Goto(p, "found")
                  /\ Noted(p, r, c, At(c, k))
             ELSE /\ hd' = [hd EXCEPT ![p] = NoHandle]
                  /\ SetCache(p, r, AfterClose(s, c))
                  /\ Goto(p, "missing")
                  /\ Noted(p, r, c, Len(c))
    BY DEF Search
<1> DEFINE c == file[r]
           denied == byKid /\ r \notin Secret /\ Ready(p) /\ k \notin known[p]
           s == AfterOpen(cache[p][r])
           hit == At(c, k) # 0 /\ ~denied
<1>2. /\ CacheOpen(p, r) = c /\ s \in Seq({Absent, c})
      /\ AfterClose(s, c) \in Seq({Absent, c})
    BY ReadFacts DEF Data
<1>3. /\ c # Absent /\ job' = [job EXCEPT ![p] = [NoJob EXCEPT !.ring = r, !.key = k]]
      /\ hit => /\ hd' = [hd EXCEPT ![p] = [off |-> At(c, k) - 1, n |-> 0, cur |-> c]]
                /\ SetCache(p, r, s) /\ Goto(p, "found") /\ Noted(p, r, c, At(c, k))
      /\ ~hit => /\ hd' = [hd EXCEPT ![p] = NoHandle]
                 /\ SetCache(p, r, AfterClose(s, c))
                 /\ Goto(p, "missing") /\ Noted(p, r, c, Len(c))
    BY <1>1, <1>2
<1>4. UNCHANGED <<file, bak, tmp, want>> /\ DOMAIN file = Ring
    BY DEF Search, disk, Types
<1>5. /\ c \in Contents /\ Len(c) \in Nat /\ Whole(c, want[r]) /\ want[r] \in Keyblocks
    <2>1. c \in Contents
        BY <1>3 DEF Stored, Files
    <2> QED BY <1>3, <2>1, LenProperties DEF Stored, Contents
<1>6. /\ job'[p].kind = "none" /\ job'[p].ring = r /\ job'[p].key = k
    <2>1. job'[p] = [NoJob EXCEPT !.ring = r, !.key = k]
        BY <1>3 DEF Types
    <2> QED BY <2>1 DEF NoJob
<1>7. pc'[p] = (IF hit THEN "found" ELSE "missing")
    <2> HIDE DEF c, hit
    <2> QED BY <1>3 DEF Goto, Types
<1>8. /\ DOMAIN cache' = Proc /\ DOMAIN cache'[p] = Ring
      /\ \A x \in Ring : cache'[p][x] \in Seq({Absent, file'[x]})
    <2>1. PICK t \in Seq({Absent, c}) : SetCache(p, r, t)
        BY <1>2, <1>3
    <2> HIDE DEF c
    <2>2. t \in Seq({Absent, file'[r]})
        BY <1>4, <2>1 DEF c
    <2> QED BY <1>4, <2>1, <2>2, CacheSet DEF Data
<1>9. /\ At(c, k) = 0 => want[r][k] = 0
      /\ At(c, k) # 0 => At(c, k) \in 1 .. Len(c) /\ c[At(c, k)] = Primary(k)
    BY <1>5, AtWhole
<1>10. /\ DOMAIN hd' = Proc /\ DOMAIN hd'[p] = Position /\ hd'[p].off \in Nat
       /\ hd'[p].cur \in {Absent, c} /\ (hit => hd'[p].off + 1 = At(c, k))
    <2>1. CASE hit
        <3>1. hd'[p] = [off |-> At(c, k) - 1, n |-> 0, cur |-> c] /\ DOMAIN hd' = Proc
            BY <1>3, <2>1 DEF Data, Shown
        <3>2. At(c, k) - 1 \in Nat /\ At(c, k) - 1 + 1 = At(c, k)
            BY <1>5, <1>9, <2>1
        <3> QED BY <3>1, <3>2 DEF Position
    <2>2. CASE ~hit
        <3>1. hd'[p] = NoHandle /\ DOMAIN hd' = Proc
            BY <1>3, <2>2 DEF Data, Shown
        <3> QED BY <2>2, <3>1 DEF NoHandle, Position
    <2> QED BY <2>1, <2>2
<1>11. ~hit => want[r][k] = 0
    <2>1. CASE denied
        <3>1. r \in scanned[p] /\ k \notin known[p]
            BY <2>1 DEF Ready
        <3> QED BY <3>1 DEF Data, Tabled
    <2> QED BY <1>9, <2>1
<1>12. Tabled(p)'
    <2>1. CASE UNCHANGED table
        BY <1>4, <2>1 DEF Data, Tabled, table
    <2>2. CASE r \notin Secret /\ ~ Ready(p) /\ hit
        <3>1. PICK n : Noted(p, r, c, n)
            BY <1>3
        <3>2. /\ known' = [known EXCEPT ![p] = @ \cup {c[i][1] : i \in 1 .. n}]
              /\ scanned' = [scanned EXCEPT ![p] = @]
            BY <1>7, <2>2, <3>1 DEF Noted
        <3> QED BY <1>4, <3>2 DEF Data, Tabled
    <2>3. CASE r \notin Secret /\ ~ Ready(p) /\ ~hit
        <3>1. /\ known' = [known EXCEPT ![p] = @ \cup {c[i][1] : i \in 1 .. Len(c)}]
              /\ scanned' = [scanned EXCEPT ![p] = @ \cup {r}]
            BY <1>3, <1>7, <2>3 DEF Noted
        <3>2. \A m \in Key : want[r][m] # 0 => m \in {c[i][1] : i \in 1 .. Len(c)}
            BY <1>5, ScanFacts
        <3>3. PICK all : all = {c[i][1] : i \in 1 .. Len(c)}
            OBVIOUS
        <3>4. known'[p] = known[p] \cup all /\ scanned'[p] = scanned[p] \cup {r}
            BY <3>1, <3>3 DEF Data, Tabled
        <3> QED BY <1>4, <2>3, <3>1, <3>2, <3>3, <3>4 DEF Data, Tabled
    <2> QED BY <1>3, <2>1, <2>2, <2>3 DEF Noted
<1> HIDE DEF denied, s, hit
<1>13. Stored'
    BY <1>4, SameStored
<1>14. Fresh(p)' /\ Copy(p)'
    BY <1>7 DEF Fresh, Copy
<1>15. Shown(p)'
    BY <1>4, <1>6, <1>7, <1>8, <1>10 DEF Shown
<1>16. Target(p)'
    <2>1. CASE hit
        BY <1>3, <1>4, <1>5, <1>6, <1>7, <1>9, <1>10, <2>1 DEF hit, Target
    <2>2. CASE ~hit
        BY <1>3, <1>4, <1>6, <1>7, <1>11, <2>2 DEF Target
    <2> QED BY <2>1, <2>2
<1> QED BY <1>12, <1>13, <1>14, <1>15, <1>16 DEF Data

LEMMA GetStep ==
  ASSUME Types, NEW p \in Proc, Place(p), Stored, Data(p), Get(p)
  PROVE  Stored' /\ Data(p)'
<1> USE DEF Booting, Creating, Changing
<1> DEFINE r == job[p].ring
           k == job[p].key
           c == file[r]
           off == hd[p].off
<1>1. /\ pc[p] = "found" /\ UNCHANGED <<file, bak, tmp, want, known, scanned>>
      /\ DOMAIN file = Ring
    BY DEF Get, disk, table, Types
<1>2. /\ r \in Ring /\ k \in Key /\ c # Absent /\ off \in Nat /\ off + 1 <= Len(c)
      /\ c[off + 1] = Primary(k)
    BY <1>1 DEF Data, Target, Shown
<1>3. /\ c \in Contents /\ Len(c) \in Nat /\ Whole(c, want[r]) /\ want[r] \in Keyblocks
    <2>1. c \in Contents
        BY <1>2 DEF Stored, Files
    <2> QED BY <1>2, <2>1, LenProperties DEF Stored, Contents
<1>4. RunFrom(c, off) = want[r][k]
    BY <1>2, <1>3, RunWhole
<1>5. /\ CacheOpen(p, r) = c
      /\ AfterClose(AfterOpen(cache[p][r]), CacheOpen(p, r)) \in Seq({Absent, c})
    BY <1>2, ReadFacts DEF Data
<1>6. /\ job' = [job EXCEPT ![p].key = c[off + 1][1]]
      /\ hd' = [hd EXCEPT ![p].n = RunFrom(c, off)]
      /\ pc' = [pc EXCEPT ![p] = "got"]
    <2>1. off < Len(c) /\ c[off + 1][2] = 1
        BY <1>2, <1>3 DEF Primary
    <2> QED BY <1>2, <1>5, <2>1 DEF Get, Goto
<1>7. /\ DOMAIN cache' = Proc /\ DOMAIN cache'[p] = Ring
      /\ \A x \in Ring : cache'[p][x] \in Seq({Absent, file'[x]})
    <2>1. PICK t \in Seq({Absent, c}) : SetCache(p, r, t)
        BY <1>5 DEF Get
    <2> HIDE DEF c
    <2>2. t \in Seq({Absent, file'[r]})
        BY <1>1, <2>1 DEF c
    <2> HIDE DEF r
    <2> QED BY <1>1, <1>2, <2>1, <2>2, CacheSet DEF Data
<1>8. /\ job'[p].kind = "none" /\ job'[p].ring = r /\ job'[p].key = k
    <2>1. job'[p] = [job[p] EXCEPT !.key = k] /\ DOMAIN job[p] = Fields
        BY <1>2, <1>6 DEF Types, Place, Task, Primary
    <2>2. job[p].kind = "none"
        BY <1>1 DEF Place, Task
    <2> QED BY <2>1, <2>2 DEF Fields
<1>9. /\ DOMAIN hd' = Proc /\ DOMAIN hd'[p] = Position /\ hd'[p].off = off
      /\ hd'[p].cur = hd[p].cur /\ hd'[p].n = want[r][k]
    <2>1. hd'[p] = [hd[p] EXCEPT !.n = want[r][k]] /\ DOMAIN hd[p] = Position
          /\ DOMAIN hd' = Proc
        BY <1>4, <1>6 DEF Data, Shown
    <2> QED BY <2>1 DEF Position
<1>10. pc'[p] = "got"
    BY <1>6 DEF Types
<1>11. Stored'
    BY <1>1, SameStored
<1>12. Fresh(p)' /\ Copy(p)'
    BY <1>10 DEF Fresh, Copy
<1>13. Shown(p)'
    BY <1>1, <1>7, <1>8, <1>9, <1>10 DEF Data, Shown
<1>14. Target(p)'
    BY <1>1, <1>2, <1>8, <1>9, <1>10 DEF Target
<1>15. Tabled(p)'
    BY <1>1 DEF Data, Tabled
<1> QED BY <1>11, <1>12, <1>13, <1>14, <1>15 DEF Data

LEMMA ChooseStep ==
  ASSUME Types, NEW p \in Proc, Place(p), Stored, Data(p), Choose(p)
  PROVE  Stored' /\ Data(p)'
<1> USE DEF Booting, Creating, Changing
<1>1. /\ pc[p] \in {"got", "missing"}
      /\ UNCHANGED <<file, bak, tmp, want, hd, cache, known, scanned>>
      /\ pc' = [pc EXCEPT ![p] = "make"]
    BY DEF Choose, mem, disk, table, Goto
<1>2. PICK kind \in Kinds, len \in 0 .. MaxLen :
        /\ kind = "insert" <=> pc[p] = "missing"
        /\ kind = "delete" <=> len = 0
        /\ kind = "insert" => IsWritable(job[p].ring)
        /\ job' = [job EXCEPT ![p].kind = kind, ![p].len = len]
    BY DEF Choose, Kinds
<1>3. /\ job'[p].kind = kind /\ job'[p].len = len
      /\ job'[p].ring = job[p].ring /\ job'[p].key = job[p].key
    <2>1. job'[p] = [job[p] EXCEPT !.kind = kind, !.len = len] /\ DOMAIN job[p] = Fields
        BY <1>2 DEF Types, Place, Task
    <2> QED BY <2>1 DEF Fields
<1>4. pc'[p] = "make"
    BY <1>1 DEF Types
<1>5. Stored'
    BY <1>1, SameStored
<1>6. Fresh(p)' /\ Copy(p)'
    BY <1>4 DEF Fresh, Copy
<1>7. Shown(p)' /\ Tabled(p)'
    BY <1>1, <1>3, <1>4 DEF Data, Shown, Tabled
<1>8. Target(p)'
    BY <1>1, <1>2, <1>3, <1>4 DEF Data, Target, Kinds
<1> QED BY <1>5, <1>6, <1>7, <1>8 DEF Data

\* The file that the search left open is closed, at the end or before copying.
LEMMA ReleaseStep ==
  ASSUME Types, NEW p \in Proc, Place(p), Stored, Data(p), Release(p)
  PROVE  Stored' /\ Data(p)'
<1> USE DEF Booting, Creating, Changing
<1> DEFINE r == job[p].ring
<1>1. /\ UNCHANGED <<file, bak, tmp, want, known, scanned>> /\ DOMAIN file = Ring
      /\ hd' = [hd EXCEPT ![p] = NoHandle] /\ job' = [job EXCEPT ![p] = NoJob]
      /\ SetCache(p, r, AfterClose(cache[p][r], hd[p].cur))
    BY DEF Release, disk, table, Types
<1>2. pc'[p] = "idle" /\ job'[p] = NoJob
    BY <1>1 DEF Release, Goto, Types
<1>3. /\ r \in Ring /\ cache[p][r] \in Seq({Absent, file[r]})
      /\ hd[p].cur \in {Absent, file[r]}
    BY DEF Data, Shown, Target
<1>4. /\ DOMAIN cache' = Proc /\ DOMAIN cache'[p] = Ring
      /\ \A x \in Ring : cache'[p][x] \in Seq({Absent, file'[x]})
    <2>1. AfterClose(cache[p][r], hd[p].cur) \in Seq({Absent, file'[r]})
        BY <1>1, <1>3, CloseFacts
    <2> HIDE DEF r
    <2> QED BY <1>1, <1>3, <2>1, CacheSet DEF Data
<1>5. Stored'
    BY <1>1, SameStored
<1>6. Fresh(p)' /\ Copy(p)'
    BY <1>2 DEF Fresh, Copy
<1>7. Shown(p)'
    <2>1. hd'[p] = NoHandle /\ DOMAIN hd' = Proc /\ DOMAIN NoHandle = Position
          /\ NoHandle.off \in Nat /\ NoHandle.cur = Absent
        BY <1>1 DEF Data, Shown, NoHandle, Position
    <2> QED BY <1>4, <2>1 DEF Shown
<1>8. Target(p)'
    <2>1. NoJob.kind = "none" /\ NoJob.ring \in Ring
        BY <1>3 DEF NoJob
    <2> QED BY <1>2, <2>1 DEF Target, Kinds
<1>9. Tabled(p)'
    BY <1>1 DEF Data, Tabled
<1> QED BY <1>5, <1>6, <1>7, <1>8, <1>9 DEF Data

LEMMA AccessStep ==
  ASSUME Types, NEW p \in Proc, Place(p), Stored, Data(p), Access(p)
  PROVE  Stored' /\ Data(p)'
<1> USE DEF Booting, Creating, Changing
<1> DEFINE r == job[p].ring
<1>1. /\ UNCHANGED <<file, bak, tmp, want, known, scanned, job>> /\ DOMAIN file = Ring
      /\ pc[p] = "access" /\ hd' = [hd EXCEPT ![p].cur = Absent]
      /\ SetCache(p, r, AfterClose(cache[p][r], hd[p].cur))
    BY DEF Access, disk, table, Types
<1>2. pc'[p] \in {"open", "unlock"}
    BY DEF Access, Goto, Types
<1>3. /\ r \in Ring /\ cache[p][r] \in Seq({Absent, file[r]})
      /\ hd[p].cur \in {Absent, file[r]}
    BY DEF Data, Shown, Target
<1>4. /\ DOMAIN cache' = Proc /\ DOMAIN cache'[p] = Ring
      /\ \A x \in Ring : cache'[p][x] \in Seq({Absent, file'[x]})
    <2>1. AfterClose(cache[p][r], hd[p].cur) \in Seq({Absent, file'[r]})
        BY <1>1, <1>3, CloseFacts
    <2> HIDE DEF r
    <2> QED BY <1>1, <1>3, <2>1, CacheSet DEF Data
<1>5. Stored'
    BY <1>1, SameStored
<1>6. Fresh(p)' /\ Copy(p)'
    BY <1>2 DEF Fresh, Copy
<1>7. /\ DOMAIN hd' = Proc /\ DOMAIN hd'[p] = Position /\ hd'[p].off = hd[p].off
      /\ hd'[p].cur = Absent /\ hd'[p].n = hd[p].n
    <2>1. hd'[p] = [hd[p] EXCEPT !.cur = Absent] /\ DOMAIN hd[p] = Position
          /\ DOMAIN hd' = Proc
        BY <1>1 DEF Data, Shown
    <2> QED BY <2>1 DEF Position
<1>8. Shown(p)'
    BY <1>4, <1>7 DEF Data, Shown
<1>9. Target(p)'
    BY <1>1, <1>2, <1>7 DEF Data, Target
<1>10. Tabled(p)'
    BY <1>1 DEF Data, Tabled
<1> QED BY <1>5, <1>6, <1>8, <1>9, <1>10 DEF Data

-----------------------------------------------------------------------------
(* Writing.                                                                *)

\* maybe_create_keyring makes an empty file where nothing was to be kept.
LEMMA BootMakeStep ==
  ASSUME Types, NEW p \in Proc, Place(p), Stored, Data(p), BootMake(p)
  PROVE  Stored' /\ Data(p)'
<1> USE DEF Booting, Creating, Changing
<1> DEFINE r == Now(p)
<1>1. /\ UNCHANGED <<bak, tmp, want, known, scanned, hd, job>> /\ pc[p] = "bootmake"
      /\ file' = [file EXCEPT ![r] = <<>>] /\ DOMAIN file = Ring
      /\ SetCache(p, r, Invalidated(cache[p][r])) /\ r \in Ring
    BY NowFacts DEF BootMake, table, Types
<1>2. pc'[p] = "bootdone"
    BY DEF BootMake, Goto, Types
<1> HIDE DEF r
<1>3. file[r] = Absent /\ Empty(want[r]) /\ want[r] \in Keyblocks
    BY <1>1 DEF r, Data, Fresh, Stored
<1>4. /\ DOMAIN file' = Ring /\ file'[r] = <<>>
      /\ \A x \in Ring \ {r} : file'[x] = file[x]
    BY <1>1
<1>5. /\ DOMAIN cache' = Proc /\ DOMAIN cache'[p] = Ring
      /\ \A x \in Ring : cache'[p][x] \in Seq({Absent, file'[x]})
    <2>1. cache[p][r] \in Seq({Absent, file[r]})
        BY <1>1 DEF Data, Shown
    <2>2. Invalidated(cache[p][r]) \in Seq({Absent, file'[r]})
        BY <2>1, InvalidFacts
    <2> QED BY <1>1, <1>4, <2>2, CacheSet DEF Data
<1>6. Stored'
    <2>1. Whole(<<>>, want[r])
        BY <1>3, EmptyWhole DEF Empty
    <2>2. file' \in Files
        BY <1>1, EmptyFacts DEF Stored, Files
    <2> QED BY <1>1, <1>4, <2>1, <2>2, EmptyFacts DEF Stored
<1>7. Fresh(p)'
    BY <1>1, <1>2, <1>4, EmptyFacts DEF Data, Fresh
<1>8. Copy(p)'
    BY <1>2 DEF Copy
<1>9. Shown(p)'
    <2>1. hd[p].cur \in {Absent, file'[job[p].ring]}
        BY <1>3, <1>4 DEF Data, Shown, Target
    <2> QED BY <1>1, <1>2, <1>5, <2>1 DEF Data, Shown
<1>10. Target(p)'
    BY <1>1, <1>2 DEF Data, Target
<1>11. Tabled(p)'
    BY <1>1 DEF Data, Tabled
<1> QED BY <1>6, <1>7, <1>8, <1>9, <1>10, <1>11 DEF Data

\* The copy that do_copy makes is what the transaction is to leave.
LEMMA CopyFacts ==
  ASSUME NEW p \in Proc, Place(p), Stored, Data(p), pc[p] = "open"
  PROVE  LET r == job[p].ring
             k == job[p].key
         IN  /\ NewContent(p, file[r]) \in Contents
             /\ Whole(NewContent(p, file[r]), [want[r] EXCEPT ![k] = job[p].len])
             /\ k \in Key /\ file[r] # Absent
<1> USE DEF Changing
<1> DEFINE r == job[p].ring
           k == job[p].key
<1>1. job[p].kind \in Kinds /\ r \in Ring /\ job[p].len \in Nat
    BY MaxLenAssumption DEF Data, Target, Place, Task
<1>2. k \in Key /\ file[r] # Absent
    BY <1>1 DEF Data, Target, Kinds
<1>3. PICK c, L, len : c = file[r] /\ L = want[r] /\ len = job[p].len
    OBVIOUS
<1>4. c \in Contents /\ L \in Keyblocks /\ Whole(c, L) /\ len \in Nat
    BY <1>1, <1>2, <1>3 DEF Stored, Files
<1>5. PICK d : d = NewContent(p, c)
    OBVIOUS
<1>6. PICK key \in Key : key = k
    BY <1>2
<1>7. CASE job[p].kind = "insert"
    <2>1. L[key] = 0
        BY <1>3, <1>6, <1>7 DEF Data, Target
    <2>2. d = c \o Block(key, len)
        BY <1>3, <1>5, <1>6, <1>7 DEF NewContent
    <2>3. d \in Contents /\ Whole(d, [L EXCEPT ![key] = len])
        BY <1>4, <2>1, <2>2, AppendedWhole
    <2> QED BY <1>2, <1>3, <1>5, <1>6, <2>3
<1>8. CASE job[p].kind # "insert"
    <2>1. PICK off \in Nat : off = hd[p].off
        BY DEF Data, Shown
    <2>2. /\ off + 1 <= Len(c) /\ c[off + 1] = Primary(key) /\ hd[p].n = L[key]
        BY <1>1, <1>3, <1>6, <1>8, <2>1 DEF Data, Target, Kinds
    <2>3. d = Replaced(c, off, L[key], Block(key, len))
        BY <1>3, <1>5, <1>6, <1>8, <2>1, <2>2 DEF NewContent
    <2>4. d \in Contents /\ Whole(d, [L EXCEPT ![key] = len])
        BY <1>4, <2>2, <2>3, ReplacedWhole
    <2> QED BY <1>2, <1>3, <1>5, <1>6, <2>4
<1> QED BY <1>7, <1>8

LEMMA OpenStep ==
  ASSUME Types, NEW p \in Proc, Place(p), Stored, Data(p), Open(p)
  PROVE  Stored' /\ Data(p)'
<1> USE DEF Booting, Creating, Changing
<1> DEFINE r == job[p].ring
           k == job[p].key
           d == NewContent(p, file[r])
<1>1. /\ d \in Contents /\ Whole(d, [want[r] EXCEPT ![k] = job[p].len])
      /\ k \in Key /\ file[r] # Absent /\ pc[p] = "open"
    <2>1. pc[p] = "open"
        BY DEF Open
    <2> QED BY <2>1, CopyFacts
<1>2. /\ r \in Ring /\ CacheOpen(p, r) = file[r]
      /\ AfterClose(AfterOpen(cache[p][r]), CacheOpen(p, r)) \in Seq({Absent, file[r]})
    <2>1. r \in Ring
        BY DEF Data, Target
    <2> QED BY <2>1, ReadFacts DEF Data
<1>3. /\ SetCache(p, r, AfterClose(AfterOpen(cache[p][r]), CacheOpen(p, r)))
      /\ job' = [job EXCEPT ![p].new = d] /\ tmp' = [tmp EXCEPT ![r] = <<>>]
      /\ pc' = [pc EXCEPT ![p] = "write"]
      /\ UNCHANGED <<file, want, known, hd, scanned, bak>>
    BY <1>1, <1>2 DEF Open, Goto
<1>4. DOMAIN file = Ring
    BY DEF Types
<1>5. /\ DOMAIN cache' = Proc /\ DOMAIN cache'[p] = Ring
      /\ \A x \in Ring : cache'[p][x] \in Seq({Absent, file'[x]})
    <2>1. PICK t \in Seq({Absent, file'[r]}) : SetCache(p, r, t)
        BY <1>2, <1>3
    <2> HIDE DEF r
    <2> QED BY <1>2, <1>3, <1>4, <2>1, CacheSet DEF Data
<1>6. /\ job'[p].new = d /\ job'[p].len = job[p].len /\ job'[p].ring = r /\ job'[p].key = k
      /\ job'[p].kind = job[p].kind
    <2>1. PICK e : e = d
        OBVIOUS
    <2> HIDE DEF d
    <2>2. job'[p] = [job[p] EXCEPT !.new = e] /\ DOMAIN job[p] = Fields
        BY <1>3, <2>1 DEF Types, Place, Task
    <2> QED BY <2>1, <2>2 DEF Fields
<1> HIDE DEF d
<1>7. pc'[p] = "write"
    BY <1>3 DEF Types
<1>8. Stored'
    BY <1>3, EmptyFacts DEF Stored, Files
<1>9. Fresh(p)'
    BY <1>7 DEF Fresh
<1>10. Shown(p)'
    BY <1>1, <1>3, <1>5, <1>6, <1>7 DEF Data, Shown
<1>11. Target(p)'
    BY <1>1, <1>6, <1>7 DEF Data, Target
<1>12. Copy(p)'
    BY <1>1, <1>3, <1>6, <1>7 DEF Copy
<1>13. Tabled(p)'
    BY <1>3 DEF Data, Tabled
<1> QED BY <1>8, <1>9, <1>10, <1>11, <1>12, <1>13 DEF Data

\* Writing fname.tmp, or failing to.
LEMMA WriteStep ==
  ASSUME Types, NEW p \in Proc, Place(p), Stored, Data(p), Write(p) \/ WriteFails(p)
  PROVE  Stored' /\ Data(p)'
<1> USE DEF Booting, Creating, Changing
<1>1. /\ UNCHANGED <<job, file, bak, want, hd, cache, known, scanned>> /\ pc[p] = "write"
    BY DEF Write, WriteFails, mem, table
<1>2. /\ job[p].key \in Key /\ job[p].new \in Contents /\ job[p].ring \in Ring
      /\ Whole(job[p].new, [want[job[p].ring] EXCEPT ![job[p].key] = job[p].len])
      /\ file[job[p].ring] # Absent
    BY <1>1 DEF Data, Copy, Target
<1>3. \/ /\ tmp' = [tmp EXCEPT ![job[p].ring] = job[p].new]
         /\ pc'[p] \in {"rename", "backup"}
      \/ /\ tmp' = [tmp EXCEPT ![job[p].ring] = Absent] \/ tmp' = tmp
         /\ pc'[p] = "unlock"
    BY DEF Write, WriteFails, Goto, Types
<1>4. Stored'
    BY <1>1, <1>2, <1>3 DEF Stored, Files
<1>5. Fresh(p)'
    BY <1>3 DEF Fresh
<1>6. Shown(p)' /\ Tabled(p)'
    BY <1>1, <1>3 DEF Data, Shown, Tabled
<1>7. Target(p)'
    BY <1>1, <1>3 DEF Data, Target
<1>8. Copy(p)'
    BY <1>1, <1>2, <1>3 DEF Stored, Files, Copy
<1> QED BY <1>4, <1>5, <1>6, <1>7, <1>8 DEF Data

\* The first rename: a public keyring becomes its own backup.
LEMMA BackupStep ==
  ASSUME Types, NEW p \in Proc, Place(p), Stored, Data(p), Backup(p)
  PROVE  Stored' /\ Data(p)'
<1> USE DEF Booting, Creating, Changing
<1> DEFINE r == job[p].ring
<1>1. /\ pc[p] = "backup" /\ file[r] # Absent /\ r \in Ring /\ r \notin Secret
      /\ DOMAIN file = Ring
    <2>1. pc[p] = "backup"
        BY DEF Backup
    <2> QED BY <2>1 DEF Data, Copy, Target, Place, Task, Types
<1>2. /\ UNCHANGED <<job, hd, known, scanned, tmp, want>>
      /\ SetCache(p, r, Invalidated(cache[p][r]))
      /\ bak' = [bak EXCEPT ![r] = file[r]] /\ file' = [file EXCEPT ![r] = Absent]
      /\ pc' = [pc EXCEPT ![p] = "rename"]
    BY <1>1 DEF Backup, table, Goto
<1>3. pc'[p] = "rename"
    BY <1>2 DEF Types
<1>4. /\ DOMAIN file' = Ring /\ file'[r] = Absent
      /\ \A x \in Ring \ {r} : file'[x] = file[x]
    BY <1>1, <1>2
<1>5. /\ DOMAIN cache' = Proc /\ DOMAIN cache'[p] = Ring
      /\ \A x \in Ring : cache'[p][x] \in Seq({Absent, file'[x]})
    <2>1. cache[p][r] \in Seq({Absent, file[r]})
        BY <1>1 DEF Data, Shown
    <2>2. Invalidated(cache[p][r]) \in Seq({Absent, file'[r]})
        BY <2>1, InvalidFacts
    <2> HIDE DEF r
    <2> QED BY <1>1, <1>2, <1>4, <2>2, CacheSet DEF Data
<1>6. Stored'
    <2>1. file' \in Files /\ bak' \in Files
        BY <1>1, <1>2 DEF Stored, Files
    <2>2. bak'[r] = file[r] /\ \A x \in Ring \ {r} : bak'[x] = bak[x]
        BY <1>1, <1>2 DEF Stored, Files
    <2> QED BY <1>1, <1>2, <1>4, <2>1, <2>2 DEF Stored
<1>7. Fresh(p)'
    BY <1>3 DEF Fresh
<1>8. Shown(p)'
    BY <1>1, <1>2, <1>3, <1>5 DEF Data, Shown
<1>9. Target(p)'
    BY <1>1, <1>2, <1>3 DEF Data, Target
<1>10. Copy(p)'
    BY <1>1, <1>2, <1>3 DEF Data, Copy
<1>11. Tabled(p)'
    BY <1>2 DEF Data, Tabled
<1> QED BY <1>6, <1>7, <1>8, <1>9, <1>10, <1>11 DEF Data

\* The second rename commits the copy.
LEMMA RenameStep ==
  ASSUME Types, NEW p \in Proc, Place(p), Stored, Data(p), Rename(p)
  PROVE  Stored' /\ Data(p)'
<1> USE DEF Booting, Creating, Changing
<1> DEFINE r == job[p].ring
           k == job[p].key
<1>1. /\ pc[p] = "rename" /\ r \in Ring /\ k \in Key /\ job[p].kind \in Kinds
      /\ tmp[r] \in Contents /\ Whole(tmp[r], [want[r] EXCEPT ![k] = job[p].len])
      /\ DOMAIN file = Ring /\ job[p].len \in Nat
      /\ job[p].kind = "delete" => job[p].len = 0
    <2>1. pc[p] = "rename"
        BY DEF Rename
    <2> QED BY <2>1, MaxLenAssumption DEF Data, Copy, Target, Place, Task, Types
<1>2. /\ UNCHANGED <<job, hd, scanned, bak>>
      /\ SetCache(p, r, Invalidated(cache[p][r]))
      /\ file' = [file EXCEPT ![r] = tmp[r]] /\ tmp' = [tmp EXCEPT ![r] = Absent]
      /\ want' = [want EXCEPT ![r][k] = job[p].len]
      /\ known' = [known EXCEPT ![p] = IF r \notin Secret /\ job[p].kind # "delete"
                                         THEN @ \cup {k} ELSE @]
    BY DEF Rename, Committed, Recorded
<1>3. pc'[p] = "unlock"
    BY DEF Rename, Goto, Types
<1>4. /\ DOMAIN file' = Ring /\ file'[r] = tmp[r]
      /\ \A x \in Ring \ {r} : file'[x] = file[x]
    BY <1>1, <1>2
<1>5. /\ DOMAIN cache' = Proc /\ DOMAIN cache'[p] = Ring
      /\ \A x \in Ring : cache'[p][x] \in Seq({Absent, file'[x]})
    <2>1. cache[p][r] \in Seq({Absent, file[r]})
        BY <1>1 DEF Data, Shown
    <2>2. Invalidated(cache[p][r]) \in Seq({Absent, file'[r]})
        BY <2>1, InvalidFacts
    <2> HIDE DEF r
    <2> QED BY <1>1, <1>2, <1>4, <2>2, CacheSet DEF Data
<1>6. /\ want'[r] = [want[r] EXCEPT ![k] = job[p].len]
      /\ \A x \in Ring \ {r} : want'[x] = want[x]
      /\ want' \in [Ring -> Keyblocks]
    <2>1. want \in [Ring -> Keyblocks] /\ want[r] \in Keyblocks
        BY <1>1 DEF Stored
    <2>2. [want[r] EXCEPT ![k] = job[p].len] \in Keyblocks
        BY <1>1, <2>1 DEF Keyblocks
    <2>3. want' = [want EXCEPT ![r] = [want[r] EXCEPT ![k] = job[p].len]]
        BY <1>2, Zenon
    <2> QED BY <1>1, <2>1, <2>2, <2>3
<1>7. tmp[r] # Absent
    BY <1>1, AbsentAssumption DEF Contents
<1>8. Stored'
    <2>1. file' \in Files /\ tmp' \in Files /\ bak' \in Files
        BY <1>1, <1>2 DEF Stored, Files
    <2> QED BY <1>1, <1>2, <1>4, <1>6, <1>7, <2>1 DEF Stored
<1>9. Fresh(p)'
    BY <1>3 DEF Fresh
<1>10. Shown(p)'
    BY <1>1, <1>2, <1>3, <1>5 DEF Data, Shown
<1>11. Target(p)'
    BY <1>1, <1>2, <1>3 DEF Data, Target
<1>12. Copy(p)'
    BY <1>3 DEF Copy
<1>13. Tabled(p)'
    <2>1. /\ DOMAIN known = Proc /\ DOMAIN scanned = Proc /\ scanned[p] \subseteq Ring \ Secret
          /\ \A x \in scanned[p], m \in Key : want[x][m] # 0 => m \in known[p]
        BY DEF Data, Tabled
    <2>2. /\ DOMAIN known' = Proc /\ known[p] \subseteq known'[p]
          /\ r \notin Secret /\ job[p].kind # "delete" => k \in known'[p]
        BY <1>2, <2>1
    <2>3. ASSUME NEW x \in scanned[p], NEW m \in Key, want'[x][m] # 0
          PROVE  m \in known'[p]
        <3>1. CASE x = r /\ m = k
            <4>1. want'[x][m] = job[p].len
                BY <1>1, <1>6, <3>1 DEF Stored, Keyblocks
            <4>2. job[p].kind # "delete" /\ r \notin Secret
                BY <1>1, <2>1, <2>3, <3>1, <4>1
            <4> QED BY <2>2, <3>1, <4>2
        <3>2. CASE ~(x = r /\ m = k)
            <4>1. want'[x][m] = want[x][m]
                BY <1>1, <1>6, <2>1, <3>2 DEF Stored, Keyblocks
            <4> QED BY <2>1, <2>2, <2>3, <4>1
        <3> QED BY <3>1, <3>2
    <2> QED BY <1>2, <2>1, <2>2, <2>3 DEF Tabled
<1> QED BY <1>8, <1>9, <1>10, <1>11, <1>12, <1>13 DEF Data

LEMMA RenameFailsStep ==
  ASSUME Types, NEW p \in Proc, Place(p), Stored, Data(p), RenameFails(p)
  PROVE  Stored' /\ Data(p)'
<1> USE DEF Booting, Creating, Changing
<1> DEFINE r == job[p].ring
<1>1. /\ UNCHANGED <<job, hd, known, scanned, file, bak, tmp, want>>
      /\ SetCache(p, r, Invalidated(cache[p][r])) /\ pc[p] = "rename"
      /\ r \in Ring /\ DOMAIN file = Ring
    BY DEF RenameFails, table, disk, Data, Target, Types
<1>2. pc'[p] = "unlock"
    BY DEF RenameFails, Goto, Types
<1>3. /\ DOMAIN cache' = Proc /\ DOMAIN cache'[p] = Ring
      /\ \A x \in Ring : cache'[p][x] \in Seq({Absent, file'[x]})
    <2>1. cache[p][r] \in Seq({Absent, file[r]})
        BY <1>1 DEF Data, Shown
    <2>2. Invalidated(cache[p][r]) \in Seq({Absent, file'[r]})
        BY <2>1, InvalidFacts
    <2> HIDE DEF r
    <2> QED BY <1>1, <2>2, CacheSet DEF Data
<1>4. Stored'
    BY <1>1, SameStored
<1>5. Fresh(p)' /\ Copy(p)'
    BY <1>2 DEF Fresh, Copy
<1>6. Shown(p)'
    BY <1>1, <1>2, <1>3 DEF Data, Shown
<1>7. Target(p)'
    BY <1>1, <1>2 DEF Data, Target
<1>8. Tabled(p)'
    BY <1>1 DEF Data, Tabled
<1> QED BY <1>4, <1>5, <1>6, <1>7, <1>8 DEF Data

-----------------------------------------------------------------------------
(* The invariant is inductive.                                             *)
LEMMA LengthsFacts ==
  ASSUME NEW c \in Contents
  PROVE  Lengths(c) \in Keyblocks
<1>1. Len(c) \in Nat /\ \A i \in 1 .. Len(c) : c[i] \in Key \X Nat
    BY LenProperties, ElementOfSeq DEF Contents
<1>2. ASSUME NEW k \in Key, At(c, k) # 0 PROVE RunFrom(c, At(c, k) - 1) \in Nat
    <2>1. At(c, k) \in 1 .. Len(c)
        BY <1>1, <1>2, AtFacts
    <2>2. PICK off \in Nat : off = At(c, k) - 1 /\ off < Len(c)
        BY <1>1, <2>1
    <2>3. PICK from : from = SubSeq(c, off + 2, Len(c))
        OBVIOUS
    <2>4. Len(from) \in Nat
        <3>1. \A i \in off + 2 .. Len(c) : c[i] \in Key \X Nat
            BY <1>1
        <3>2. from \in Seq(Key \X Nat)
            BY <1>1, <2>3, <3>1, SubSeqProperties
        <3> QED BY <3>2, LenProperties
    <2>5. PICK next : next = SelectInSeq(from, LAMBDA packet : packet[2] = 1)
        OBVIOUS
    <2>6. next = 0 \/ next \in 1 .. Len(from)
        BY <2>4, <2>5, NextFacts
    <2>7. RunFrom(c, off) = IF next = 0 THEN Len(c) - off ELSE next
        BY <2>3, <2>5 DEF RunFrom
    <2>8. RunFrom(c, off) \in Nat
        BY <1>1, <2>2, <2>4, <2>6, <2>7
    <2> QED BY <2>2, <2>8
<1> QED BY <1>2 DEF Lengths, Keyblocks

LEMMA InitData == Init => DInv
<1> SUFFICES ASSUME Init PROVE DInv
    OBVIOUS
<1>1. Stored
    <2>1. file = Initial /\ Initial \in Files
        BY InitialAssumption DEF Init, Files, Contents
    <2>2. bak \in Files /\ tmp \in Files
        BY DEF Init, Files
    <2>3. ASSUME NEW r \in Ring
          PROVE  /\ want[r] \in Keyblocks
                 /\ file[r] = Absent => Empty(want[r])
                 /\ file[r] # Absent => Whole(file[r], want[r])
        <3>1. want[r] = IF Initial[r] = Absent THEN [k \in Key |-> 0] ELSE Lengths(Initial[r])
            BY DEF Init
        <3>2. CASE Initial[r] = Absent
            BY <2>1, <3>1, <3>2 DEF Keyblocks, Empty
        <3>3. CASE Initial[r] # Absent
            <4>1. Initial[r] \in Contents
                BY <2>1, <3>3 DEF Files
            <4> QED BY <2>1, <3>1, <3>3, <4>1, LengthsFacts, InitialAssumption
        <3> QED BY <3>2, <3>3
    <2>4. want \in [Ring -> Keyblocks]
        BY <2>3 DEF Init
    <2> QED BY <2>1, <2>2, <2>3, <2>4 DEF Stored
<1>2. ASSUME NEW p \in Proc PROVE Data(p)
    <2>1. /\ pc[p] = "boot" /\ job[p] = NoJob /\ hd[p] = NoHandle
          /\ cache[p] = [r \in Ring |-> <<>>] /\ scanned[p] = {}
          /\ DOMAIN cache = Proc /\ DOMAIN hd = Proc /\ DOMAIN known = Proc
          /\ DOMAIN scanned = Proc
        BY DEF Init
    <2>2. Fresh(p)
        <3>1. ASSUME NEW r \in Ring, file[r] = Absent PROVE Empty(want[r])
            BY <3>1 DEF Init, Empty
        <3> QED BY <2>1, <3>1 DEF Fresh
    <2>3. Shown(p)
        BY <2>1 DEF Shown, NoHandle, Position, Changing
    <2>4. Target(p)
        <3>1. NoJob.kind = "none" /\ NoJob.ring \in Ring
            BY NamesFacts DEF NoJob
        <3> QED BY <2>1, <3>1 DEF Target, Kinds, Changing
    <2>5. Copy(p) /\ Tabled(p)
        BY <2>1 DEF Copy, Tabled
    <2> QED BY <2>2, <2>3, <2>4, <2>5 DEF Data
<1> QED BY <1>1, <1>2 DEF DInv

LEMMA DataStep ==
  ASSUME Alone, Restart
  PROVE  IInv /\ DInv /\ [Next]_vars => DInv'
<1> SUFFICES ASSUME IInv, DInv, [Next]_vars PROVE DInv'
    OBVIOUS
<1>1. CASE Next
    <2>1. PICK p \in Proc :
             \/ Boot(p) \/ BootLock(p) \/ BootCheck(p) \/ BootMake(p) \/ BootDone(p)
             \/ Search(p) \/ Get(p) \/ Choose(p) \/ GiveUp(p)
             \/ MakeHandle(p) \/ MakeFails(p) \/ TakeSkip(p) \/ TakeLock(p) \/ TakeFails(p)
             \/ Unlock(p) \/ Release(p)
             \/ Access(p) \/ Open(p) \/ Write(p) \/ WriteFails(p)
             \/ Backup(p) \/ Rename(p) \/ RenameFails(p)
             \/ Die(p) \/ Start(p)
        BY <1>1 DEF Next
    <2>2. Types /\ Place(p) /\ Stored /\ Data(p)
        BY DEF IInv, DInv
    <2>3. Stored' /\ Data(p)'
        BY <2>1, <2>2, QuietStep, FailStep, DieStep, SearchStep, GetStep, ChooseStep,
           ReleaseStep, AccessStep, BootMakeStep, OpenStep, WriteStep, BackupStep,
           RenameStep, RenameFailsStep
    <2>4. \A q \in Proc : q = p
        BY DEF Alone
    <2> QED BY <2>3, <2>4 DEF DInv
<1>2. CASE UNCHANGED vars
    <2>1. UNCHANGED <<pc, idx, job, hd, cache, known, scanned, file, bak, tmp, want>>
        BY <1>2 DEF vars, mem, disk, table
    <2>2. Stored'
        BY <2>1, SameStored DEF DInv
    <2>3. ASSUME NEW p \in Proc PROVE Data(p)'
        BY <2>1 DEF DInv, Data, Fresh, Shown, Target, Copy, Tabled, Now, Rings
    <2> QED BY <2>2, <2>3 DEF DInv
<1> QED BY <1>1, <1>2

LEMMA DataInvariant ==
  ASSUME Alone, Restart
  PROVE  Spec => [](IInv /\ DInv)
<1>1. Init => IInv /\ DInv
    BY InitInv, InitData
<1>2. IInv /\ DInv /\ [Next]_vars => (IInv /\ DInv)'
    BY IInvStep, DataStep
<1> QED BY <1>1, <1>2, PTL DEF Spec

-----------------------------------------------------------------------------
(* The results.                                                            *)

\* One process that works alone loses no keyblock, whatever step it dies or fails
\* at: every one that was committed is there, whole and once, in the keyring or,
\* while that is missing, in its backup (NothingLost).
THEOREM NothingGone == ASSUME Alone, Restart PROVE Spec => []NothingLost
<1>1. IInv /\ DInv => NothingLost
    BY DEF DInv, Stored, NothingLost, Holds, Empty
<1> QED BY <1>1, DataInvariant, PTL

\* It finds every key that is in a keyring: neither the table of known key ids nor
\* a descriptor that was kept hides one from keyring_search (NeverMissed).
THEOREM AlwaysFound == ASSUME Alone, Restart PROVE Spec => []NeverMissed
<1>1. IInv /\ DInv => NeverMissed
    <2> SUFFICES ASSUME DInv, NEW p \in Proc, pc[p] = "missing",
                        file[job[p].ring] # Absent
                 PROVE  At(file[job[p].ring], job[p].key) = 0
        BY DEF NeverMissed
    <2>1. PICK r \in Ring, k \in Key :
             r = job[p].ring /\ k = job[p].key /\ want[r][k] = 0 /\ file[r] # Absent
        BY DEF DInv, Data, Target
    <2>2. PICK c \in Contents, L \in Keyblocks :
             c = file[r] /\ L = want[r] /\ Whole(c, L)
        BY <2>1 DEF DInv, Stored, Files
    <2>3. Len(c) \in Nat
        BY LenProperties DEF Contents
    <2>4. At(c, k) = 0
        BY <2>1, <2>2, <2>3, AtWhole
    <2> QED BY <2>1, <2>2, <2>4
<1> QED BY <1>1, DataInvariant, PTL

===============================================================================
