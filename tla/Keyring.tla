------------------------------- MODULE Keyring -------------------------------
(***************************************************************************)
(* How several processes change the plain keyring files: the transactions  *)
(* of g10/keydb.c and g10/keyring.c with the descriptor cache that         *)
(* util/iobuf.c keeps under them.                                          *)
(*                                                                         *)
(* A transaction searches a keyblock, reads it, takes the dot locks of all *)
(* registered keyrings, copies the file with the change to fname.tmp and   *)
(* renames it into place; a public keyring is first renamed to its backup  *)
(* name and is missing in between.  A file is a sequence of packets        *)
(* <<key, i>>, i = 1 for the primary key packet; an offset is a number of  *)
(* packets.  The dot lock itself is the abstract one of AbstractLock, freed*)
(* when its owner dies.  One keyring of each kind is registered, so that a *)
(* database handle has one resource.                                       *)
(***************************************************************************)
EXTENDS Naturals, Sequences, SequencesExt

CONSTANTS Proc, NoProc,
          Ring,      \* the keyring files
          Secret,    \* those that are secret keyrings
          KrNames,   \* kr_names: the order in which each process locks them
          Key,
          Absent,    \* "no such file", "no descriptor"
          Initial,   \* the content of each keyring at the start
          May,       \* the <<operation, key>> pairs each process may choose
          MaxLen,    \* the packets of a keyblock (bound)
          MaxOps,    \* the transactions of a process (bound)
          Faulty,    \* TRUE when locking, writing and renaming may fail
          Mortal,    \* the processes that may die at any step
          Reboots    \* TRUE when a process may be started again

ASSUME SecretAssumption == Secret \subseteq Ring
ASSUME NoProcAssumption == NoProc \notin Proc
\* keydb_add_resource and keyring_register_filename take every keyring once.
ASSUME KrNamesAssumption ==
  \A p \in Proc : /\ KrNames[p] \in Seq(Ring) /\ KrNames[p] # <<>>
                  /\ Range(KrNames[p]) = Ring /\ IsInjective(KrNames[p])
ASSUME MaxLenAssumption == MaxLen \in Nat
ASSUME AbsentAssumption == Absent \notin Seq(Key \X Nat)

VARIABLES pc, idx,   \* control of each process; position in KrNames
          job,       \* the operation it is at
          hd,        \* its handle: found.offset, found.n_packets, open iobuf
          cache,     \* close_cache: kept descriptors per keyring
          lockhd,    \* the keyrings that have a lock handle
          locked,    \* the keyrings with kr->is_locked
          known,     \* kr_offtbl: the keys that each process has come across
          scanned,   \* the public keyrings with kr->did_full_scan
          ops,       \* history: the transactions begun
          owner,     \* the owner of each dot lock
          file, bak, tmp,  \* the content of fname, fname~ and fname.tmp
          want       \* history: the length of each keyblock ever committed

table == <<known, scanned>>
mem == <<hd, cache, lockhd, locked, table>>
disk == <<owner, file, bak, tmp, want>>
vars == <<pc, idx, job, mem, ops, disk>>

-----------------------------------------------------------------------------
(* Keyring contents.                                                       *)
Block(k, len) == [i \in 1 .. len |-> <<k, i>>]
Primary(k) == <<k, 1>>
At(c, k) == SelectInSeq(c, LAMBDA packet : packet = Primary(k))

(* The packets from offset off up to the next primary key packet.          *)
RunFrom(c, off) ==
  LET from == SubSeq(c, off + 2, Len(c))
      next == SelectInSeq(from, LAMBDA packet : packet[2] = 1)
  IN  IF next = 0 THEN Len(c) - off ELSE next

(* copy_some_packets, skip_some_packets and the new keyblock in between.   *)
Replaced(c, off, n, block) ==
  IF off + n > Len(c) THEN Absent
  ELSE SubSeq(c, 1, off) \o block \o SubSeq(c, off + n + 1, Len(c))

(* The length of each keyblock, and that each is there once, from its      *)
(* primary key packet to its end, and that there is nothing else.          *)
Lengths(c) ==
  [k \in Key |-> IF At(c, k) = 0 THEN 0 ELSE RunFrom(c, At(c, k) - 1)]
Whole(c, lengths) ==
  /\ \A i \in 1 .. Len(c) : c[i][1] \in Key
  /\ \A k \in Key : \E a \in 0 .. Len(c) :
       /\ a + lengths[k] <= Len(c)
       /\ \A i \in 1 .. Len(c) :
            IF i \in a + 1 .. a + lengths[k] THEN c[i] = <<k, i - a>>
                                            ELSE c[i][1] # k
ASSUME InitialAssumption ==
  /\ Initial \in [Ring -> Seq(Key \X Nat) \cup {Absent}]
  /\ \A r \in Ring :
       Initial[r] # Absent => Whole(Initial[r], Lengths(Initial[r]))

(* A content holds what was committed.                                     *)
Holds(c, r) == c # Absent /\ Whole(c, want[r])

NoJob == [kind |-> "none", ring |-> CHOOSE r \in Ring : TRUE,
          key |-> CHOOSE k \in Key : TRUE, len |-> 0, new |-> Absent]
NoHandle == [off |-> 0, n |-> 0, cur |-> Absent]

-----------------------------------------------------------------------------
(* The descriptor cache: the first slot that has a descriptor serves an    *)
(* open, the first empty one takes a close; it is never asked whether the  *)
(* name still refers to that file.                                         *)
Kept(s) == SelectInSeq(s, LAMBDA c : c # Absent)
Slot(s) == SelectInSeq(s, LAMBDA c : c = Absent)

CacheOpen(p, r) ==
  LET s == cache[p][r]
  IN  IF Kept(s) # 0 THEN s[Kept(s)] ELSE file[r]
AfterOpen(s) == IF Kept(s) # 0 THEN [s EXCEPT ![Kept(s)] = Absent] ELSE s
AfterClose(s, c) ==
  IF c = Absent THEN s
  ELSE IF Slot(s) # 0 THEN [s EXCEPT ![Slot(s)] = c]
  ELSE <<c>> \o s
Invalidated_None(s) == s
Invalidated(s) == [i \in 1 .. Len(s) |-> Absent]
SetCache(p, r, s) == cache' = [cache EXCEPT ![p][r] = s]

-----------------------------------------------------------------------------
(* The offset table: in spite of its name the set of key ids that occurred *)
(* in a public keyring, good for negative answers once it is complete.     *)
Ready(p) == Ring \ Secret \subseteq scanned[p]

(* A search that reads the packets of a public keyring up to the n-th.     *)
Noted(p, r, c, n) ==
  IF r \in Secret \/ Ready(p) THEN UNCHANGED table
  ELSE /\ known' = [known EXCEPT ![p] = @ \cup {c[i][1] : i \in 1 .. n}]
       /\ scanned' = [scanned EXCEPT ![p] =
                        IF pc'[p] = "missing" THEN @ \cup {r} ELSE @]

(* A keyblock was inserted or updated.  A deleted one stays in the table.  *)
Recorded_NoInsert(p) ==
  known' = [known EXCEPT ![p] =
              IF job[p].ring \notin Secret /\ job[p].kind = "update"
              THEN @ \cup {job[p].key} ELSE @]
Recorded(p) ==
  known' = [known EXCEPT ![p] =
              IF job[p].ring \notin Secret /\ job[p].kind # "delete"
              THEN @ \cup {job[p].key} ELSE @]

-----------------------------------------------------------------------------
Goto(p, s) == pc' = [pc EXCEPT ![p] = s]
Rings_JobFirst(p) ==
  IF job[p].kind = "none" THEN KrNames[p]
  ELSE <<job[p].ring>> \o SelectSeq(KrNames[p], LAMBDA r : r # job[p].ring)
Rings(p) == KrNames[p]
Now(p) == Rings(p)[idx[p]]

(* The loops over kr_names: on to the next keyring or to what comes after. *)
Step(p, after) ==
  IF idx[p] < Len(Rings(p))
    THEN idx' = [idx EXCEPT ![p] = @ + 1] /\ UNCHANGED pc
    ELSE idx' = [idx EXCEPT ![p] = 1] /\ Goto(p, after)

IsWritable(r) == file[r] # Absent

Init ==
  /\ pc = [p \in Proc |-> "boot"] /\ idx = [p \in Proc |-> 1]
  /\ job = [p \in Proc |-> NoJob]
  /\ hd = [p \in Proc |-> NoHandle]
  /\ cache = [p \in Proc |-> [r \in Ring |-> <<>>]]
  /\ lockhd = [p \in Proc |-> {}] /\ locked = [p \in Proc |-> {}]
  /\ known = [p \in Proc |-> {}] /\ scanned = [p \in Proc |-> {}]
  /\ ops = [p \in Proc |-> 0]
  /\ owner = [r \in Ring |-> NoProc]
  /\ file = Initial
  /\ bak = [r \in Ring |-> Absent] /\ tmp = [r \in Ring |-> Absent]
  /\ want = [r \in Ring |-> IF Initial[r] = Absent THEN [k \in Key |-> 0]
                             ELSE Lengths(Initial[r])]

-----------------------------------------------------------------------------
(* maybe_create_keyring, for each keyring at start-up.                     *)
Boot(p) ==
  /\ pc[p] = "boot"
  /\ IF file[Now(p)] # Absent THEN Step(p, "idle")
                              ELSE Goto(p, "bootlock") /\ UNCHANGED idx
  /\ UNCHANGED <<job, mem, ops, disk>>

BootLock(p) ==
  /\ pc[p] = "bootlock" /\ owner[Now(p)] = NoProc
  /\ owner' = [owner EXCEPT ![Now(p)] = p]
  /\ Goto(p, "bootcheck")
  /\ UNCHANGED <<idx, job, mem, ops, file, bak, tmp, want>>

BootCheck_Unlocked(p) ==
  /\ pc[p] = "bootcheck"
  /\ Goto(p, "bootmake")
  /\ UNCHANGED <<idx, job, mem, ops, disk>>

BootCheck(p) ==
  /\ pc[p] = "bootcheck"
  /\ Goto(p, IF file[Now(p)] = Absent THEN "bootmake" ELSE "bootdone")
  /\ UNCHANGED <<idx, job, mem, ops, disk>>

(* iobuf_create truncates what may have come there meanwhile.              *)
BootMake(p) ==
  /\ pc[p] = "bootmake"
  /\ file' = [file EXCEPT ![Now(p)] = <<>>]
  /\ SetCache(p, Now(p), Invalidated(cache[p][Now(p)]))
  /\ Goto(p, "bootdone")
  /\ UNCHANGED <<idx, job, hd, lockhd, locked, table, ops, owner, bak, tmp, want>>

BootDone(p) ==
  /\ pc[p] = "bootdone"
  /\ owner' = [owner EXCEPT ![Now(p)] = NoProc]
  /\ pc' = [pc EXCEPT ![p] = "boot"]
  /\ UNCHANGED <<idx, job, mem, ops, file, bak, tmp, want>>

-----------------------------------------------------------------------------
(* keydb_search on a fresh handle, by key id or by something else.  A hit  *)
(* leaves the file open.                                                   *)
Search(p) ==
  /\ pc[p] = "idle" /\ ops[p] < MaxOps
  /\ \E r \in Ring, k \in Key, byKid \in BOOLEAN :
       LET c == CacheOpen(p, r)
           s == AfterOpen(cache[p][r])
           denied == byKid /\ r \notin Secret /\ Ready(p) /\ k \notin known[p]
       IN
       /\ \E kind \in {"insert", "update", "delete"} : <<kind, k>> \in May[p]
       /\ c # Absent
       /\ job' = [job EXCEPT ![p] = [NoJob EXCEPT !.ring = r, !.key = k]]
       /\ IF At(c, k) # 0 /\ ~denied
            THEN /\ hd' = [hd EXCEPT ![p] =
                             [off |-> At(c, k) - 1, n |-> 0, cur |-> c]]
                 /\ SetCache(p, r, s)
                 /\ Goto(p, "found")
                 /\ Noted(p, r, c, At(c, k))
            ELSE /\ hd' = [hd EXCEPT ![p] = NoHandle]
                 /\ SetCache(p, r, AfterClose(s, c))
                 /\ Goto(p, "missing")
                 /\ Noted(p, r, c, Len(c))
  /\ ops' = [ops EXCEPT ![p] = @ + 1]
  /\ UNCHANGED <<idx, lockhd, locked, disk>>

(* keydb_get_keyblock: the file is opened once more; what starts at the    *)
(* offset now is the keyblock that the caller goes on with.                *)
Get(p) ==
  /\ pc[p] = "found"
  /\ LET r == job[p].ring
         c == CacheOpen(p, r)
         off == hd[p].off
     IN
     /\ SetCache(p, r, AfterClose(AfterOpen(cache[p][r]), c))
     /\ IF c # Absent /\ off < Len(c) /\ c[off + 1][2] = 1
          THEN /\ job' = [job EXCEPT ![p].key = c[off + 1][1]]
               /\ hd' = [hd EXCEPT ![p].n = RunFrom(c, off)]
               /\ Goto(p, "got")
          ELSE Goto(p, "release") /\ UNCHANGED <<job, hd>>
  /\ UNCHANGED <<idx, lockhd, locked, table, ops, disk>>

(* The caller's decision: keydb_update_keyblock, keydb_delete_keyblock, or *)
(* after keydb_locate_writable keydb_insert_keyblock.                      *)
Choose(p) ==
  /\ pc[p] \in {"got", "missing"}
  /\ \E kind \in {"insert", "update", "delete"}, len \in 0 .. MaxLen :
       /\ <<kind, job[p].key>> \in May[p]
       /\ kind = "insert" <=> pc[p] = "missing"
       /\ kind = "delete" <=> len = 0
       /\ kind = "insert" => IsWritable(job[p].ring)
       /\ job' = [job EXCEPT ![p].kind = kind, ![p].len = len]
  /\ Goto(p, "make")
  /\ UNCHANGED <<idx, mem, ops, disk>>

GiveUp(p) ==
  /\ pc[p] \in {"got", "missing"}
  /\ Goto(p, "release")
  /\ UNCHANGED <<idx, job, mem, ops, disk>>

-----------------------------------------------------------------------------
AfterMake(p) == IF job'[p].kind = "none" THEN "unlock" ELSE "take"

MakeHandle_Stops(p) ==
  /\ pc[p] = "make"
  /\ UNCHANGED job
  /\ IF IsWritable(Now(p))
       THEN /\ lockhd' = [lockhd EXCEPT ![p] = @ \cup {Now(p)}]
            /\ Step(p, AfterMake(p))
       ELSE /\ idx' = [idx EXCEPT ![p] = 1] /\ Goto(p, AfterMake(p))
            /\ UNCHANGED lockhd
  /\ UNCHANGED <<hd, cache, locked, table, ops, disk>>

(* keyring_lock: a pass that makes the lock handles and a pass that takes  *)
(* them.  Both skip a keyring that is not there.                           *)
MakeHandle(p) ==
  /\ pc[p] = "make"
  /\ lockhd' = [lockhd EXCEPT ![p] =
                  IF IsWritable(Now(p)) THEN @ \cup {Now(p)} ELSE @]
  /\ UNCHANGED <<job, hd, cache, locked, table, ops, disk>>
  /\ Step(p, AfterMake(p))

(* dotlock_create fails: the rest is tried, and no lock is taken.          *)
MakeFails(p) ==
  /\ Faulty /\ pc[p] = "make" /\ IsWritable(Now(p)) /\ Now(p) \notin lockhd[p]
  /\ job' = [job EXCEPT ![p].kind = "none"]
  /\ UNCHANGED <<mem, ops, disk>>
  /\ Step(p, AfterMake(p))

AfterTake(p) == IF job'[p].kind = "none" THEN "unlock" ELSE "access"

TakeSkip(p) ==
  /\ pc[p] = "take"
  /\ ~IsWritable(Now(p)) \/ Now(p) \in locked[p]
  /\ UNCHANGED <<job, mem, ops, disk>>
  /\ Step(p, AfterTake(p))

TakeLock_Shared(p) ==
  /\ pc[p] = "take" /\ IsWritable(Now(p)) /\ Now(p) \notin locked[p]
  /\ Now(p) \in lockhd[p]
  /\ owner' = [owner EXCEPT ![Now(p)] = p]
  /\ locked' = [locked EXCEPT ![p] = @ \cup {Now(p)}]
  /\ UNCHANGED <<job, hd, cache, lockhd, table, ops, file, bak, tmp, want>>
  /\ Step(p, AfterTake(p))

TakeLock(p) ==
  /\ pc[p] = "take" /\ IsWritable(Now(p)) /\ Now(p) \notin locked[p]
  /\ Now(p) \in lockhd[p]
  /\ owner[Now(p)] = NoProc
  /\ owner' = [owner EXCEPT ![Now(p)] = p]
  /\ locked' = [locked EXCEPT ![p] = @ \cup {Now(p)}]
  /\ UNCHANGED <<job, hd, cache, lockhd, table, ops, file, bak, tmp, want>>
  /\ Step(p, AfterTake(p))

(* dotlock_take returns an error: the rest is tried and all are released.  *)
TakeFails(p) ==
  /\ Faulty /\ pc[p] = "take" /\ IsWritable(Now(p)) /\ Now(p) \notin locked[p]
  /\ Now(p) \in lockhd[p]
  /\ job' = [job EXCEPT ![p].kind = "none"]
  /\ UNCHANGED <<mem, ops, disk>>
  /\ Step(p, AfterTake(p))

(* A NULL lock handle is followed.                                         *)
NullHandle(p) ==
  /\ pc[p] = "take" /\ IsWritable(Now(p))
  /\ Now(p) \notin locked[p] \cup lockhd[p]

Unlock(p) ==
  /\ pc[p] = "unlock"
  /\ IF IsWritable(Now(p)) /\ Now(p) \in locked[p]
       THEN /\ owner' = [owner EXCEPT ![Now(p)] = NoProc]
            /\ locked' = [locked EXCEPT ![p] = @ \ {Now(p)}]
       ELSE UNCHANGED <<owner, locked>>
  /\ UNCHANGED <<job, hd, cache, lockhd, table, ops, file, bak, tmp, want>>
  /\ Step(p, "release")

(* keydb_release: the open file goes to the descriptor cache.              *)
Release(p) ==
  /\ pc[p] = "release"
  /\ SetCache(p, job[p].ring, AfterClose(cache[p][job[p].ring], hd[p].cur))
  /\ hd' = [hd EXCEPT ![p] = NoHandle]
  /\ job' = [job EXCEPT ![p] = NoJob]
  /\ Goto(p, "idle")
  /\ UNCHANGED <<idx, lockhd, locked, table, ops, disk>>

-----------------------------------------------------------------------------
(* do_copy.  The file the search left open is closed first.                *)
Access(p) ==
  /\ pc[p] = "access"
  /\ SetCache(p, job[p].ring, AfterClose(cache[p][job[p].ring], hd[p].cur))
  /\ hd' = [hd EXCEPT ![p].cur = Absent]
  /\ Goto(p, IF IsWritable(job[p].ring) THEN "open" ELSE "unlock")
  /\ UNCHANGED <<idx, job, lockhd, locked, table, ops, disk>>

NewContent(p, c) ==
  IF job[p].kind = "insert"
    THEN c \o Block(job[p].key, job[p].len)
    ELSE Replaced(c, hd[p].off, hd[p].n, Block(job[p].key, job[p].len))

Committed(p) ==
  want' = [want EXCEPT ![job[p].ring][job[p].key] = job[p].len]

(* An insert that finds no file after all creates it on the spot; when     *)
(* that fails the new file is removed.                                     *)
Open(p) ==
  /\ pc[p] = "open"
  /\ LET r == job[p].ring
         c == CacheOpen(p, r)
     IN
     /\ SetCache(p, r, AfterClose(AfterOpen(cache[p][r]), c))
     /\ \/ /\ c # Absent
           /\ job' = [job EXCEPT ![p].new = NewContent(p, c)]
           /\ tmp' = [tmp EXCEPT ![r] = <<>>]
           /\ Goto(p, "write")
           /\ UNCHANGED <<file, want, known>>
        \/ /\ c = Absent /\ job[p].kind = "insert"
           /\ file' = [file EXCEPT ![r] = Block(job[p].key, job[p].len)]
           /\ Committed(p) /\ Recorded(p)
           /\ Goto(p, "unlock")
           /\ UNCHANGED <<job, tmp>>
        \/ /\ c = Absent /\ (Faulty \/ job[p].kind # "insert")
           /\ Goto(p, "unlock")
           /\ UNCHANGED <<job, file, tmp, want, known>>
  /\ UNCHANGED <<idx, hd, lockhd, locked, scanned, ops, owner, bak>>

Write(p) ==
  /\ pc[p] = "write" /\ job[p].new # Absent
  /\ tmp' = [tmp EXCEPT ![job[p].ring] = job[p].new]
  /\ Goto(p, IF job[p].ring \in Secret THEN "rename" ELSE "backup")
  /\ UNCHANGED <<idx, job, mem, ops, owner, file, bak, want>>

WriteFails_KeepsLock(p) ==
  /\ pc[p] = "write" /\ (Faulty \/ job[p].new = Absent)
  /\ \/ tmp' = [tmp EXCEPT ![job[p].ring] = Absent]
     \/ job[p].new # Absent /\ UNCHANGED tmp
  /\ Goto(p, "release")
  /\ UNCHANGED <<idx, job, mem, ops, owner, file, bak, want>>

(* A copy or write error: iobuf_cancel removes the temporary file.  When   *)
(* the last write fails, in iobuf_close, it stays.                         *)
WriteFails(p) ==
  /\ pc[p] = "write" /\ (Faulty \/ job[p].new = Absent)
  /\ \/ tmp' = [tmp EXCEPT ![job[p].ring] = Absent]
     \/ job[p].new # Absent /\ UNCHANGED tmp
  /\ Goto(p, "unlock")
  /\ UNCHANGED <<idx, job, mem, ops, owner, file, bak, want>>

(* rename_tmp_file drops the cached descriptors before the renames.        *)
Backup(p) ==
  /\ pc[p] = "backup"
  /\ LET r == job[p].ring
     IN
     /\ SetCache(p, r, Invalidated(cache[p][r]))
     /\ IF file[r] # Absent
          THEN /\ bak' = [bak EXCEPT ![r] = file[r]]
               /\ file' = [file EXCEPT ![r] = Absent]
               /\ Goto(p, "rename")
          ELSE Goto(p, "unlock") /\ UNCHANGED <<bak, file>>
  /\ UNCHANGED <<idx, job, hd, lockhd, locked, table, ops, owner, tmp, want>>

Rename(p) ==
  /\ pc[p] = "rename"
  /\ LET r == job[p].ring
     IN
     /\ SetCache(p, r, Invalidated(cache[p][r]))
     /\ tmp[r] # Absent
     /\ file' = [file EXCEPT ![r] = tmp[r]]
     /\ tmp' = [tmp EXCEPT ![r] = Absent]
  /\ Committed(p) /\ Recorded(p)
  /\ Goto(p, "unlock")
  /\ UNCHANGED <<idx, job, hd, lockhd, locked, scanned, ops, owner, bak>>

RenameFails(p) ==
  /\ pc[p] = "rename" /\ (Faulty \/ tmp[job[p].ring] = Absent)
  /\ SetCache(p, job[p].ring, Invalidated(cache[p][job[p].ring]))
  /\ Goto(p, "unlock")
  /\ UNCHANGED <<idx, job, hd, lockhd, locked, table, ops, disk>>

-----------------------------------------------------------------------------
(* The process ends; a waiter finds its lock files stale, or they are      *)
(* removed at exit.  What it had in memory is gone.                        *)
Die(p) ==
  /\ pc[p] # "dead" /\ (p \in Mortal \/ NullHandle(p))
  /\ Goto(p, "dead")
  /\ idx' = [idx EXCEPT ![p] = 1]
  /\ job' = [job EXCEPT ![p] = NoJob]
  /\ hd' = [hd EXCEPT ![p] = NoHandle]
  /\ cache' = [cache EXCEPT ![p] = [r \in Ring |-> <<>>]]
  /\ lockhd' = [lockhd EXCEPT ![p] = {}]
  /\ locked' = [locked EXCEPT ![p] = {}]
  /\ known' = [known EXCEPT ![p] = {}]
  /\ scanned' = [scanned EXCEPT ![p] = {}]
  /\ owner' = [r \in Ring |-> IF owner[r] = p THEN NoProc ELSE owner[r]]
  /\ UNCHANGED <<ops, file, bak, tmp, want>>

Start(p) ==
  /\ pc[p] = "dead" /\ Reboots
  /\ Goto(p, "boot")
  /\ UNCHANGED <<idx, job, mem, ops, disk>>

Next ==
  \E p \in Proc :
    \/ Boot(p) \/ BootLock(p) \/ BootCheck(p) \/ BootMake(p) \/ BootDone(p)
    \/ Search(p) \/ Get(p) \/ Choose(p) \/ GiveUp(p)
    \/ MakeHandle(p) \/ MakeFails(p) \/ TakeSkip(p) \/ TakeLock(p) \/ TakeFails(p)
    \/ Unlock(p) \/ Release(p)
    \/ Access(p) \/ Open(p) \/ Write(p) \/ WriteFails(p)
    \/ Backup(p) \/ Rename(p) \/ RenameFails(p)
    \/ Die(p) \/ Start(p)

Spec == Init /\ [][Next]_vars

-----------------------------------------------------------------------------
Steps == {"dead", "boot", "bootlock", "bootcheck", "bootmake", "bootdone",
          "idle", "found", "missing", "got", "release", "make", "take",
          "unlock", "access", "open", "write", "backup", "rename"}

TypeOK ==
  /\ pc \in [Proc -> Steps]
  /\ \A p \in Proc :
       /\ idx[p] \in 1 .. Len(Rings(p))
       /\ job[p].ring \in Ring /\ job[p].key \in Key
       /\ job[p].len \in 0 .. MaxLen
       /\ locked[p] \subseteq lockhd[p] /\ lockhd[p] \subseteq Ring
       /\ known[p] \subseteq Key /\ scanned[p] \subseteq Ring \ Secret
       /\ ops[p] \in 0 .. MaxOps
  /\ owner \in [Ring -> Proc \cup {NoProc}]

(* From opening the source file to the last rename, at most one process    *)
(* copies a secret keyring: all of them write the same fname.tmp.  (A      *)
(* public one is missing during its two renames, and keyring_lock skips it.) *)
Copying(p, r) == job[p].ring = r /\ pc[p] \in {"open", "write", "backup", "rename"}
OneWriter ==
  \A r \in Secret, p, q \in Proc : Copying(p, r) /\ Copying(q, r) => p = q

(* "first make sure the lock handles are created": keyring_lock hands no   *)
(* NULL handle of a secret keyring to dotlock_take in its second pass.     *)
HandlesMade == \A p \in Proc : Now(p) \in Secret => ~NullHandle(p)

(* A process that is through with its transaction holds the lock of a      *)
(* keyring only when the keyring is missing, for keyring_lock skips those. *)
NoLeakedLock ==
  \A p \in Proc, r \in Ring :
    owner[r] = p /\ pc[p] \in {"idle", "found", "missing", "got"}
      => file[r] = Absent

(* Whatever step a process dies or fails at, the keyblocks committed so    *)
(* far are there, whole and once: in the keyring, or while that is missing *)
(* in its backup.                                                          *)
NothingLost ==
  \A r \in Ring :
    \/ Holds(file[r], r)
    \/ file[r] = Absent /\ r \notin Secret /\ Holds(bak[r], r)
    \/ file[r] = Absent /\ \A k \in Key : want[r][k] = 0

(* A process that works alone finds every key that is in a keyring: neither *)
(* the table of known key ids nor a descriptor that was kept hides one from *)
(* keyring_search, whatever was inserted, updated, deleted or failed before. *)
NeverMissed ==
  \A p \in Proc : LET f == file[job[p].ring] IN
    pc[p] = "missing" /\ f # Absent => At(f, job[p].key) = 0

(* "we do the next stuff in a locked state": maybe_create_keyring truncates *)
(* no secret keyring that another process has created or has changed.      *)
CreatesOnlyMissing ==
  [][ \A p \in Proc : pc[p] = "bootmake" /\ pc'[p] = "bootdone"
                         /\ Now(p) \in Secret => file[Now(p)] = Absent ]_vars

(* No two processes wait for each other with a lock the other one needs.   *)
WaitsFor(p, q) ==
  \/ /\ pc[p] = "take" /\ Now(p) \in lockhd[p] \ locked[p]
     /\ IsWritable(Now(p)) /\ owner[Now(p)] = q
  \/ pc[p] = "bootlock" /\ owner[Now(p)] = q
NoDeadlock ==
  \A p, q \in Proc : p # q => ~(WaitsFor(p, q) /\ WaitsFor(q, p))

=============================================================================
