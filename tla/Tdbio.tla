-------------------------------- MODULE Tdbio --------------------------------
(***************************************************************************)
(* The trust database: g10/tdbio.c and the operations of g10/trustdb.c and *)
(* g10/tdbdump.c that change it.                                           *)
(*                                                                         *)
(* A file of records holds a version record, a hash table on the first     *)
(* byte of the fingerprint, lists for the bytes that several keys share,   *)
(* one trust record per key and the validity records of their user ids.    *)
(* Each process has a write-back cache of the records it has written, and  *)
(* a dot lock is held only while records are written back.  What a process *)
(* reads it reads without the lock.                                        *)
(*                                                                         *)
(* An operation computes in one step all that happens in memory, and       *)
(* appends the blank records it needs; the writes to the file are then one *)
(* step each, so that the process may die between any two of them.  A key  *)
(* has one user id here, a trust record at most one validity record.       *)
(***************************************************************************)
EXTENDS Naturals, FiniteSets, Sequences, SequencesExt

CONSTANTS Proc, NoProc,
          Absent,     \* "no such file", "no such record"
          Fpr,        \* the keys
          Byte,       \* the first byte of their fingerprints
          Slots,      \* the values of a byte: 256 in the code
          PerHtbl,    \* ITEMS_PER_HTBL_RECORD: 9 in the code
          PerHlst,    \* ITEMS_PER_HLST_RECORD: 6 in the code
          CacheSoft,  \* MAX_CACHE_ENTRIES_SOFT: 200 in the code
          Values,     \* the ownertrust values that users assign
          Imports,    \* the files that import_ownertrust may be given
          Checks,     \* the sets of keys that validate_keys may find valid
          LockOnce,   \* opt.lock_once: the lock is kept until the exit
          Mortal,     \* the processes that may die at any step
          MaxOps      \* the operations of all processes (bound)

ASSUME NoProcAssumption == NoProc \notin Proc
ASSUME ByteAssumption == Byte \in [Fpr -> 0 .. Slots - 1]
ASSUME SizeAssumption == {Slots, PerHtbl, CacheSoft} \subseteq Nat \ {0}
ASSUME ListAssumption == PerHlst \in Nat \ {0, 1}
ASSUME ChecksAssumption == Checks \subseteq SUBSET Fpr /\ \A K \in Checks : IsFiniteSet(K)
ASSUME ValuesAssumption == Values \subseteq Nat \ {0}
ASSUME ImportsAssumption == Imports \subseteq Seq(Fpr \X (Nat \ {0}))
ASSUME LockOnceAssumption == LockOnce \in BOOLEAN
ASSUME MaxOpsAssumption == MaxOps \in Nat

VARIABLES pc, todo,   \* control of each process; its disk accesses to come
          job,        \* what the operation in progress is to achieve
          cache,      \* cache_list
          table,      \* the static trusthashtbl of get_trusthashrec
          file, lock, \* trustdb.gpg and the owner of its dot lock
          want,       \* history: what may be known of each key
          hurt,       \* history: the keys whose records a death left half done
          due,        \* history: an ownertrust changed since the last check
          ops         \* history: the operations begun

vars == <<pc, todo, job, cache, table, file, lock, want, hurt, due, ops>>

-----------------------------------------------------------------------------
(* Records.  A record number counts from 0, the version record.            *)
Blank == [type |-> "blank"]
Ver(tbl, next) == [type |-> "ver", tbl |-> tbl, next |-> next]
Htbl(item) == [type |-> "htbl", item |-> item]
Hlst(rnum, next) == [type |-> "hlst", rnum |-> rnum, next |-> next]
Trust(k, ot, valid) == [type |-> "trust", fpr |-> k, ot |-> ot, valid |-> valid]
Valid(value) == [type |-> "valid", value |-> value]
Records ==
  {Blank} \cup [type : {"ver"}, tbl : Nat, next : Nat]
          \cup [type : {"htbl"}, item : [0 .. PerHtbl - 1 -> Nat]]
          \cup [type : {"hlst"}, rnum : [1 .. PerHlst -> Nat], next : Nat]
          \cup [type : {"trust"}, fpr : Fpr, ot : Nat, valid : Nat]
          \cup [type : {"valid"}, value : Nat]
ASSUME AbsentAssumption == Absent \notin Records \cup Seq(Records)

Tables == (Slots + PerHtbl - 1) \div PerHtbl
EmptyHtbl == Htbl([i \in 0 .. PerHtbl - 1 |-> 0])
List(items) == [i \in 1 .. PerHlst |-> IF i <= Len(items) THEN items[i] ELSE 0]

(* lseek and write: a gap that this leaves reads as blank records.         *)
Reaching(f, n) ==
  IF n < Len(f) THEN f ELSE f \o [i \in 1 .. n + 1 - Len(f) |-> Blank]
Written(f, n, r) == [Reaching(f, n) EXCEPT ![n + 1] = r]

Entry(n, r, dirty) == [used |-> TRUE, dirty |-> dirty, no |-> n, rec |-> r]
DirtyIn(c) == {i \in 1 .. Len(c) : c[i].used /\ c[i].dirty}
CleanIn(c) == {i \in 1 .. Len(c) : c[i].used /\ ~c[i].dirty}
FirstOf(S, n) == {i \in S : Cardinality({j \in S : j <= i}) <= n}
AtLeastOne(n) == IF n = 0 THEN 1 ELSE n

(* What an operation works on: the cache, the file as it will be, the      *)
(* disk accesses to get there, and whether all calls have succeeded.       *)
Memory(p, f) ==
  [c |-> cache[p], f |-> f, t |-> <<>>, tbl |-> table[p],
   locked |-> lock = p, ok |-> TRUE]

(* take_write_lock, the records in S in the order of the list, and         *)
(* release_write_lock.                                                     *)
Lock == [call |-> "lock"]
Unlock == [call |-> "unlock"]
Saved(m, e) ==
  [m EXCEPT !.f = Written(@, e.no, e.rec),
            !.t = Append(@, [call |-> "put", no |-> e.no, rec |-> e.rec])]
WriteBack(m, S, release) ==
  LET one(w, i) == IF i \in S THEN Saved(w, m.c[i]) ELSE w
      locked == IF m.locked THEN m ELSE [m EXCEPT !.t = Append(@, Lock)]
      saved == FoldLeftDomain(one, locked, m.c)
  IN  [saved EXCEPT !.t = IF release THEN Append(@, Unlock) ELSE @,
                    !.locked = ~release]

-----------------------------------------------------------------------------
(* tdbio_read_record: only what was written by this process is cached.     *)
In(c, n) == SelectInSeq(c, LAMBDA e : e.used /\ e.no = n)
Read(m, n) ==
  IF In(m.c, n) # 0 THEN m.c[In(m.c, n)].rec
  ELSE IF n < Len(m.f) THEN m.f[n + 1] ELSE Absent

Is(r, type) == r # Absent /\ r.type = type
Failed(m) == [m EXCEPT !.ok = FALSE]

(* put_record_into_cache with room for the record: c with record n in it.  *)
Free(c) == SelectInSeq(c, LAMBDA e : ~e.used)
Stored(c, n, r) ==
  LET i == In(c, n)
  IN  IF i # 0 THEN [c EXCEPT ![i] = Entry(n, r, @.dirty \/ @.rec # r)]
      ELSE IF Free(c) # 0 THEN [c EXCEPT ![Free(c)] = Entry(n, r, TRUE)]
      ELSE <<Entry(n, r, TRUE)>> \o c

Without(c, S) == [i \in 1 .. Len(c) |-> [c[i] EXCEPT !.used = @ /\ i \notin S]]
OldClean(c) == FirstOf(CleanIn(c), AtLeastOne(Cardinality(CleanIn(c)) \div 3))
OldDirty(c) == FirstOf(DirtyIn(c), AtLeastOne(Cardinality(DirtyIn(c)) \div 5))

MakeRoom_DropsDirty(m) ==
  [m EXCEPT !.c = Without(@, FirstOf(CleanIn(@) \cup DirtyIn(@),
                                     AtLeastOne(Len(@) \div 3)))]

(* A full cache drops a third of its clean records, or when all are dirty  *)
(* writes a fifth of them back.                                            *)
MakeRoom(m) ==
  IF CleanIn(m.c) # {} THEN [m EXCEPT !.c = Without(@, OldClean(@))]
  ELSE [WriteBack(m, OldDirty(m.c), ~LockOnce) EXCEPT
         !.c = Without(@, OldDirty(@))]

Full_OneMore(c, n) == In(c, n) = 0 /\ Free(c) = 0 /\ Len(c) > CacheSoft
Full(c, n) == In(c, n) = 0 /\ Free(c) = 0 /\ Len(c) >= CacheSoft
Put(m, n, r) ==
  IF ~m.ok THEN m
  ELSE [(IF Full(m.c, n) THEN MakeRoom(m) ELSE m) EXCEPT
         !.c = Stored(@, n, r), !.f = Reaching(@, n)]

(* tdbio_sync.                                                             *)
Sync(m) ==
  IF DirtyIn(m.c) = {} \/ ~m.ok THEN m
  ELSE LET w == WriteBack(m, DirtyIn(m.c), ~m.locked /\ ~LockOnce)
       IN  [w EXCEPT !.c = [i \in 1 .. Len(@) |-> [@[i] EXCEPT !.dirty = FALSE]]]

(* The calls of a sequence, in order.  A write to a number beyond the file *)
(* is to a record that tdbio_new_recnum has appended: none is ever freed.  *)
Write(n, r) == [call |-> "write", no |-> n, rec |-> r]
Fail == [call |-> "fail"]
Skip == [call |-> "skip"]
NewRecnum(m) == Len(m.f)
Called(m, d) ==
  CASE d.call = "write" -> Put(m, d.no, d.rec)
    [] d.call = "fail" -> Failed(m)
    [] d.call = "skip" -> m
Do(m, calls) == FoldLeft(Called, m, calls)

(* tdbio_write_nextcheck, and the sync that follows it.                    *)
Schedule(m, next) ==
  IF ~Is(Read(m, 0), "ver") THEN Failed(m)
  ELSE Sync(Put(m, 0, Ver(Read(m, 0).tbl, next)))

-----------------------------------------------------------------------------
(* open_db, get_trusthashrec, the hash table record and the slot of a key. *)
WithTable(m) ==
  IF ~Is(Read(m, 0), "ver") THEN Failed(m)
  ELSE IF m.tbl = 0 THEN [m EXCEPT !.tbl = Read(m, 0).tbl] ELSE m
Bucket(m, k) == m.tbl + Byte[k] \div PerHtbl
Slot(k) == Byte[k] % PerHtbl

(* The numbers of the list records from record n on, which are not more    *)
(* than the file has records.  The last one is of another type when the    *)
(* list is broken.                                                         *)
Followed(m, chain) ==
  LET r == Read(m, Last(chain))
  IN  IF Is(r, "hlst") /\ r.next # 0 THEN Append(chain, r.next) ELSE chain
Chain(m, n) ==
  LET links[i \in 0 .. Len(m.f)] ==
        IF i = 0 THEN <<n>> ELSE Followed(m, links[i - 1])
  IN  links[Len(m.f)]
Unbroken(m, chain) == Is(Read(m, Last(chain)), "hlst")

(* lookup_hashtable with cmp_trec_fpr: the number of the trust record, 0   *)
(* when there is none, Absent for the errors that end in tdbio_invalid.    *)
IsOf(m, n, k) == Is(Read(m, n), "trust") /\ Read(m, n).fpr = k

(* The walk over the items of a list record ends at the record of the key  *)
(* and, as if there were none, at one beyond the end of the file: to read  *)
(* there gives -1, which says "not found" as well.                         *)
Found(m, n) == IF Read(m, n) = Absent THEN 0 ELSE n

Hits(m, n, k) ==
  IF ~Is(Read(m, n), "hlst") THEN {}
  ELSE {i \in 1 .. PerHlst : LET item == Read(m, n).rnum[i]
                             IN  item # 0 /\ (IsOf(m, item, k) \/ Read(m, item) = Absent)}

InList_FirstRecord(m, chain, k) ==
  LET hits == Hits(m, chain[1], k)
  IN  IF hits # {} THEN Found(m, Read(m, chain[1]).rnum[Min(hits)]) ELSE 0

InList(m, chain, k) ==
  LET at == SelectInSeq(chain, LAMBDA n : Hits(m, n, k) # {})
  IN  IF at # 0 THEN Found(m, Read(m, chain[at]).rnum[Min(Hits(m, chain[at], k))])
      ELSE IF Unbroken(m, chain) \/ Read(m, Last(chain)) = Absent THEN 0 ELSE Absent

Lookup(m, k) ==
  LET table_ == Read(m, Bucket(m, k))
      n == table_.item[Slot(k)]
  IN  IF ~Is(table_, "htbl") THEN (IF table_ = Absent THEN 0 ELSE Absent)
      ELSE IF n = 0 THEN 0
      ELSE IF Is(Read(m, n), "hlst") THEN InList(m, Chain(m, n), k)
      ELSE IF IsOf(m, n, k) THEN n ELSE 0

(* upd_hashtable: the calls that get record n, of key k, into the hash     *)
(* table; new is the number of the record that is appended when needed.    *)
ToHtbl(m, k, n) ==
  LET h == Bucket(m, k)
  IN  Write(h, Htbl([Read(m, h).item EXCEPT ![Slot(k)] = n]))

ToChain(m, end, n, new) ==
  LET e == Read(m, end)
      room == SelectInSeq(e.rnum, LAMBDA i : i = 0)
  IN  IF room # 0 THEN <<Write(end, Hlst([e.rnum EXCEPT ![room] = n], e.next))>>
      ELSE <<Write(end, Hlst(e.rnum, new)), Write(new, Hlst(List(<<n>>), 0))>>

Listed(m, chain, n) ==
  \E i \in 1 .. Len(chain) :
    Is(Read(m, chain[i]), "hlst") /\ Contains(Read(m, chain[i]).rnum, n)

UpdHashtable(m, k, n, new) ==
  LET table_ == Read(m, Bucket(m, k))
      old == table_.item[Slot(k)]
      chain == Chain(m, old)
  IN  IF ~Is(table_, "htbl") THEN <<Fail>>
      ELSE IF old = 0 THEN <<ToHtbl(m, k, n)>>
      ELSE IF old = n THEN <<>>
      ELSE IF Is(Read(m, old), "trust")
        THEN <<Write(new, Hlst(List(<<old, n>>), 0)), ToHtbl(m, k, new)>>
      ELSE IF Listed(m, chain, n) THEN <<>>
      ELSE IF Unbroken(m, chain) THEN ToChain(m, Last(chain), n, new) ELSE <<Fail>>

(* tdbio_write_record of a trust record.                                   *)
PutTrust(m, n, r, new) == <<Write(n, r)>> \o UpdHashtable(m, r.fpr, n, new)

-----------------------------------------------------------------------------
(* The operations of trustdb.c as they change the memory of a process.     *)

(* revalidation_mark: a nextcheck of 1 schedules a check of the trustdb.   *)
Mark(m) == IF Is(Read(m, 0), "ver") /\ Read(m, 0).next = 1 THEN m ELSE Schedule(m, 1)

SetOt(m, k, ot) ==
  LET n == Lookup(m, k)
      new == NewRecnum(m)
  IN  IF n = 0 THEN PutTrust(m, new, Trust(k, ot, 0), new + 1)
      ELSE IF Read(m, n).ot = ot THEN <<>>
      ELSE PutTrust(m, n, [Read(m, n) EXCEPT !.ot = ot], new)

UpdateOwnertrust_NoSync(m, k, ot) ==
  IF ~m.ok \/ Lookup(m, k) = Absent THEN Failed(m)
  ELSE IF SetOt(m, k, ot) = <<>> THEN m
  ELSE Mark(Do(m, SetOt(m, k, ot)))

UpdateOwnertrust(m, k, ot) ==
  IF ~m.ok \/ Lookup(m, k) = Absent THEN Failed(m)
  ELSE IF SetOt(m, k, ot) = <<>> THEN m
  ELSE Sync(Mark(Do(m, SetOt(m, k, ot))))

ClearOwnertrusts(m, k) ==
  LET n == Lookup(m, k)
  IN  IF n = Absent THEN Failed(m)
      ELSE IF n = 0 THEN m ELSE UpdateOwnertrust(m, k, 0)

(* import_ownertrust skips a key whose lookup is an error.                *)
ImportLine(m, e) ==
  IF ~m.ok \/ Lookup(m, e[1]) = Absent THEN m
  ELSE Do(m, SetOt(m, e[1], e[2]))

ImportEntries_NoMark(m, entries) == Sync(FoldLeft(ImportLine, m, entries))

ImportEntries(m, entries) ==
  LET w == FoldLeft(ImportLine, m, entries)
  IN  IF w = m THEN m ELSE Sync(Mark(w))

(* reset_trust_records goes over all records of the file.                  *)
Reset(m) ==
  LET set(n) == Is(Read(m, n), "valid") /\ Read(m, n).value # 0
  IN  Do(m, [n \in 1 .. Len(m.f) |-> IF set(n) THEN Write(n, Valid(0)) ELSE Skip])

(* update_validity: the validity record is written before the trust record *)
(* that refers to it.                                                      *)
UpdateValidity(m, k) ==
  LET n == Lookup(m, k)
      t == Read(m, n)
      new == NewRecnum(m)
  IN  IF n = Absent THEN <<Fail>>
      ELSE IF n = 0
        THEN <<Write(new + 1, Valid(1))>>
               \o PutTrust(m, new, Trust(k, 0, new + 1), new + 2)
      ELSE IF t.valid = 0
        THEN <<Write(new, Valid(1))>>
               \o PutTrust(m, n, [t EXCEPT !.valid = new], new + 1)
      ELSE IF Is(Read(m, t.valid), "valid")
        THEN <<Write(t.valid, Valid(1))>> \o PutTrust(m, n, t, new)
      ELSE <<Fail>>

(* store_validation_status of a key.                                       *)
StoreValidity(m, k) == IF m.ok THEN Sync(Do(m, UpdateValidity(m, k))) ELSE m

(* validate_keys, as far as the database goes: the user ids of the keys in *)
(* K are valid, stored key by key, and no further check is scheduled.      *)
ValidateKeys(m, K) ==
  IF ~m.ok THEN m
  ELSE Schedule(FoldLeft(StoreValidity, Reset(m), SetToSeq(K)), 0)

(* create_version_record and create_hashtable, in the file just created.   *)
Create(m) ==
  LET w == Sync(Put(m, 0, Ver(0, 0)))
  IN  Sync(Put(Do(w, [n \in 1 .. Tables |-> Write(n, EmptyHtbl)]), 0, Ver(1, 0)))

(* What get_ownertrust and get_validity say of a key.                      *)
Value(m, k) ==
  LET n == Lookup(m, k)
      t == Read(m, n)
  IN  IF n = Absent THEN Absent
      ELSE IF n = 0 THEN <<0, 0>>
      ELSE IF t.valid = 0 THEN <<t.ot, 0>>
      ELSE IF Is(Read(m, t.valid), "valid") THEN <<t.ot, Read(m, t.valid).value>>
      ELSE Absent

-----------------------------------------------------------------------------
Goto(p, s) == pc' = [pc EXCEPT ![p] = s]

NoJob == [after |-> want, mid |-> want, at_risk |-> {},
          due |-> due, cut |-> due, fails |-> FALSE]

Init ==
  /\ pc = [p \in Proc |-> "off"] /\ todo = [p \in Proc |-> <<>>]
  /\ job = [p \in Proc |-> Absent]
  /\ cache = [p \in Proc |-> <<>>] /\ table = [p \in Proc |-> 0]
  /\ file = Absent /\ lock = NoProc
  /\ want = [k \in Fpr |-> {<<0, 0>>}]
  /\ hurt = {} /\ due = FALSE /\ ops = 0

(* tdbio_set_dbname.                                                       *)
Stat(p) ==
  /\ pc[p] = "off"
  /\ Goto(p, IF file # Absent /\ file # <<>> THEN "idle" ELSE "create")
  /\ UNCHANGED <<todo, job, cache, table, file, lock, want, hurt, due, ops>>

CreateLock(p) ==
  /\ pc[p] = "create" /\ lock = NoProc
  /\ lock' = p
  /\ Goto(p, "check")
  /\ UNCHANGED <<todo, job, cache, table, file, want, hurt, due, ops>>

Unlocked == IF LockOnce THEN <<>> ELSE <<Unlock>>

CheckThere(p) ==
  /\ pc[p] = "check" /\ file # Absent
  /\ todo' = [todo EXCEPT ![p] = Unlocked]
  /\ job' = [job EXCEPT ![p] = NoJob]
  /\ Goto(p, "busy")
  /\ UNCHANGED <<cache, table, file, lock, want, hurt, due, ops>>

CheckMissing(p) ==
  /\ pc[p] = "check" /\ file = Absent
  /\ \E m \in {Create(Memory(p, <<>>))} :
       /\ todo' = [todo EXCEPT ![p] = m.t \o Unlocked]
       /\ cache' = [cache EXCEPT ![p] = m.c]
  /\ file' = <<>>
  /\ job' = [job EXCEPT ![p] = [NoJob EXCEPT !.at_risk = Fpr]]
  /\ Goto(p, "busy")
  /\ UNCHANGED <<table, lock, want, hurt, due, ops>>

(* An operation on the keys in K.  A key is at risk, should the process    *)
(* die, when a record of it or of a key in the same slot is to be inserted.*)
Me(p) == WithTable(Memory(p, file))

Inserts(m, K) == {k \in K : Lookup(m, k) = 0}
SameSlot(K) == {k \in Fpr : \E j \in K : Byte[k] = Byte[j]}
NewlyValid(m, K) ==
  {k \in K : Lookup(m, k) \notin {0, Absent} /\ Read(m, Lookup(m, k)).valid = 0}

Ready(p) == pc[p] = "idle" /\ ops < MaxOps

Begin(p, m, j) ==
  /\ cache' = [cache EXCEPT ![p] = m.c]
  /\ table' = [table EXCEPT ![p] = m.tbl]
  /\ todo' = [todo EXCEPT ![p] = m.t]
  /\ file' = file \o [i \in 1 .. Len(m.f) - Len(file) |-> Blank]
  /\ job' = [job EXCEPT ![p] = [j EXCEPT !.fails = ~m.ok]]
  /\ ops' = ops + 1
  /\ Goto(p, "busy")
  /\ UNCHANGED <<lock, want, hurt, due>>

(* An operation that changes ownertrust to new[k] for the keys of new.     *)
OwnertrustJob(me, m, new) ==
  LET after == [k \in Fpr |-> IF k \in DOMAIN new
                                THEN {<<new[k], x[2]>> : x \in want[k]}
                                ELSE want[k]]
  IN  [NoJob EXCEPT !.after = after, !.mid = after, !.due = due \/ m.t # <<>>,
        !.at_risk = SameSlot(Inserts(me, DOMAIN new))]

SetOwnertrust(p) ==
  /\ Ready(p)
  /\ \E k \in Fpr, ot \in Values, me \in {Me(p)} :
       \E m \in {UpdateOwnertrust(me, k, ot)} :
         Begin(p, m, OwnertrustJob(me, m, [j \in {k} |-> ot]))

ClearOwnertrust(p) ==
  /\ Ready(p)
  /\ \E k \in Fpr, me \in {Me(p)} :
       \E m \in {ClearOwnertrusts(me, k)} :
         Begin(p, m, [OwnertrustJob(me, m, [j \in {k} |-> 0]) EXCEPT !.at_risk = {}])

Assigned(entries) ==
  [k \in {entries[i][1] : i \in DOMAIN entries} |->
     entries[SelectLastInSeq(entries, LAMBDA e : e[1] = k)][2]]

ImportOwnertrust(p) ==
  /\ Ready(p)
  /\ \E entries \in Imports, me \in {Me(p)} :
       \E m \in {ImportEntries(me, entries)} :
         Begin(p, m, OwnertrustJob(me, m, Assigned(entries)))

ValidateJob(me, K) ==
  LET value(k) == IF k \in K THEN 1 ELSE 0
  IN  [NoJob EXCEPT
        !.after = [k \in Fpr |-> {<<x[1], value(k)>> : x \in want[k]}],
        !.mid = [k \in Fpr |-> {<<x[1], v>> : x \in want[k], v \in {0, value(k)}}],
        !.at_risk = SameSlot(Inserts(me, K)) \cup NewlyValid(me, K),
        !.due = FALSE, !.cut = FALSE]

Validate(p) ==
  /\ Ready(p)
  /\ \E K \in Checks, me \in {Me(p)} :
       \E m \in {ValidateKeys(me, K)} : Begin(p, m, ValidateJob(me, K))

-----------------------------------------------------------------------------
(* The next access to the disk.                                            *)
Disk(p) ==
  /\ pc[p] = "busy" /\ todo[p] # <<>>
  /\ LET d == Head(todo[p])
     IN  \/ /\ d.call = "lock" /\ lock \in {NoProc, p}
            /\ lock' = p
            /\ UNCHANGED file
         \/ /\ d.call = "put"
            /\ file' = Written(file, d.no, d.rec)
            /\ UNCHANGED lock
         \/ /\ d.call = "unlock"
            /\ lock' = IF lock = p THEN NoProc ELSE lock
            /\ UNCHANGED file
  /\ todo' = [todo EXCEPT ![p] = Tail(@)]
  /\ UNCHANGED <<pc, job, cache, table, want, hurt, due, ops>>

Done(p) ==
  /\ pc[p] = "busy" /\ todo[p] = <<>> /\ ~job[p].fails
  /\ want' = job[p].after
  /\ due' = job[p].due
  /\ job' = [job EXCEPT ![p] = Absent]
  /\ Goto(p, "idle")
  /\ UNCHANGED <<todo, cache, table, file, lock, hurt, ops>>

(* The end of a process, by exit, by tdbio_invalid in the middle of an     *)
(* operation, or by a kill: its lock is released or found stale.           *)
Gone(p) ==
  /\ Goto(p, "off")
  /\ todo' = [todo EXCEPT ![p] = <<>>] /\ job' = [job EXCEPT ![p] = Absent]
  /\ cache' = [cache EXCEPT ![p] = <<>>] /\ table' = [table EXCEPT ![p] = 0]
  /\ lock' = IF lock = p THEN NoProc ELSE lock
  /\ UNCHANGED <<file, ops>>

Exit(p) ==
  /\ pc[p] = "idle"
  /\ Gone(p)
  /\ UNCHANGED <<want, hurt, due>>

HalfDone(p) ==
  /\ pc[p] = "busy"
  /\ p \in Mortal \/ (todo[p] = <<>> /\ job[p].fails)
  /\ want' = [k \in Fpr |-> want[k] \cup job[p].mid[k]]
  /\ hurt' = hurt \cup job[p].at_risk
  /\ due' = job[p].cut
  /\ Gone(p)

Next ==
  \E p \in Proc :
    \/ Stat(p) \/ CreateLock(p) \/ CheckThere(p) \/ CheckMissing(p)
    \/ SetOwnertrust(p) \/ ClearOwnertrust(p) \/ ImportOwnertrust(p)
    \/ Validate(p)
    \/ Disk(p) \/ Done(p) \/ Exit(p) \/ HalfDone(p)

Spec == Init /\ [][Next]_vars

-----------------------------------------------------------------------------
TypeOK ==
  /\ pc \in [Proc -> {"off", "create", "check", "idle", "busy"}]
  /\ lock \in Proc \cup {NoProc}
  /\ \A p \in Proc : Len(cache[p]) <= CacheSoft /\ table[p] \in Nat
  /\ hurt \subseteq Fpr /\ due \in BOOLEAN /\ ops \in 0 .. MaxOps

(* A process finds what has been stored last for every key, whatever it    *)
(* has in its cache or dropped from it, and however many keys share a slot.*)
Lookups ==
  \A p \in Proc, k \in Fpr :
    pc[p] = "idle" /\ k \notin hurt => Value(Me(p), k) \in want[k]

(* At every moment, between any two writes of a process that may die there,*)
(* a process that starts afresh finds the old value or the new one of each *)
(* key, but for those whose records are just being inserted.               *)
Fresh == [c |-> <<>>, f |-> file, t |-> <<>>, tbl |-> file[1].tbl,
          locked |-> FALSE, ok |-> TRUE]
Busy == {p \in Proc : pc[p] = "busy"}
OnDisk ==
  \A k \in Fpr :
    \/ k \in hurt \/ \E p \in Busy : k \in job[p].at_risk
    \/ file \in {Absent, <<>>}
    \/ Value(Fresh, k) \in want[k] \cup UNION {job[p].mid[k] : p \in Busy}

(* There is one trust record for a key, except where an insert was cut off.*)
OnePerKey ==
  \A k \in Fpr \ hurt :
    file # Absent =>
      Cardinality({i \in 1 .. Len(file) : IsOf(Fresh, i - 1, k)}) <= 1

(* After a change of ownertrust a check of the trustdb stays scheduled     *)
(* until one is begun.                                                     *)
CheckScheduled == due /\ Busy = {} => file[1].next # 0

=============================================================================
