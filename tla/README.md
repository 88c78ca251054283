# A TLA+ verification project for mipgp

The repository is an iOS/macOS static library: an Objective-C wrapper
(`src/PGPStatic/migpg/MIPGPCon.m`) around GnuPG 1.4 built as a library
(`src/PGPStatic/migpg/gnupg`). The wrapper turns GnuPG into an API of requests;
everything a user could lose is kept by GnuPG in plain files that several
processes share: the keyrings, the trust database and the lock files that guard
both. There is no server and no transaction log; what keeps the files sound is a
discipline of lock files, temporary files, renames and the order of writes. That
discipline is the subject of this project. Paths below are relative to
`src/PGPStatic/migpg/gnupg` unless they begin with `src/`.

## 1. Inventory

### Parts, state, operations

| Part | Source | State | Operations | Module |
|---|---|---|---|---|
| Lock files | `util/dotlock.c` | handle: locked flag, way of creation; the lock file: pid, node name, link count | create, take (link or O_EXCL, read the owner, judge it, purge, wait), release, destroy, exit and signal cleanup | `Dotlock`, `DotlockWait`, `AbstractLock` |
| Fatal signals | `g10/signal.c` | list of handles | remove all lock files, wipe the secure memory, re-raise | `Dotlock` (`Signal`), `Secmem` (`Handler`) |
| Keyring transactions | `g10/keydb.c`, `g10/keyring.c` | `kr_names` with lock handle and flag; handle with found offset and open stream; the files `x`, `x~`, `x.tmp` | create at start, search, read, lock all, copy with an insert, an update or a deletion, rename into place, unlock | `Keyring` |
| Descriptor cache | `util/iobuf.c` 107-387 | list of open descriptors by name | open, close, invalidate | `Keyring` (`CacheOpen`, `AfterOpen`, `AfterClose`, `Invalidated`) |
| Trust database records | `g10/tdbio.c` | write-back cache; file of records; hash table, lists | create, read, put, evict, sync, append, look up, insert into the hash table | `Tdbio` |
| Ownertrust and validity | `g10/trustdb.c`, `g10/tdbdump.c` | trust and validity records, the next check | set, clear and import ownertrust, reset, store validity, mark | `Tdbio` |
| Web of trust | `g10/trustdb.c` 53-660, 820-1096, 1249-1283, 1331-2530 | key lists by depth, counts per user id, list of ultimately trusted keys, time of the next check | start a check when one is due, ask for ownertrust, evaluate keys in rounds, store validity | `WebOfTrust` |
| Offset table | `g10/keyring.c` 94-192, 943-957, 1130-1158 | the key ids that occurred, "ready" flag | fill while scanning, enter inserts and updates, answer "not there" without reading | `Keyring` (`Ready`, `Noted`, `Recorded`) |
| Import | `g10/import.c` | none of its own | clean a keyblock, insert it or merge it, import a revocation certificate, mark the web of trust | `KeyMerge`; its transaction in `Keyring` |
| Key lookup | `g10/getkey.c` 1582-2422 | process-local caches | derive from the self-signatures what a key is worth | `KeyMerge` (`Effective`); caches and selection not modelled |
| Secure memory | `util/secmem.c`, `util/memory.c` | the pool, the list of unused blocks, a recursive mutex | allocate, resize, free, terminate | `Secmem` |
| Random numbers | `cipher/random.c`, `cipher/rndlinux.c` | pool, key pool, balance, flags, a recursive mutex; the seed file | initialise, add, poll, read, read and write the seed file | `Random` |
| Wrapper | `src/PGPStatic/migpg/MIPGPCon.m` | singleton, result of `mi_init` | requests on a concurrent queue, results on the main queue | planned |
| Packets, messages, armor, compression, encryption, signing, cards, key servers, menus, export, arithmetic | the rest | | | not modelled, see section 8 |

### How they interact

* A keyring transaction calls the lock files (`keyring_lock`, `lock_all`), the
  descriptor cache (every `iobuf_open` and `iobuf_close`) and `rename(2)`.
  Processes meet in the files and in the lock files, nowhere else.
* `trustdb.c` reads and writes records through the cache of `tdbio.c`, which
  takes its own lock file around write-backs only.
* Import calls the keyring transaction, then `clear_ownertrusts` and
  `revalidation_mark`; a check of the trust database reads all keyrings.
* Exit and fatal signals call back into the lock files
  (`dotlock_remove_lockfiles`) at any point of all this, and wipe the secure
  memory (`secmem_term`); an exit saves the random pool to the seed file first.
* Secure memory and the random pool are the two parts that guard their state with
  mutexes: the threads of the wrapper's queue share them. The random pool lies in
  secure memory; processes share the seed file.
* The wrapper calls the library from a global concurrent queue and reports on
  the main queue.

### What is hard here

Interleaved system calls of several processes on a name in a directory; stale
knowledge (a pid read before, a descriptor kept open, a cached record, an offset
found without the lock); a death between two writes or two renames; a step that
fails after others succeeded; a cache at its limit; statements of a key's owner
that arrive in any order; threads that pass a test before they take the mutex. `PROJECT.json` lists each
place under `hazards` with its line and the properties aimed at it.

### What makes each part correct

* Lock files: two callers never hold the lock together; if they do, something
  named removed a lock file from under its owner; a dead owner's lock is
  recovered; a timeout is kept to the millisecond.
* Keyrings: no committed keyblock is lost, torn or doubled by a failure or a
  death; one writer of `x.tmp`; locks are given back; a keyring is created only
  where there is none; the order of locking makes no cycle.
* Import: what the keyring says of a key is what its owner has said, whatever the
  order of the files; nothing doubles; new certificates leave a check due.
* Secure memory: no memory is given away twice, lost, or seen with another's
  secret in it; no secret stays when it is given back or the pool ends; nobody
  keeps the mutex; a fatal signal ends the process.
* Random numbers: no byte of level 2 goes out that was not gathered; what goes out
  was seeded; the seed file is never taken for empty while it is written; every
  request ends.
* Web of trust: the validity stored is that of the certificates and the
  ownertrust as they are now, until the moment the next check is due; an
  interrupted check never shows too much; trust signatures hand on no more than
  they may.
* Trust database: what was stored last is found; a death leaves the old or the
  new value; one record per key; a change leaves a scheduled check behind.

## 2. Plan

1. `Dotlock`, `AbstractLock`, `DotlockWait` and their proofs: everything else
   relies on the lock. Done.
2. `Keyring`: transactions over the abstract lock. Done.
3. `Tdbio`: the trust database. Done for one process at a time and for the
   start of two.
4. `WebOfTrust`: `validate_keys` in rounds over webs of certificates, against a
   direct definition of validity. Done for one process at a time. `Tdbio` takes
   the set of keys that a check finds as given (`Checks`).
5. `KeyMerge`: imports in any order, against what the owner has said. Done for
   public keys without import options.
6. `Secmem`: the pool, its mutex and its two ends, with proofs. Done.
7. `Random`: seeding and reading the pool by threads and processes. Done, but for
   the mixing.
8. The offset table, as part of `Keyring`. Done.
9. `Requests`: the wrapper's request life cycle, every request answered once.
10. Proofs about the locks of `Keyring` and what its transactions do to the files,
    the contents of `Secmem`, the balance and the seeding of `Random`, the back-off of
    `DotlockWait`, the merging of `KeyMerge`, the types, the chains, the counts and the
    upper bound of validity (`NeverMore`) of `WebOfTrust`, the types and the scheduled
    check of `Tdbio`. Done. Left: the lookups of `Tdbio`, and the other half of `Exact`.
11. Two concurrent processes in `Tdbio` with appends as steps of their own, and
    in `WebOfTrust`; a public keyring and its gap with two processes.

## 3. Modules

Common conventions: a process is a sequential program; `pc` names the step it
is at and each action is one system call (or a stretch of code between two
calls that touches only its own memory). Variables marked "history" in the
declarations do not exist in the code. `X_Something` next to `X` is a plausible
error in `X`; it is used by no specification, only to show that a property can
fail.

**`Dotlock`** (`util/dotlock.c` 396-1321, the POSIX half).
`lockfile` is the directory entry: absent, or made by a process in a given
incarnation with nothing, the pid or the whole text in it. `inc` counts the
processes that had a pid. Actions follow the calls of `dotlock_take_unix`:
`Link`, `Stat` or `Creat`, `WritePid`, `WriteNode`, `WriteError`; `ReadGone`,
`ReadInvalid`, `ReadOurs`, `ReadRemote`, `ReadOther`; `Judge` (`kill(pid, 0)`),
`Purge` (`unlink`). A release is `Release`, `ReleaseRead`, `ReleaseUnlink`,
`ReleaseClear`, so that a signal can come between the unlink and the reset of
the flag. `Exit`, `Signal`, `Kill` and `Start` end and begin processes. `Mutex`
is the promise; `robbed` records that some process unlinked a lock file that
was in force.

**`AbstractLock`** states the promise without files: reserve, hold, free, die.
`Dotlock` implements it (`ImplementsAbstractLock`) where processes share no node
and get no fatal signal, with `owner <- lockfile.owner` and
`holders <-` the processes that believe they hold the lock.

**`DotlockWait`** is the retry loop of one caller: intervals, the remaining
timeout, the change of owners. The lock file is its environment.

**`Keyring`** A file is a sequence of packets `<<key, i>>`, an offset a number
of packets. One transaction runs through `Search`, `Get`, `Choose`,
`MakeHandle` and `TakeLock` for each ring, `Access`, `Open`, `Write`, `Backup`,
`Rename`, `Unlock`, `Release`, or through one of the failures. `cache` holds
descriptors, that is contents as they were when opened. The lock is the one of
`AbstractLock`, freed when its owner dies (`Recovery` of `Dotlock` is the
licence for that). A transaction commits at its rename; `want` remembers it.
`known` and `scanned` are the offset table: in spite of its name a set of key ids
that, once every public ring was read to its end, answers a search by key id with
"not there" (`denied` in `Search`).

**`Tdbio`** An operation of `trustdb.c` is computed in memory in one step
(`Begin`), by operators that bear the structure of the code: `Lookup`, `SetOt`
or `UpdHashtable` give the records to write in order, and `Do` performs these
calls with `Put`, its eviction (`MakeRoom`), and `Sync`, but for those of `Skip`, which
write nothing. `Schedule` is `tdbio_write_nextcheck` with the sync after it, of
`revalidation_mark` (`Mark`) as of the end of a check; `Chain` is the list records that
a search walks.
The result is the cache and the list
of disk accesses the operation makes in order, which `Disk` then performs one by
one; a process may die between any two (`HalfDone`). Appending the blank
records happens at `Begin`. That an operation sees the file as of its beginning
is exact when one process is at work at a time.

**`WebOfTrust`** is `validate_keys` and what calls it. A web of certificates is
data that the initial state chooses; `now` is the clock. A check is `Stale`,
`CheckOrUpdate` or `Forced`, then rounds of `Assign` (minimum ownertrust, and the
questions of an interactive check, at which the user may `Quit`), `Scan`
(`validate_key_list`, which computes counts for the keys that the current list
has signed, and may fail), `Store` once per key, and `Extend` (the next list),
and at last `Finish`. A process may end at any of these. The operators bear the
names of what they decide: `Chosen` compares the certificates of one signer in
packet order, `Counts` continues from the stored record, `Granted` is the
handling of one trust signature, `EndsOf` the moments that enter the time of the
next check. `Valid(t)` is the other definition, which knows no rounds, no stored
counts and no order: the introducers are those that are reached from the
ultimately trusted keys within `MaxDepth` links, and a user id needs
`Completes` full or `Marginals` marginal ones.

**`KeyMerge`** follows one key. An import is a function of a file's keyblock and
the keyring's: `Clean` (user ids that a file has twice collapsed into one and rid of
double signatures, the others left as they are; self-signatures that verify, the
newest binding of a subkey), `Refused`, then `Insert` or `Merge` with one operator
for each way the parts are merged (`HeadMerged`, `SigsMerged`, `KeysigsMerged`,
`Appended`; `Picked` is what remains when others were marked as deleted, `Firsts`
the places that remain when later equals go); `Mark` is the call of `revalidation_mark` that follows the write,
`Revoke` the import of a revocation certificate, `Check` a check of the trust
database. `Effective` is what `merge_selfsigs` reads from the result. `Meaning`,
which the code does not have, says the same of the set of files imported, with no
order in it.

**`Secmem`** A granule is 32 bytes, the unit of the pool; `size` is the header of
the block at an address, `unused` the list, `data` who wrote a secret where. A
thread is at a label of `secmem_malloc`, `secmem_free` or `secmexrealloc`; what
happens under one hold of the mutex and touches nothing that is read without it is
one step, except in `secmem_malloc`, where the search and the taking are two, for
the handler of a fatal signal may come between them in the same thread. `Fault` is
a call that comes too late, after `secmem_term`: the memory is not mapped any more,
or the block goes to `free(3)`.

**`Random`** counts bytes. Of the pool, `strong` says how many came from the random
device, up to one poll; of the key pool, `key` says how strong the pool was when it
was copied. `read_pool` is `Begin`, `ReadSeed`, `Absorb`, `Reseed`, `FillPool`,
`Copy` and `Hand`; all its polls are one step, since they are made under the mutex.
`initialize`, which two callers make without the mutex, is three stores, the last
two in either order. `replaced` remembers that it hit a pool in use. The exit is
`Update`, `Truncate`, `Write`, `Exit`.

**`MCDotlock`, `MCDotlockWait`, `MCKeyring`, `MCTdbio`, `MCWebOfTrust`,
`MCKeyMerge`, `MCSecmem`, `MCRandom`** give constants their values.
**`DotlockProofs`, `DotlockWaitProofs`, `KeyringProofs`, `SecmemProofs`,
`RandomProofs`, `KeyMergeProofs`, `WebOfTrustProofs`, `TdbioProofs`** hold the theorems, each
about the module it is named after.

## 4. Runs

| Run | Instance | Shows |
|---|---|---|
| `dotlock_excl` | 3 processes, one node, O_EXCL, kills and signals everywhere, one reuse of each pid; 129 217 states | `IInv` (with the types), `MutexUnlessRobbed`: exclusion can be broken only by a removal of a lock in force; `FirstRobbery`: the first such removal is a purge on an old pid or a signal between unlink and flag; `Recovery`: waiters do not wait for ever on a dead owner |
| `dotlock_nodes` | 3 processes on 3 nodes, hard links, kills; 2 535 states | `Mutex` unconditionally, and the refinement of `AbstractLock` |
| `dotlockwait` | 12 timeouts, 2 owners, 20 looks; 31 854 states | `ExactTimeout`, `SoonForNewOwner`, `Ends` |
| `keyring_single` | 1 process, a public and a secret ring with 2 keyblocks each and a third key to insert, 3 transactions, every failure and death; 206 071 states | `NothingLost`, `NoLeakedLock`, `NeverMissed` |
| `keyring_secret` | 2 processes, a public and a secret ring that are missing at the start, an insert and an update of a key each, failures, death and restart of one; 1 352 396 states | `NoDeadlock`, `OneWriter`, `HandlesMade`, `CreatesOnlyMissing` |
| `tdbio_one` | one process after another, killable anywhere, 4 keys of which 3 share a slot, cache of 3, 3 operations; 553 556 states | `Lookups`, `OnDisk`, `OnePerKey`, `CheckScheduled` |
| `wot` | 4 keys, one with 2 user ids, 440 webs with ratings, a clock of 3 moments, one change of ownertrust, one forced check, ends and failures at every step; 1 696 103 states | `Exact`, `NeverMore`, `Delegated`, `Growing` |
| `keymerge` | 7 files of one key and 2 revocation certificates, in any order and number; 94 954 states | `Confluent`, `Idempotent`, `NothingTwice`, `WebCurrent` |
| `secmem` | 2 threads, a pool of 4 granules, requests of one and two, one fatal signal anywhere; 901 381 states | `Disjoint`, `NothingLost`, `Intact`, `NoTrace`, `LockKept`, `SignalEnds` |
| `random` | 2 threads of one process and 1 of another, requests of all levels, 2 starts, deaths anywhere; 508 823 states | `Backed`, `SeededUnlessReplaced`, `SeedNotMissed`, `Delivered` |
| `dotlock_race` | 3 processes, no kill, no signal, no pid reuse | violated: `Mutex` |
| `keyring_lost` | 2 processes insert into a secret keyring | violated: `NothingLost` |

Every module has a type invariant `TypeOK`. `tdbio_one` and `random` list it, for
it says how far the cache and the balance go; in `Dotlock`, `DotlockWait` and
`Secmem` it is proved, as it is in `Random`, `KeyMerge`, `WebOfTrust` and `Tdbio`; in
`Keyring` it is there for the reader, and holds in the instances above.

### The two disagreements

* `dotlock_race`: the comment at `util/dotlock.c:1054-1056` calls the race on a
  stale lock file unlikely "unless a pid is reused too fast or a new process
  with the same pid ..."; it needs neither, only an owner that exits between
  the reading of its pid and the `unlink`.
* `keyring_lost`: the descriptor cache is invalidated in the process that
  renames. A second process that has the old file open copies from it under all
  its locks, so the first insert is lost, where `NEWS:1597-1598` says that the
  keyrings are locked so that others "won't damage these files".

### Further observations

Made while modelling, without a run of their own.

Lock files:

* A waiter that reads a lock file which is created and still empty fails at once,
  with any timeout (`ReadInvalid`, `util/dotlock.c:1036`).
* `lastpid` is never updated, so after one change of owner the back-off restarts
  at every look.

Keyrings:

* A public keyring is missing between the two renames of its replacement, and
  another process that looks then is misled. `keyring_lock` asks twice whether the
  ring is there, so it may hand a NULL handle to `dotlock_take`; a ring that is
  missing when its lock is due is written without it; one that is missing when
  locks are given back keeps its lock; and a process that starts may create an
  empty keyring over one that a process without the lock has just put in place.
  `OneWriter`, `HandlesMade` and `CreatesOnlyMissing` are therefore stated for the
  secret keyrings, which are replaced by one rename; stated for all keyrings, TLC
  violates them in `keyring_secret`, and `NoLeakedLock` as well, which is checked for
  a process that works alone.
* With two processes the offset table denies a key that the other one has inserted
  since the scan. The comment at `g10/keyring.c:38-41` knows why offsets cannot be
  kept; the negative answers have the same weakness. `NeverMissed` is stated for a
  process that works alone.
* Two imports of one key that both find it missing both insert it.

Trust database:

* A process that starts while another creates the file takes it for complete
  (`g10/tdbio.c:517`, "OK, we have the valid trustdb.gpg already"), while the
  creator has written one record of several. A death between the creation and the
  first write leaves an empty file that every later start takes for an existing
  one and then fails on.
* An insert of a key into the hash table is written newest record first, so a
  death in the middle may lose the *other* keys of the slot: this is why `OnDisk`
  excepts the keys of the slot of an insert in progress, and dropping that
  exception makes TLC report it.
* Two processes read records without the lock, keep them in their caches, and
  append by the length of the file: a later sync writes back what the other has
  overwritten, and two may take the same record number.

Web of trust:

* `verify_own_keys` loads the ultimately trusted keys once in the life of a
  process (`g10/trustdb.c:274`). A key that becomes ultimately trusted is marked
  for a check, but a check in the same process goes by the old list and then clears
  the mark. `g10/keyedit.c:2830-2832` tells the user that validity "is not
  necessarily correct unless you restart the program"; here it is not correct after
  a restart either, until something else schedules a check. `Exact` therefore
  holds, and is checked, where no key becomes or ceases to be ultimately trusted.
* A forced check that was not due and is cut off leaves validity missing with no
  check scheduled (`cut` in `Exact`).
* `pk->trust_timestamp` is read and never written, so of several trust signatures
  on a key the last in the keyblock counts and not, as the comment at
  `g10/trustdb.c:2003-2007` has it, the latest.
* The counts are `int` in memory and a byte in the record: 256 certificates of one
  round are stored as none (`CountMod`).
* The end of a check writes the time of the next one over a mark that another
  process may have left meanwhile.
* A check that ends in its first round releases `klist`, which is `utk_list` itself
  (`g10/trustdb.c:2501`); the next check of the process reads freed memory.

Import:

* `chk_self_sigs` keeps the newest binding of a subkey also when it has expired, and
  `merge_keysigs` takes no older one, while `merge_selfsigs_subkey` passes over an
  expired one: whether a subkey with an older binding that still holds is usable
  depends on the order of the imports. Of two user ids signed at the same time the
  first in the keyblock gives the key its expiry date. Neither is in the instance,
  for `Confluent` would not hold there.
* A death between the write of the keyblock and `revalidation_mark` leaves new
  certificates without a check, and importing the same file again finds nothing new
  and does not mark either.
* A keyblock that brings a revocation of the key by itself and no signature of
  others does not mark the web of trust, while the same revocation as a certificate
  does (`import_revoke_cert`).
* Every merge drops the direct signatures that other keys have made, and may add
  them again (`FixedHead`, and the exception in `Idempotent`). A revocation in a
  file without a signed user id is refused with the file.
* `collapse_uids` removes double signatures only from a user id that it has just put
  together (`g10/import.c:1926-1988`). A user id that a file has once, with a
  signature twice, is inserted with both; no later import adds to it or cleans it
  (`Lone`, and the exception `Doubled` in `NothingTwice`).

Secure memory:

* A block is never split nor joined and `compress_pool` is empty: with every block
  free again a larger request still fails, and the process exits.
* `out_of_core` leaves by `exit(2)`; the pool is not wiped on that way out, it goes
  with the process. A block freed after `secmem_term` goes to `free(3)`.

Random numbers:

* `random_is_faked` and `fast_random_poll` test `is_initialized` and call
  `initialize` without the mutex. A thread that is late puts an empty pool in the
  place of one that was seeded, after which the bytes handed out come from
  nothing, or an empty key pool under a reading that has just copied into it, which
  hands out zeros. `SeededUnlessReplaced` excepts what follows; dropping
  `~replaced` makes TLC report it. (The initialised flag may also be seen before
  the key pool is: `Crash`.)
* A seed file of the wrong size is neither used nor repaired, by any process, so
  that after one short write it is of no more use.
* The pool counts as filled when it was written round once, most of which may be
  bytes of the fast poll: one poll of a fifth of the pool is what the property
  asks for, and all that there must be.
* `just_mixed` stays set when bytes are added after a mixing (`cipher/random.c:829`).

Wrapper:

* `decryptFile` calls the result block only when `mi_decrypt_file` returned 0, so
  that the caller waits for ever for a file that failed (`MIPGPCon.m:422`), and the
  singleton is made without synchronisation.

### Bounds and why they are enough

* `MaxInc` = 2 lets each pid come back once: adoption of a predecessor's lock
  file, and a signal or a kill in both lives. Three processes are the fewest for
  the purge race (two waiters and an owner) and for a third to profit.
* `MaxLooks` = 20 lies beyond the longest run of intervals of all limited
  timeouts in the instance for which `Ends` is stated (below one second).
* Keyblocks have one or two packets: the fewest that can be torn. Three
  transactions of one process are the fewest for stale offset and stale
  descriptor to meet (search, change, search again).
* `PerHlst` = 2 with three keys in a slot makes a trust record turn into a list
  and the list into a chain of two; `CacheSoft` = 3 is smaller than the records
  of any insert, so both kinds of eviction happen in every operation; the code
  uses 9, 6 and 200. `MaxOps` = 3 operations and any number of deaths and starts
  between them.
* The webs of `wot` come in three families: every subset of six certificates
  among three keys and the user's own, with one key that has two user ids and
  each of two introducers rated marginal or full (long and short paths, cycles,
  keys that are completed only in a later round or by `Marginals` = 2); two
  certificates of one signer of every age, expiry, revocability and kind, with
  keys and user ids that expire; and chains of three trust signatures with every
  combination of depth, value and scope. `MaxDepth` = 3 is the fewest rounds in
  which a count is continued and then used. `Horizon` = 4 has a moment before, at
  and after the expiry at 3. `CountMod` is the real 256; no instance counts that
  far, and the wrap at 256 is only described.
* The files of `keymerge` hold a key with two user ids and a subkey in different
  order, age and damage: a user id twice, a user id once that has a signature
  twice, one revoked and signed again, a subkey
  bound again and revoked, expiry dates on the key, the user id and the direct
  signature, a revocation by a revoker, and files that must be refused. It is
  looked at before, at and after every date.
* In `secmem` four granules hold four small blocks, two large ones, or a mixture
  that is full and cannot be reused; two threads are enough for each pair of steps
  to meet, and the signal may hit either of them anywhere.
* In `random` a pool is ten units. The requests are one that is cut into two
  pieces, one of level 2 that spends what the first seeding left on the balance and
  a second one that needs more; the fast poll adds half a pool, so that the pool is
  filled with and without bytes of the device. Two starts are the fewest for a seed
  file that one process left for another, `MaxCalls` the fewest for a balance to be
  spent twice.
* Symmetry is used only in the runs of `Dotlock` without liveness.

### Deadlock

`CHECK_DEADLOCK FALSE` is set where processes may all exit or use up their
bounded operations. Waiting in a circle is a property of its own
(`NoDeadlock`).

## 5. Fairness

`Dotlock!FairSpec` assumes weak fairness of a process inside `dotlock_take`,
whose loop polls for ever when the timeout is -1, and of a release that is under
way or due: callers release what they have taken. It assumes nothing about
calling again, exiting, dying or being restarted. `DotlockWait!FairSpec` assumes
that `select(2)` returns and that the loop then looks again. `Secmem!FairSpec`
assumes that a thread in a call goes on, and strong fairness of the handler, which
may have to wait for a mutex that the other threads keep taking; the mutexes of
the platform are fair. It does not assume that anybody calls or exits.
`Random!FairSpec` assumes no more than that some thread in a call goes on as long
as one can: the device answers, and calls are bounded. `Keyring`, `Tdbio`,
`WebOfTrust` and `KeyMerge` are checked for safety only.

## 6. Proofs

All are checked by TLAPS. Those of the lock files hold for every set of
processes, every placement on nodes, either way to create the lock file, and every
number of pid reuses; the assumptions are those named in the modules
(`NoProcAssumption`, `HardLinksAssumption`, `MaxIncAssumption`, `PidAssumption`,
`TimeoutsAssumption`).

* `TypeCorrect`: the types.
* `HolderOwnsFile` and `ExclusionUnlessRobbed`: `MutexUnlessRobbed` is not
  inductive, for it says nothing about files. `IInv` adds that `h->locked` is set
  exactly between a take and the release of it (`LockedFlag`), and, as long as
  no lock was robbed, that the lock file names the holder and that a process
  still writing its pid writes into the file that others read (`OwnFile`). Two
  holders would then both be named by one file.
* `RobberyCauses`: an `Unlink` by `WriteError`, `ReleaseUnlink`, `Destroy`,
  `Exit` or `Cleanup` outside the step before `locked = 0` hits the process's own
  file by `IInv`; what remains is the purge and that one signal.
* `RemoteExclusion` and `RemoteRefinement` assume `Remote`: no two processes on
  one node and no fatal signal. Then nobody ever reaches the judgement of an
  owner (`RemoteInv`), hence no robbery, hence `Mutex`; each action maps to one
  of `AbstractLock` or a stutter.
* `GivesUpInTime`: slept time and remaining time add up to the timeout asked for
  (`Accounting`), from which `ExactTimeout` follows.
* `LooksSoon`: the interval is one of the nine of the comment in the code, or was
  cut to what was left of the timeout (`Paced`); that a look which finds another
  owner falls back to the first one follows for any number of owners.

Those of the keyrings hold for any processes, any number of keyrings of both kinds
in any order, any contents, and any pattern of failures, deaths and restarts
(`KrNamesAssumption`: every process has registered each keyring once;
`InitialAssumption`: a keyring that is there at the start consists of whole keyblocks,
one of each key at most, in any order; `AbsentAssumption`: "no file" is no content;
`MaxLenAssumption`). What makes the first ones (`KeyringProofs`) hard is the public
keyrings: whether one of these is there may change between any two looks
at it, so that its lock may be passed over or kept, and the argument must not use any
of them.

* `SecretWriter`, `SecretHandles`, `SecretCreation`, `SecretReleased`: the invariant
  `Place(p)` says for each step of `p` which locks it owns (`Owns`: the ones with
  `kr->is_locked`, and in `maybe_create_keyring` the one it is creating), which
  secret keyrings are among them (`Locks`: in the loop of `keyring_lock` those
  before the loop index, afterwards all, in the loop of the release none before the
  index), for which there are handles (`Handles`), and which files are there
  (`There`). `OneWriter` needs all four: without `There`, a secret keyring could be
  skipped like a public one; `There` needs that a secret keyring only changes under
  its lock, which is `Owns`. A step of another process disturbs none of this
  (`OtherPlace`).
* `NoCycle`: a process that waits for a secret keyring owns the secret ones before
  it in `kr_names` and no other secret one. So of two that wait for each other at
  secret keyrings each would be behind the other. A public keyring is different: its
  lock may have been kept by a transaction before, and then a process owns a lock out
  of order. The theorem therefore assumes `PublicFirst`: all processes have the same
  order, with at most one public keyring, the first. `gpg.c:3323-3330` registers the
  secret keyrings before the public ones and `keyring_register_filename` adds at the
  front of the list (`g10/keyring.c:215-233`). TLC checks the property for that order
  only.
* `LocksReturned` assumes `Alone`, one process: nobody else then makes a public
  keyring come and go, so that the keyring whose lock was kept stays missing
  (`Left`). With two processes the property fails, as section 4 describes.
* `NothingGone` and `AlwaysFound` assume `Alone` too, for
  `keyring_lost` shows that two processes do lose a keyblock, and `Restart`: the
  process is started again after a death only if no keyring is public, since a death
  between the two renames leaves a backup and the next start an empty keyring. Both
  follow from one inductive invariant, `DInv`, of which TLC has checked instances.
  `Stored` is what `NothingLost` says, with the types it needs; that a transaction
  keeps it takes the rest. `Shown`: no descriptor that is open or kept shows anything
  but the file as it is now, which `Invalidated` is for. `Target`: the offset that was
  found still points to the primary key packet of the keyblock, whose length is
  `found.n_packets`, and a key to be inserted is still missing; it is enough to know
  this up to `Open`, where the copy is made. `Copy`: what goes to `fname.tmp` and is
  renamed is the content that the transaction is to leave. `Tabled`: once a public
  keyring was read to its end the table has every key that is in it, from which
  follows that a negative answer of it is right, and thereby `Target`.
* The lemmas before it are about packets: the one found by a search is the first of
  its keyblock (`AtWhole`), reading up to the next primary key packet gives the whole
  keyblock and no more (`RunWhole`), and replacing or appending one leaves the others
  whole (`ReplacedWhole`, `AppendedWhole`), wherever they lie (`OtherStretch`). The
  first packet of some kind is found with the least element of a set of numbers, which
  the library gives for well-founded relations (`LeastExists`); no induction is needed.

Those of the secure memory hold for any set of threads, any size of the pool and
any requests, including any moment of a fatal signal (`PoolAssumption`,
`RequestAssumption`, `NoneAssumption`, `NullAssumption`).

* `SecmemTypes` and `MutexKept`: that the mutex is taken at most twice, and given
  back on every path, needs to know that the owner is set as long as the depth is
  not zero (`MutexOK`), what the locals of a thread at each step point to
  (`ArgsOK`), that the list is empty once the pool is gone (`GoneOK`) and who runs
  the handler (`SigOK`). `LockInv` is their conjunction with the types and
  `LockKept`, and is inductive without a word on the blocks.
* `NoOverlap`: given `LockInv`, `Disjoint` is itself inductive (`IInv`). A thread
  that has found a block under the mutex finds the list unchanged when it takes the
  block, because `LockKept` says that nobody else can be in between; so taking a
  block from the list moves it from one owner to another (`TakeSeparate`),
  extending the used part adds one behind all others, and giving one back
  (`GiveSeparate`) puts it there once. After a termination `Disjoint` says nothing;
  the pool never comes back.
* `PoolKept`, `ContentKept` and `SecretsWiped`: `NothingLost`,
  `Intact` and `NoTrace` are inductive together, given `IInv`, but for one thing:
  `secmexrealloc` gives the old block back before its caller goes on with the new
  one, and which part of that the caller had written is told by the size of the old
  block, which another thread may have by now. `Remembered` says that the old block
  still lies in the used part of the pool, where no header is written again.

Those of the random numbers hold for any processes with any number of threads, any
pool of at least ten units, any fast poll and any requests (`ThreadAssumption`,
`SizeAssumption`, `BoundAssumption`, `RequestAssumption`).

* `RandomTypes` and `BalanceBacked`: `Locks` says of each thread how deep it has
  taken the mutex, also when `initialize` was called on the way, and that no other
  one is inside; `Covered`, that between the reseeding and the handing out a request
  of level 2 is covered by the balance; `ProcessInv`, that the balance never exceeds
  what was gathered and not handed out.
* `Seeding`: as long as no pool in use was replaced, a pool that counts as filled or
  seeded has had its poll, the key pool was copied from such a pool, and the seed
  file was written from one (`Sound`).
* `SeedFileLocked`: the thread that has emptied the seed file has the lock on it
  until it has written it (`WriterHasLock`), and the same process is kept out by the
  mutex.

Those of the imports hold for any files and revocation certificates
(`FileAssumption`: a file holds a keyblock, dates are numbers). Two also assume, by
name, `OnceInFiles`: no file has the same signature twice at its head or on a subkey,
a subkey twice, or a user id that is a subkey. `import_one` looks for duplicates among
user ids only (`collapse_uids`) and takes the rest over as it comes. A user id may have
a signature twice, which stays when it has no duplicate. TLC evaluates both assumptions
on the files of the run.

* `Typed`: `merge_blocks` puts keyblocks together and nothing else. What stays of a
  sequence of signatures is `Picked`: the elements at certain places. `PickedFacts`,
  `PickedAll` and `PickedRest` say that these come in their order, all of them and each
  from a place of its own. They and the lemmas on `FlattenSeq` and on the fold in
  `KeysigsMerged` are inductions over a length; `Climb`, the induction for a set of
  numbers, takes its least element that is missing.
* `NothingRepeated`: `Once` says of a keyblock that its user ids, its subkeys and the
  signatures at its head and on each subkey are different, `AllOnce` the same of the
  signatures on its user ids, those excepted that some imported file had `Doubled`, and
  `Named` that a user id is never taken for a
  subkey. A merge adds no double, not even to a user id that has some, for
  each signature is compared with those just added. The hard part is `merge_keysigs`, which does not look for the signature
  itself: it adds one only if there is none of that maker and class as new, so never
  one that is there (`KeysigsMergedFacts`).
* `ImportedForGood`: `Idempotent` says what the next merge would do, which is not
  inductive. `AInv` says what was taken in: `Absorbed`, every revocation and sound direct
  signature of the file at the head, each of its user ids with its signatures, each of
  its subkeys with signatures at least as new. A merge with the file itself brings this
  about, and no other import or certificate undoes it, since signatures are only added
  (`StartsHas`, `MoreThere`) or dropped by `fix_bad_direct_key_sigs`, which never drops
  these (`FixedKeeps`). Given `Absorbed`, and names that occur once, a merge with the
  file adds nothing but direct signatures of other keys (`AbsorbedAgain`).
* `WebMarked`: a file without signatures of others leaves the certificates on the user
  ids as they are (`OwnMerged`), so that `Foreign` only changes with a mark.

Those of the web of trust hold for any web of certificates with any ratings, any
answers to questions, any options, and checks that fail, are quit or are cut off
anywhere (`UidsAssumption`: a user id belongs to one key; `BeginningsAssumption`,
`NeededAssumption`, `AssignableAssumption`: the types of what is read from keyrings and
options; `WidthAssumption`: `completes_needed` fits into the byte of a count).

* `TypesAlways`: the folds over the certificates of a user id and over the user ids of
  a key only make counts, items and grants of their types. A fold is unrolled once
  (`FoldedExists`, again by `Climb`), and an operator that keeps a set keeps it through
  the whole fold (`StaysIn`).
* `DelegatedAlways`: `Delegated` speaks of what is stored at the end of a chain and of
  no key between, so it is not inductive. `TrustInv` says of each item of a round, and of
  each result that waits for the next one, that a chain of as many links as there were
  rounds leads to it from an own key, with what it may still hand on below what every
  signature of the chain allows (`Reached`). The theorem assumes, by name, `OwnKeysStay`:
  nobody rates a key as ultimately trusted while the database is in use, nor takes that
  rating away. `verify_own_keys` reads these keys once, and `g10/keyedit.c:2830-2832`
  tells the user to start again; until then checks go by a list that may hold a key
  which is no own key any more.
* `GrowingAlways`: counts go through a record of a byte between two rounds, so the
  property needs that they never wrap. `CountInv` bounds each stored count by
  `Completes` and the number of keys that have signed in earlier rounds, since one
  certificate at most of each signer counts (`SignersDistinct`) and no key signs in two
  rounds. The theorem assumes `FewKeys`: the keys and `Completes` together are fewer than
  `CountMod`. That is stronger than needed, and with enough certificates of one round the
  count does wrap (section 4).
* `BoundedSoFarAlways`, `NeverMoreDone`, `NeverMoreAlways`: what a check stores is
  compared with `Valid`, the definition of validity by the depths at which keys are
  introduced, at a later moment. The three say so of a check in progress, until
  something that it relies on ends (`run.expire`); of what a finished check leaves,
  until the next one is due; and of every state (`NeverMore`). They assume `FewKeys` and
  `OwnKeysStay`, as above; what they say is about webs without trust signatures or a
  trust model that ignores them (`Plain`), for `Valid` does not know of those. `NeverMoreAlways` assumes `OnlyWhenDue` as
  well, that no check is begun before it is due: one that a user asks for earlier first
  clears everything (`reset_trust_records`), and when it dies halfway, the date that
  says how long its results hold is lost. That they hold until the old date all the same
  needs the earlier check to be repeated in the proof, round by round; `wot` checks it,
  with one such check.
  The invariant is `BoundInv`. `RecordsBacked` says of each record that its counts are
  backed, at every moment before `run.expire` (`Endures`): there are at least as many
  keys with that ownertrust whose certificates count at that moment, among those that
  signed in earlier rounds (`Votes`, `Counted`), unless one of the own keys is among
  them. `UsedWithin` says that the keys whose certificates have been counted after `d`
  rounds are within `d` links of the own keys. One round keeps this for four reasons.
  The order of comparing in `mark_usable_uid_certs` leads to the best certificate of a
  signer (`ChosenBeats`, an induction over the certificates), and it stays the best
  until it ends, since others can only end as well (`BeatsLater`). A round adds to a
  count no more than the number of its signers of that ownertrust (`CountsVoted`). These
  sign for the first time, so that the two sets are disjoint (`BackedFound`). Every date
  on which this rests is among those of which `run.expire` is the soonest (`ScanEnds`,
  `FoundLasts`). An answer to a question gives ownertrust to a key that had none, which
  introduces no fewer keys than before (`Grown`, `EnoughMore`, `WithinMore`). What is
  left is that backed counts make a status that is no more than `Validity`
  (`StatusBounded`).

Those of the trust database hold for any keys and first bytes of their fingerprints,
any sizes of the cache, the hash tables and the lists, any imports, ratings and
findings of checks, and a death between any two disk accesses (`ByteAssumption`,
`SizeAssumption`, `ListAssumption`, `ChecksAssumption`, `ValuesAssumption`,
`ImportsAssumption`, `AbsentAssumption`, and so on: the types of what the environment
gives; a list has two places at least, as in the code).

* `TdbioTypes`, for any number of processes: `Types` adds to `TypeOK` the types of every
  record in the cache, in the file and among the writes to come. What makes it more than
  a check of types is that `put_record_into_cache` may have to make room first, which
  drops a third of the clean entries or writes back a fifth of the dirty ones; that after
  it there is room (`CacheSoft` is not exceeded) is the bound that `TypeOK` states. An
  operation is a fold of calls over a sequence, and each of these a fold over the cache:
  `Folded` says that a set that every step keeps holds the result, by `Climb`, and
  `Steady` that every call keeps a set of memories, for the numbers of the records that
  the calls may write (`Writable`: tables, lists, keys, and new ones).
* `CheckScheduledAlways`, for a process that works alone (`Proc = {q}`): the invariant
  `CheckScheduled` speaks of the file between two operations, and so it needs what is
  in the cache, where a version record may be newer or older, and what is still to be
  written. `Checking` says of a process that is idle that the version record it has in
  its cache, if any, is the one of the file and not changed; of one that is busy
  (`Writing`), that each write to record 0 that is to come is a version record; when a
  check is due even if the operation is cut off (`job.cut`), that the file has one
  scheduled and that all of these writes do too (`Marked`); and when the operation is not
  to fail, that cache and file agree after it (`Settled`), and the last of these writes is
  `Marked` if a check is due then.
  That an operation begins with all this takes a second invariant on its memory
  (`Zeroed`): a version record in the cache that is not changed is what the file will
  hold after the writes collected so far (`Agreed`), through eviction, write-back and
  appends (`PutZeroed`, `SyncZeroed`, `WriteBackTracks`). Reading record 0 from
  the cache or the file is then the same (`ReadZero`), and each operation that changes an
  ownertrust leaves a `Marked` record that is synced (`UpdateOwnertrustMarks`,
  `ClearOwnertrustsMarks`, `ImportEntriesMarks`).

## 7. Only model-checked

* Liveness under fairness is outside the prover: `Recovery`, `Ends`, `SignalEnds`,
  `Delivered`.
* What a recursive definition computes for every input would need an induction that
  the installed provers cannot apply (the library's induction theorems take an
  operator as a parameter). For single operators `Climb` stands in, as for the merging
  of signatures and of certificates. `Confluent` of `KeyMerge` would need it for every step of
  `merge_selfsigs` as well, and further assumptions on the files (no two statements on
  one thing of one date).
* `Exact` of `WebOfTrust` is proved in one direction only, as `NeverMoreDone`: nothing is
  stored as more valid than it is. That nothing is stored as less valid would need the
  rounds to leave no key out that `Validity` reaches, with keys that are skipped once they
  are settled. `NeverMore` is proved for checks that are begun when they are due (section 6).
* `Lookups`, `OnDisk` and `OnePerKey` of `Tdbio` are about every record of the file at
  once: that the tables and lists which the recursive function `Chain` walks stay a tree
  without cycles, and that each trust record hangs in it exactly once, while some of these
  records are in the cache only and others on the disk only. `CheckScheduled` is proved for a process
  that works alone. With several, one that has an old version record in its
  cache may write it back.
* `SelectSeq` cannot be expanded by the prover; `KeyMerge` has `Picked` in its place.

## 8. Not modelled

* Locking switched off: `--lock-never` (`g10/gpg.c:2581-2584`) disables the lock files
  and, with `random_disable_locking`, the lock on the seed file.
* In `Dotlock` the failure of a system call other than the writes of a lock file:
  `stat` on the template after the link (`util/dotlock.c:1018-1026`), `open` with
  another error than EEXIST, a lock file that cannot be read or removed at a release
  (1186-1210). The code gives up and says so; the lock file may then stay with a
  process that is alive and does nothing about it, so that `Recovery` would not hold.
* In `Keyring`, for the ring that is created on the spot (`g10/keyring.c:1532-1567`), a
  failure of its `iobuf_close` and the descriptor that this keeps.
* The Windows half of `dotlock.c`, the migration of old trust databases,
  transactions of `tdbio.c` (disabled by its callers), `tdbio_delete_record` and
  `drop_from_hashtable` (never called).
* In `Tdbio` several user ids per key and minimum ownertrust (`WebOfTrust` has
  both), the key's disabled flag, and write errors of the trust database (the code ends the process).
* In `WebOfTrust` the matching of regular expressions (a set of user ids stands
  for it), `--trusted-key`, the options stored in the database, min_cert_level,
  several processes at once, and the writes below one `do_sync`.
* In `KeyMerge` signatures behind a subkey that are no bindings or revocations of it
  where `merge_sigs` meets them, which goes from the last user id to the end of both
  keyblocks (`g10/import.c:2340-2347`), and where a signature on a user id behind a
  subkey counts for the last user id.
* In `KeyMerge` the import options (clean, minimal, merge only, repair), secret keys,
  the clearing of ownertrust (`Tdbio` has it), keys of version 3, preferences and
  usage flags, and what may come between reading the keyblock and writing it back
  (`Keyring` has that).
* In `Secmem` the initialisation, the locking in core, statistics and warnings, a
  second fatal signal, and memory that is not secure.
* In `Random` the mixing and what the bytes are, the faked generator and
  `quick_test`, the build and the run without locks on the seed file (the comment at
  `cipher/random.c:548-550` is about these), and sources of entropy
  other than the device.
* File permissions, full disks other than as failed writes, a power loss that
  loses writes already made, network file systems that cache directories.
* Packets, armor, compression, messages, signatures, encryption, cards, key
  servers, menus: sequential transformations of bytes whose results rest on
  arithmetic; integers likewise. The transport protocol of the card reader
  (`g10/ccid-driver.c`) is compiled only with libusb, which the configuration of
  this repository does not have.
* The `mi_` functions that the wrapper calls: the repository has their header
  and not their code.
* Vendored code (`zlib`, `bzlib`, `intl`), translations, build files.
