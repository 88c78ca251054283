------------------------------- MODULE Dotlock -------------------------------
(***************************************************************************)
(* The POSIX half of util/dotlock.c: advisory locking of one file through  *)
(* a lock file next to it.  A process is identified with the pid and the   *)
(* node name it writes into the lock file; every system call on the lock   *)
(* file is one step, so that the calls of several processes interleave.    *)
(*                                                                         *)
(* A handle is taken with link(2) where the file system has hard links and *)
(* with open(O_EXCL) where it has not.  A waiter that reads the pid of a   *)
(* process which does not exist any more on its own node unlinks the lock  *)
(* file as stale.  The handles left are released at exit, or by the fatal  *)
(* signal handler, which may run between any two steps.                    *)
(***************************************************************************)
EXTENDS Naturals

CONSTANTS Proc,       \* the processes that lock the file: (pid, node) pairs
          NodeOf,     \* the node a process runs on
          NoProc,     \* "no process": the owner of an absent lock file
          HardLinks,  \* TRUE when the file system supports link(2)
          Killable,   \* the processes that may vanish: SIGKILL, power loss
          Signalled,  \* the processes that may get a fatal signal
          Trying,     \* TRUE when callers pass a timeout other than -1
          MaxInc      \* how often a pid is used over (bound)

ASSUME NoProcAssumption == NoProc \notin Proc
ASSUME HardLinksAssumption == HardLinks \in BOOLEAN
ASSUME MaxIncAssumption == MaxInc \in Nat \ {0}

VARIABLES pc,        \* where each process is in its dotlock calls
          inc,       \* the incarnation of each pid; names its tname inode
          locked,    \* h->locked
          lockfile,  \* what the directory entry h->lockname refers to
          seen,      \* the live lock owner a waiter has read
          robbed     \* history: a lock in force had its lock file removed

vars == <<pc, inc, locked, lockfile, seen, robbed>>

-----------------------------------------------------------------------------
(* Lock files.  What is written grows from nothing to the pid to the pid   *)
(* and the node name; a hard link shows a complete file from the start.    *)

Text == {"empty", "pid", "full"}
Absent == [owner |-> NoProc, ino |-> 0, text |-> "empty"]
LockFile == {Absent} \cup [owner : Proc, ino : 1 .. MaxInc, text : Text]
MadeBy(p, t) == [owner |-> p, ino |-> inc[p], text |-> t]

Exists == lockfile.owner # NoProc
Mine(p) == lockfile.owner = p /\ lockfile.ino = inc[p]

(* read_lockfile stores TRUE in same_node only when the whole node name    *)
(* could be read and is the reader's.                                      *)
SameNode_Ignored(p) == lockfile.text = "full"
SameNode(p) == lockfile.text = "full" /\ NodeOf[p] = NodeOf[lockfile.owner]

Alive(p) == pc[p] # "dead"

(* The steps at which process p believes that the lock is its own.         *)
Writing == {"wpid", "wnode"}
Holding(p) == Alive(p) /\ locked[p] /\ pc[p] # "clear"

Again == IF HardLinks THEN "link" ELSE "creat"
Steps == {"dead", "none", "idle", "link", "stat", "creat", "wpid", "wnode",
          "read", "judge", "purge", "cs", "rread", "runlink", "clear"}

Goto(p, s) == pc' = [pc EXCEPT ![p] = s]

(* unlink(h->lockname), by whomever.  It is a robbery when another process *)
(* holds the lock, or is writing the lock file it created, at that time.   *)
Robs(p) ==
  /\ lockfile.owner \notin {NoProc, p}
  /\ Holding(lockfile.owner) \/ pc[lockfile.owner] \in Writing

Unlink(p) ==
  /\ lockfile' = Absent
  /\ robbed' = (robbed \/ Robs(p))

-----------------------------------------------------------------------------
TypeOK ==
  /\ pc \in [Proc -> Steps]
  /\ inc \in [Proc -> 1 .. MaxInc]
  /\ locked \in [Proc -> BOOLEAN]
  /\ lockfile \in LockFile
  /\ seen \in [Proc -> Proc \cup {NoProc}]
  /\ robbed \in BOOLEAN

Init ==
  /\ pc = [p \in Proc |-> "none"]
  /\ inc = [p \in Proc |-> 1]
  /\ locked = [p \in Proc |-> FALSE]
  /\ lockfile = Absent
  /\ seen = [p \in Proc |-> NoProc]
  /\ robbed = FALSE

(* dotlock_create: the template file has a name of its own, so nobody else *)
(* sees the steps.                                                         *)
Create(p) ==
  /\ pc[p] = "none"
  /\ Goto(p, "idle")
  /\ UNCHANGED <<inc, locked, lockfile, seen, robbed>>

(* dotlock_take on a handle that is locked already returns at once.        *)
Take(p) ==
  /\ pc[p] = "idle"
  /\ Goto(p, IF locked[p] THEN "cs" ELSE Again)
  /\ UNCHANGED <<inc, locked, lockfile, seen, robbed>>

Link_Renames(p) ==
  /\ pc[p] = "link"
  /\ lockfile' = MadeBy(p, "full")
  /\ Goto(p, "stat")
  /\ UNCHANGED <<inc, locked, seen, robbed>>

Link(p) ==
  /\ pc[p] = "link"
  /\ lockfile' = IF Exists THEN lockfile ELSE MadeBy(p, "full")
  /\ Goto(p, "stat")
  /\ UNCHANGED <<inc, locked, seen, robbed>>

(* The result of link is ignored; a link count of 2 decides.               *)
Stat(p) ==
  /\ pc[p] = "stat"
  /\ IF Mine(p)
       THEN locked' = [locked EXCEPT ![p] = TRUE] /\ Goto(p, "cs")
       ELSE UNCHANGED locked /\ Goto(p, "read")
  /\ UNCHANGED <<inc, lockfile, seen, robbed>>

Creat_Truncates(p) ==
  /\ pc[p] = "creat"
  /\ lockfile' = MadeBy(p, "empty") /\ Goto(p, "wpid")
  /\ UNCHANGED <<inc, locked, seen, robbed>>

Creat(p) ==
  /\ pc[p] = "creat"
  /\ IF Exists
       THEN UNCHANGED lockfile /\ Goto(p, "read")
       ELSE lockfile' = MadeBy(p, "empty") /\ Goto(p, "wpid")
  /\ UNCHANGED <<inc, locked, seen, robbed>>

WritePid_LocksEarly(p) ==
  /\ pc[p] = "wpid"
  /\ lockfile' = IF Mine(p) THEN MadeBy(p, "pid") ELSE lockfile
  /\ locked' = [locked EXCEPT ![p] = TRUE]
  /\ Goto(p, "wnode")
  /\ UNCHANGED <<inc, seen, robbed>>

(* The writes go to the open descriptor: to nowhere, once the name of the  *)
(* new file has been unlinked.                                             *)
WritePid(p) ==
  /\ pc[p] = "wpid"
  /\ lockfile' = IF Mine(p) THEN MadeBy(p, "pid") ELSE lockfile
  /\ Goto(p, "wnode")
  /\ UNCHANGED <<inc, locked, seen, robbed>>

WriteNode(p) ==
  /\ pc[p] = "wnode"
  /\ lockfile' = IF Mine(p) THEN MadeBy(p, "full") ELSE lockfile
  /\ locked' = [locked EXCEPT ![p] = TRUE]
  /\ Goto(p, "cs")
  /\ UNCHANGED <<inc, seen, robbed>>

(* A write error: the lock file is removed by name and the call fails.     *)
WriteError(p) ==
  /\ pc[p] \in Writing
  /\ Unlink(p)
  /\ Goto(p, "idle")
  /\ UNCHANGED <<inc, locked, seen>>

(* read_lockfile as dotlock_take_unix uses it.                             *)
ReadGone(p) ==
  /\ pc[p] = "read" /\ ~Exists
  /\ Goto(p, Again)
  /\ UNCHANGED <<inc, locked, lockfile, seen, robbed>>

ReadInvalid(p) ==
  /\ pc[p] = "read" /\ Exists /\ lockfile.text = "empty"
  /\ Goto(p, "idle")
  /\ UNCHANGED <<inc, locked, lockfile, seen, robbed>>

ReadOurs(p) ==
  /\ pc[p] = "read" /\ Exists /\ lockfile.text # "empty"
  /\ lockfile.owner = p /\ SameNode(p)
  /\ locked' = [locked EXCEPT ![p] = TRUE]
  /\ Goto(p, "cs")
  /\ UNCHANGED <<inc, lockfile, seen, robbed>>

(* Wait and try again, or give up when the timeout is used up.             *)
Busy(p) == Goto(p, Again) \/ (Trying /\ Goto(p, "idle"))

ReadRemote(p) ==
  /\ pc[p] = "read" /\ Exists /\ lockfile.text # "empty" /\ ~SameNode(p)
  /\ Busy(p)
  /\ UNCHANGED <<inc, locked, lockfile, seen, robbed>>

ReadOther(p) ==
  /\ pc[p] = "read" /\ Exists
  /\ lockfile.owner # p /\ SameNode(p)
  /\ seen' = [seen EXCEPT ![p] = lockfile.owner]
  /\ Goto(p, "judge")
  /\ UNCHANGED <<inc, locked, lockfile, robbed>>

Judge_Waits(p) ==
  /\ pc[p] = "judge"
  /\ Busy(p)
  /\ seen' = [seen EXCEPT ![p] = NoProc]
  /\ UNCHANGED <<inc, locked, lockfile, robbed>>

(* kill (pid, 0) == ESRCH: no process with that pid.                       *)
Judge(p) ==
  /\ pc[p] = "judge"
  /\ IF Alive(seen[p]) THEN Busy(p) ELSE Goto(p, "purge")
  /\ seen' = [seen EXCEPT ![p] = NoProc]
  /\ UNCHANGED <<inc, locked, lockfile, robbed>>

Purge(p) ==
  /\ pc[p] = "purge"
  /\ Unlink(p)
  /\ Goto(p, Again)
  /\ UNCHANGED <<inc, locked, seen>>

-----------------------------------------------------------------------------
(* dotlock_release: the owner written in the file is compared before the   *)
(* unlink; a failed release leaves h->locked set.                          *)
Release(p) ==
  /\ pc[p] = "cs"
  /\ Goto(p, "rread")
  /\ UNCHANGED <<inc, locked, lockfile, seen, robbed>>

ReleaseRead(p) ==
  /\ pc[p] = "rread"
  /\ Goto(p, IF lockfile.owner = p /\ SameNode(p) THEN "runlink" ELSE "idle")
  /\ UNCHANGED <<inc, locked, lockfile, seen, robbed>>

ReleaseUnlink(p) ==
  /\ pc[p] = "runlink"
  /\ IF Exists
       THEN Unlink(p) /\ Goto(p, "clear")
       ELSE UNCHANGED <<lockfile, robbed>> /\ Goto(p, "idle")
  /\ UNCHANGED <<inc, locked, seen>>

ReleaseClear(p) ==
  /\ pc[p] = "clear"
  /\ locked' = [locked EXCEPT ![p] = FALSE]
  /\ Goto(p, "idle")
  /\ UNCHANGED <<inc, lockfile, seen, robbed>>

Cleanup_Always(p) ==
  /\ Unlink(p)
  /\ locked' = [locked EXCEPT ![p] = FALSE]
  /\ seen' = [seen EXCEPT ![p] = NoProc]
  /\ UNCHANGED inc

(* dotlock_destroy: whatever lock file is there goes, when h->locked.      *)
Cleanup(p) ==
  /\ IF locked[p] THEN Unlink(p) ELSE UNCHANGED <<lockfile, robbed>>
  /\ locked' = [locked EXCEPT ![p] = FALSE]
  /\ seen' = [seen EXCEPT ![p] = NoProc]
  /\ UNCHANGED inc

Destroy(p) ==
  /\ pc[p] = "idle"
  /\ Cleanup(p)
  /\ Goto(p, "none")

(* exit(): dotlock_remove_lockfiles runs from atexit.                      *)
Exit(p) ==
  /\ pc[p] \in {"none", "idle", "cs"}
  /\ Cleanup(p)
  /\ Goto(p, "dead")

(* got_fatal_signal: the same, between any two steps.                      *)
Signal(p) ==
  /\ p \in Signalled /\ Alive(p)
  /\ Cleanup(p)
  /\ Goto(p, "dead")

(* The process is gone without having run a line of code.                  *)
Kill(p) ==
  /\ p \in Killable /\ Alive(p)
  /\ locked' = [locked EXCEPT ![p] = FALSE]
  /\ seen' = [seen EXCEPT ![p] = NoProc]
  /\ Goto(p, "dead")
  /\ UNCHANGED <<inc, lockfile, robbed>>

(* A new process, with the pid of an old one.                              *)
Start(p) ==
  /\ pc[p] = "dead" /\ inc[p] < MaxInc
  /\ inc' = [inc EXCEPT ![p] = @ + 1]
  /\ Goto(p, "none")
  /\ UNCHANGED <<locked, lockfile, seen, robbed>>

-----------------------------------------------------------------------------
TakeStep(p) ==
  \/ Link(p) \/ Stat(p)
  \/ Creat(p) \/ WritePid(p) \/ WriteNode(p)
  \/ ReadGone(p) \/ ReadInvalid(p) \/ ReadOurs(p) \/ ReadRemote(p)
  \/ ReadOther(p) \/ Judge(p) \/ Purge(p)

ReleaseStep(p) ==
  Release(p) \/ ReleaseRead(p) \/ ReleaseUnlink(p) \/ ReleaseClear(p)

Next ==
  \E p \in Proc :
    \/ Create(p) \/ Take(p) \/ TakeStep(p) \/ WriteError(p)
    \/ ReleaseStep(p) \/ Destroy(p)
    \/ Exit(p) \/ Signal(p) \/ Kill(p) \/ Start(p)

Spec == Init /\ [][Next]_vars

(* Each process is scheduled, its calls return, and a caller that took the *)
(* lock releases it; the disk is not full every time that a lock file is   *)
(* written. Whether a process calls again, exits or dies is its choice.    *)
Fairness ==
  \A p \in Proc : /\ WF_vars(TakeStep(p)) /\ WF_vars(ReleaseStep(p))
                  /\ SF_vars(WritePid(p)) /\ SF_vars(WriteNode(p))

FairSpec == Spec /\ Fairness

-----------------------------------------------------------------------------
(* Two callers of dotlock_take both hold a 0 and no release yet.           *)
Mutex == \A p, q \in Proc : pc[p] = "cs" /\ pc[q] = "cs" => p = q

(* The lock excludes as long as no lock file is removed under its owner:   *)
(* neither link(2) nor O_EXCL, nor a death at any step, nor the adoption   *)
(* of a predecessor's lock file gives the lock to two processes.           *)
MutexUnlessRobbed == robbed \/ Mutex

(* While the lock is in force the lock file names its owner, and a process *)
(* that is still writing the pid writes into the file that waiters read.   *)
OwnFile ==
  \A p \in Proc :
    /\ Holding(p) => lockfile.owner = p
    /\ pc[p] \in Writing => Mine(p)

(* h->locked is set exactly from a successful take to the release of it,   *)
(* though a failed release leaves it set.  With OwnFile, inductive.        *)
LockedFlag ==
  \A p \in Proc :
    /\ pc[p] \in {"cs", "rread", "runlink"} => locked[p]
    /\ pc[p] \notin {"idle", "cs", "rread", "runlink", "clear"} => ~locked[p]

IInv == TypeOK /\ LockedFlag /\ (robbed \/ OwnFile)

(* The first lock that is broken is broken by a waiter that removes a lock *)
(* file as stale on the strength of a pid it read earlier, or by a fatal   *)
(* signal between the unlink of dotlock_release and h->locked = 0.         *)
FirstRobbery ==
  [][ robbed' # robbed =>
        \E p \in Proc : \/ pc[p] = "purge" /\ pc'[p] = Again
                        \/ pc[p] = "clear" /\ pc'[p] = "dead" ]_vars

(* Nobody waits for ever for a lock whose owner has died on the same node, *)
(* but in two cases: the owner died (or its disk was full) before the file *)
(* was complete, which read_lockfile takes for an error; or its pid has    *)
(* been given to a new process, which kill (pid, 0) finds alive.           *)
Waiting(p) == pc[p] \in {"link", "stat", "creat", "read", "judge", "purge"}
HalfWritten == Exists /\ lockfile.text # "full" /\ pc[lockfile.owner] \notin Writing
PidReused == Exists /\ Alive(lockfile.owner) /\ inc[lockfile.owner] # lockfile.ino
Recovery ==
  (\E p \in Proc : Waiting(p))
    ~> \/ \E p \in Proc : pc[p] = "cs"
       \/ \A p \in Proc : ~Waiting(p)
       \/ HalfWritten \/ PidReused

(* Locks across nodes: where no two processes share a node and none gets a *)
(* fatal signal, a lock file is removed by nobody but its owner ...        *)
Remote ==
  /\ \A p, q \in Proc : NodeOf[p] = NodeOf[q] => p = q
  /\ Signalled = {}

RemoteInv ==
  /\ TypeOK /\ LockedFlag /\ OwnFile /\ ~robbed
  /\ \A p \in Proc : pc[p] \notin {"judge", "purge"}

(* ... and the lock is what AbstractLock promises, whoever dies when.      *)
Abstract ==
  INSTANCE AbstractLock WITH
    owner <- lockfile.owner,
    holders <- {p \in Proc : Holding(p)}
ImplementsAbstractLock == Abstract!Spec

=============================================================================
