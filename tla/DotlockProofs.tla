---------------------------- MODULE DotlockProofs ----------------------------
(***************************************************************************)
(* Proofs about Dotlock, for any set of processes, any placement of them   *)
(* on nodes, any number of pid reuses and both ways to create the file.    *)
(***************************************************************************)
EXTENDS Dotlock, TLAPS

(* Every action keeps every variable within its type.                      *)
LEMMA AbsentType == Absent \in LockFile
BY MaxIncAssumption DEF Absent, LockFile, Text

LEMMA TypeInit == Init => TypeOK
<1> SUFFICES ASSUME Init PROVE TypeOK
    OBVIOUS
<1>1. lockfile \in LockFile
    BY AbsentType DEF Init
<1>2. inc \in [Proc -> 1 .. MaxInc]
    BY MaxIncAssumption DEF Init
<1>3. pc \in [Proc -> Steps]
    BY DEF Init, Steps
<1>4. /\ locked \in [Proc -> BOOLEAN]
      /\ seen \in [Proc -> Proc \cup {NoProc}]
      /\ robbed \in BOOLEAN
    BY DEF Init
<1> QED BY <1>1, <1>2, <1>3, <1>4 DEF TypeOK

LEMMA UnlinkType ==
  ASSUME NEW p \in Proc, Unlink(p)
  PROVE  lockfile' \in LockFile /\ robbed' \in BOOLEAN
<1>1. lockfile' \in LockFile
    BY AbsentType DEF Unlink
<1>2. robbed' \in BOOLEAN
    BY ZenonT(20) DEF Unlink
<1> QED BY <1>1, <1>2

LEMMA TypeNext == TypeOK /\ [Next]_vars => TypeOK'
<1> SUFFICES ASSUME TypeOK, [Next]_vars PROVE TypeOK'
    OBVIOUS
<1> USE DEF TypeOK, Goto, LockFile, Steps, Text
<1>0. CASE UNCHANGED vars
    BY <1>0 DEF vars
<1>1. ASSUME NEW p \in Proc, Create(p) \/ Take(p) \/ TakeStep(p) PROVE TypeOK'
    <2>1. CASE Create(p) BY <2>1 DEF Create
    <2>2. CASE Take(p) BY <2>2 DEF Take, Again
    <2>3. CASE Link(p) BY <2>3 DEF Link, MadeBy
    <2>4. CASE Stat(p) BY <2>4 DEF Stat
    <2>5. CASE Creat(p) BY <2>5 DEF Creat, MadeBy
    <2>6. CASE WritePid(p) BY <2>6 DEF WritePid, MadeBy
    <2>7. CASE WriteNode(p) BY <2>7 DEF WriteNode, MadeBy
    <2>8. CASE ReadGone(p) BY <2>8 DEF ReadGone, Again
    <2>9. CASE ReadInvalid(p) BY <2>9 DEF ReadInvalid
    <2>10. CASE ReadOurs(p) BY <2>10 DEF ReadOurs
    <2>11. CASE ReadRemote(p) BY <2>11 DEF ReadRemote, Busy, Again
    <2>12. CASE ReadOther(p) BY <2>12 DEF ReadOther, Exists, Absent
    <2>13. CASE Judge(p) BY <2>13 DEF Judge, Busy, Again
    <2>14. CASE Purge(p) BY <2>14, UnlinkType DEF Purge, Again
    <2> QED BY <1>1, <2>1, <2>2, <2>3, <2>4, <2>5, <2>6, <2>7, <2>8, <2>9,
               <2>10, <2>11, <2>12, <2>13, <2>14 DEF TakeStep
<1>2. ASSUME NEW p \in Proc,
             WriteError(p) \/ ReleaseStep(p) \/ Destroy(p) \/ Exit(p)
               \/ Signal(p) \/ Kill(p) \/ Start(p)
      PROVE  TypeOK'
    <2>1. CASE WriteError(p) BY <2>1, UnlinkType DEF WriteError
    <2>2. CASE Release(p) BY <2>2 DEF Release
    <2>3. CASE ReleaseRead(p) BY <2>3 DEF ReleaseRead
    <2>4. CASE ReleaseUnlink(p) BY <2>4, UnlinkType DEF ReleaseUnlink
    <2>5. CASE ReleaseClear(p) BY <2>5 DEF ReleaseClear
    <2>6. CASE Destroy(p) BY <2>6, UnlinkType DEF Destroy, Cleanup
    <2>7. CASE Exit(p) BY <2>7, UnlinkType DEF Exit, Cleanup
    <2>8. CASE Signal(p) BY <2>8, UnlinkType DEF Signal, Cleanup
    <2>9. CASE Kill(p) BY <2>9 DEF Kill
    <2>10. CASE Start(p) BY <2>10, MaxIncAssumption DEF Start
    <2> QED BY <1>2, <2>1, <2>2, <2>3, <2>4, <2>5, <2>6, <2>7, <2>8, <2>9,
               <2>10 DEF ReleaseStep
<1> QED BY <1>0, <1>1, <1>2 DEF Next

(* The variables keep their types in every behaviour of dotlock.c.         *)
THEOREM TypeCorrect == Spec => []TypeOK
BY TypeInit, TypeNext, PTL DEF Spec

-----------------------------------------------------------------------------
(* The flag h->locked along the steps of a process.                        *)
LEMMA FlagNext == TypeOK /\ LockedFlag /\ [Next]_vars => LockedFlag'
<1> SUFFICES ASSUME TypeOK, LockedFlag, [Next]_vars PROVE LockedFlag'
    OBVIOUS
<1> USE DEF TypeOK, LockedFlag, Goto, Steps
<1>0. CASE UNCHANGED vars
    BY <1>0 DEF vars
<1>1. ASSUME NEW p \in Proc, Create(p) \/ Take(p) \/ TakeStep(p)
      PROVE LockedFlag'
    <2>1. CASE Create(p) BY <2>1 DEF Create
    <2>2. CASE Take(p) BY <2>2 DEF Take, Again
    <2>3. CASE Link(p) \/ Stat(p) BY <2>3 DEF Link, Stat
    <2>4. CASE Creat(p) \/ WritePid(p) \/ WriteNode(p)
        BY <2>4 DEF Creat, WritePid, WriteNode
    <2>5. CASE ReadGone(p) \/ ReadInvalid(p) \/ ReadOurs(p) \/ ReadRemote(p)
        BY <2>5 DEF ReadGone, ReadInvalid, ReadOurs, ReadRemote, Busy, Again
    <2>6. CASE ReadOther(p) \/ Judge(p) \/ Purge(p)
        BY <2>6 DEF ReadOther, Judge, Purge, Busy, Again
    <2> QED BY <1>1, <2>1, <2>2, <2>3, <2>4, <2>5, <2>6 DEF TakeStep
<1>2. ASSUME NEW p \in Proc,
             WriteError(p) \/ ReleaseStep(p) \/ Destroy(p) \/ Exit(p)
               \/ Signal(p) \/ Kill(p) \/ Start(p)
      PROVE  LockedFlag'
    <2>1. CASE WriteError(p) BY <2>1 DEF WriteError, Writing
    <2>2. CASE Release(p) \/ ReleaseRead(p) BY <2>2 DEF Release, ReleaseRead
    <2>3. CASE ReleaseUnlink(p) \/ ReleaseClear(p)
        BY <2>3 DEF ReleaseUnlink, ReleaseClear
    <2>4. CASE Destroy(p) \/ Exit(p) \/ Signal(p)
        BY <2>4 DEF Destroy, Exit, Signal, Cleanup
    <2>5. CASE Kill(p) \/ Start(p) BY <2>5 DEF Kill, Start
    <2> QED BY <1>2, <2>1, <2>2, <2>3, <2>4, <2>5 DEF ReleaseStep
<1> QED BY <1>0, <1>1, <1>2 DEF Next

(* Nobody holds the lock while there is no lock file.                      *)
LEMMA NoFileNoHolder ==
  ASSUME OwnFile, ~Exists, NEW q \in Proc
  PROVE  ~Holding(q) /\ pc[q] \notin Writing
BY NoProcAssumption DEF OwnFile, Exists, Mine

(* An unlink that robs nobody finds no holder and no writer but the        *)
(* process itself.                                                         *)
LEMMA UnlinkSafe ==
  ASSUME OwnFile, NEW p \in Proc, ~Robs(p), NEW q \in Proc, q # p
  PROVE  ~Holding(q) /\ pc[q] \notin Writing
BY NoProcAssumption DEF OwnFile, Robs, Mine

(* The steps that leave the lock file alone or write it for their process. *)
LEMMA OwnFileTake ==
  ASSUME TypeOK, LockedFlag, OwnFile, NEW p \in Proc,
         Create(p) \/ Take(p) \/ (TakeStep(p) /\ ~Purge(p))
  PROVE  OwnFile'
<1> USE NoProcAssumption DEF TypeOK, LockedFlag, OwnFile, Goto, Steps, Holding,
        Alive, Mine, Writing
<1>1. CASE Create(p) BY <1>1 DEF Create
<1>2. CASE Take(p) BY <1>2 DEF Take, Again
<1>3. CASE Link(p)
    <2>1. CASE Exists BY <1>3, <2>1 DEF Link
    <2>2. CASE ~Exists
        BY <1>3, <2>2, NoFileNoHolder DEF Link
    <2> QED BY <2>1, <2>2
<1>4. CASE Stat(p) BY <1>4 DEF Stat
<1>5. CASE Creat(p)
    <2>1. CASE Exists BY <1>5, <2>1 DEF Creat
    <2>2. CASE ~Exists
        BY <1>5, <2>2, NoFileNoHolder DEF Creat, MadeBy
    <2> QED BY <2>1, <2>2
<1>6. CASE WritePid(p) BY <1>6 DEF WritePid, MadeBy
<1>7. CASE WriteNode(p) BY <1>7 DEF WriteNode, MadeBy
<1>8. CASE ReadGone(p) \/ ReadInvalid(p) \/ ReadOurs(p) \/ ReadRemote(p)
    BY <1>8 DEF ReadGone, ReadInvalid, ReadOurs, ReadRemote, Busy, Again
<1>9. CASE ReadOther(p) \/ Judge(p)
    BY <1>9 DEF ReadOther, Judge, Busy, Again
<1> QED BY <1>1, <1>2, <1>3, <1>4, <1>5, <1>6, <1>7, <1>8, <1>9 DEF TakeStep

(* The steps that take the lock file away, when they rob nobody.           *)
LEMMA OwnFileUnlink ==
  ASSUME TypeOK, LockedFlag, OwnFile, NEW p \in Proc, ~robbed',
         Purge(p) \/ WriteError(p) \/ ReleaseStep(p) \/ Destroy(p)
           \/ Exit(p) \/ Signal(p) \/ Kill(p) \/ Start(p)
  PROVE  OwnFile'
<1> USE NoProcAssumption DEF TypeOK, LockedFlag, OwnFile, Goto, Steps, Holding,
        Alive, Mine, Writing
<1>1. CASE Purge(p) BY <1>1, UnlinkSafe DEF Purge, Unlink, Again
<1>2. CASE WriteError(p) BY <1>2, UnlinkSafe DEF WriteError, Unlink
<1>3. CASE Release(p) \/ ReleaseRead(p) \/ ReleaseClear(p)
    BY <1>3 DEF Release, ReleaseRead, ReleaseClear
<1>4. CASE ReleaseUnlink(p) BY <1>4, UnlinkSafe DEF ReleaseUnlink, Unlink
<1>5. ASSUME Cleanup(p), Goto(p, "none") \/ Goto(p, "dead")
      PROVE  OwnFile'
    BY <1>5, UnlinkSafe DEF Cleanup, Unlink
<1>6. CASE Destroy(p) \/ Exit(p) \/ Signal(p)
    BY <1>5, <1>6 DEF Destroy, Exit, Signal
<1>7. CASE Kill(p) \/ Start(p) BY <1>7 DEF Kill, Start
<1> QED BY <1>1, <1>2, <1>3, <1>4, <1>6, <1>7 DEF ReleaseStep

(* Once a lock file has been removed under its owner the flag stays.       *)
LEMMA RobbedStays == robbed /\ [Next]_vars => robbed'
<1> SUFFICES ASSUME robbed, [Next]_vars PROVE robbed'
    OBVIOUS
<1>1. ASSUME NEW p \in Proc, Unlink(p) PROVE robbed'
    BY <1>1 DEF Unlink
<1> QED
    BY <1>1 DEF Next, vars, Create, Take, TakeStep, Link, Stat, Creat, WritePid,
       WriteNode, ReadGone, ReadInvalid, ReadOurs, ReadRemote, ReadOther, Judge,
       Purge, WriteError, ReleaseStep, Release, ReleaseRead, ReleaseUnlink,
       ReleaseClear, Destroy, Exit, Signal, Cleanup, Kill, Start

LEMMA IInvNext == IInv /\ [Next]_vars => IInv'
<1> SUFFICES ASSUME IInv, [Next]_vars PROVE IInv'
    OBVIOUS
<1>1. TypeOK' /\ LockedFlag'
    BY TypeNext, FlagNext DEF IInv
<1>2. robbed' \/ OwnFile'
    <2>1. CASE robbed BY <2>1, RobbedStays
    <2>2. CASE ~robbed' /\ OwnFile
        <3>1. CASE UNCHANGED vars
            BY <2>2, <3>1 DEF OwnFile, vars, Holding, Alive, Mine
        <3>2. ASSUME NEW p \in Proc,
                     Create(p) \/ Take(p) \/ TakeStep(p) \/ WriteError(p)
                       \/ ReleaseStep(p) \/ Destroy(p) \/ Exit(p)
                       \/ Signal(p) \/ Kill(p) \/ Start(p)
              PROVE  OwnFile'
            BY <2>2, <3>2, OwnFileTake, OwnFileUnlink DEF IInv, TakeStep
        <3> QED BY <3>1, <3>2 DEF Next
    <2> QED BY <2>1, <2>2 DEF IInv
<1> QED BY <1>1, <1>2 DEF IInv

LEMMA IInvInit == Init => IInv
<1> SUFFICES ASSUME Init PROVE IInv
    OBVIOUS
<1>1. LockedFlag /\ OwnFile
    BY DEF Init, LockedFlag, OwnFile, Holding, Writing
<1> QED BY <1>1, TypeInit DEF IInv

LEMMA OwnFileMutex == LockedFlag /\ OwnFile => Mutex
BY DEF LockedFlag, OwnFile, Mutex, Holding, Alive

(* dotlock_take gives the lock to one process at a time as long as no lock *)
(* file is removed under its owner, however the processes are killed.      *)
THEOREM ExclusionUnlessRobbed == Spec => []MutexUnlessRobbed
<1>1. IInv => MutexUnlessRobbed
    BY OwnFileMutex DEF IInv, MutexUnlessRobbed
<1> QED BY <1>1, IInvInit, IInvNext, PTL DEF Spec

(* The inductive invariant itself: the lock file is the holder's.          *)
THEOREM HolderOwnsFile == Spec => []IInv
BY IInvInit, IInvNext, PTL DEF Spec

-----------------------------------------------------------------------------
(* A process that holds the lock finds its own name in the lock file.      *)
LEMMA NoSelfRobbery ==
  ASSUME OwnFile, NEW p \in Proc, Holding(p) \/ pc[p] \in Writing
  PROVE  ~Robs(p)
BY DEF OwnFile, Robs, Mine

(* Which removal can rob, for a first time.                                *)
LEMMA RobberyStep ==
  IInv /\ [Next]_vars /\ robbed' # robbed =>
    \E p \in Proc : Purge(p) \/ (pc[p] = "clear" /\ Signal(p))
<1> SUFFICES ASSUME IInv, [Next]_vars, robbed' # robbed
             PROVE  \E p \in Proc : Purge(p) \/ (pc[p] = "clear" /\ Signal(p))
    OBVIOUS
<1>1. ~robbed /\ OwnFile
    BY TypeNext, RobbedStays DEF IInv, TypeOK
<1>2. PICK p \in Proc : \/ Purge(p) \/ WriteError(p) \/ ReleaseUnlink(p)
                        \/ Destroy(p) \/ Exit(p) \/ Signal(p)
    BY DEF Next, vars, Create, Take, TakeStep, Link, Stat, Creat, WritePid,
       WriteNode, ReadGone, ReadInvalid, ReadOurs, ReadRemote, ReadOther, Judge,
       ReleaseStep, Release, ReleaseRead, ReleaseClear, Kill, Start
<1>3. (Unlink(p) /\ ~Robs(p)) => robbed' = robbed
    BY <1>1, TypeNext DEF Unlink, IInv, TypeOK
<1> USE DEF IInv, TypeOK, LockedFlag, Goto, Steps
<1>4. CASE Purge(p) BY <1>4
<1>5. CASE WriteError(p) BY <1>1, <1>3, <1>5, NoSelfRobbery DEF WriteError
<1>6. CASE ReleaseUnlink(p)
    BY <1>1, <1>3, <1>6, NoSelfRobbery DEF ReleaseUnlink, Holding, Alive
<1>7. CASE Destroy(p) \/ Exit(p)
    BY <1>1, <1>3, <1>7, NoSelfRobbery
       DEF Destroy, Exit, Cleanup, Holding, Alive
<1>8. CASE Signal(p)
    <2>1. CASE pc[p] = "clear" BY <1>8, <2>1
    <2>2. CASE pc[p] # "clear"
        BY <1>1, <1>3, <1>8, <2>2, NoSelfRobbery
           DEF Signal, Cleanup, Holding, Alive
    <2> QED BY <2>1, <2>2
<1> QED BY <1>2, <1>4, <1>5, <1>6, <1>7, <1>8

(* Only a stale judgement or a badly timed fatal signal breaks a lock.     *)
THEOREM RobberyCauses == Spec => FirstRobbery
<1>1. IInv /\ [Next]_vars =>
        [ robbed' # robbed =>
            \E p \in Proc : \/ pc[p] = "purge" /\ pc'[p] = Again
                            \/ pc[p] = "clear" /\ pc'[p] = "dead" ]_vars
    BY RobberyStep DEF Purge, Signal, Goto, IInv, TypeOK
<1> QED BY <1>1, HolderOwnsFile, PTL DEF Spec, FirstRobbery

-----------------------------------------------------------------------------
(* Processes on nodes of their own never judge each other dead.            *)
LEMMA RemoteJudge ==
  ASSUME Remote, TypeOK, NEW p \in Proc, ReadOther(p)
  PROVE  FALSE
BY DEF Remote, ReadOther, SameNode, TypeOK, LockFile, Exists, Absent

LEMMA RemoteNext == Remote /\ RemoteInv /\ [Next]_vars => RemoteInv'
<1> SUFFICES ASSUME Remote, RemoteInv, [Next]_vars PROVE RemoteInv'
    OBVIOUS
<1>1. TypeOK' /\ LockedFlag'
    BY TypeNext, FlagNext DEF RemoteInv
<1>2. \A q \in Proc : pc'[q] \notin {"judge", "purge"}
    BY RemoteJudge
       DEF RemoteInv, TypeOK, Steps, Goto, Next, vars, Create, Take, TakeStep,
       Link, Stat, Creat, WritePid, WriteNode, ReadGone, ReadInvalid, ReadOurs,
       ReadRemote, Judge, Purge, Busy, Again, WriteError, ReleaseStep, Release,
       ReleaseRead, ReleaseUnlink, ReleaseClear, Destroy, Exit, Signal, Kill,
       Start
<1>3. ~robbed'
    <2>1. \A p \in Proc : ~Purge(p) /\ ~Signal(p)
        BY DEF RemoteInv, Remote, Purge, Signal
    <2> QED BY <2>1, RobberyStep DEF RemoteInv, IInv, TypeOK
<1>4. OwnFile'
    <2>1. CASE UNCHANGED vars
        BY <2>1 DEF RemoteInv, OwnFile, vars, Holding, Alive, Mine
    <2>2. CASE Next
        <3> USE DEF RemoteInv
        <3>2. PICK p \in Proc :
                \/ Create(p) \/ Take(p) \/ TakeStep(p) \/ WriteError(p)
                \/ ReleaseStep(p) \/ Destroy(p)
                \/ Exit(p) \/ Signal(p) \/ Kill(p) \/ Start(p)
            BY <2>2 DEF Next
        <3>3. ~Signal(p) /\ ~Purge(p)
            BY DEF Remote, Signal, Purge
        <3>4. CASE Create(p) \/ Take(p) \/ TakeStep(p)
            BY <3>3, <3>4, OwnFileTake
        <3>5. CASE WriteError(p) \/ ReleaseStep(p) \/ Destroy(p) \/ Exit(p)
                     \/ Kill(p) \/ Start(p)
            BY <1>3, <3>3, <3>5, OwnFileUnlink
        <3> QED BY <3>2, <3>3, <3>4, <3>5
    <2> QED BY <2>1, <2>2
<1> QED BY <1>1, <1>2, <1>3, <1>4 DEF RemoteInv

LEMMA RemoteInit == Init => RemoteInv
<1> SUFFICES ASSUME Init PROVE RemoteInv
    OBVIOUS
<1>1. LockedFlag /\ OwnFile
    BY IInvInit DEF Init, LockedFlag, OwnFile, Holding, Writing
<1> QED BY <1>1, TypeInit DEF Init, RemoteInv

(* Processes that share no node and get no fatal signal never hold the     *)
(* lock together, whoever of them is killed at whatever step.              *)
THEOREM RemoteExclusion ==
  ASSUME Remote
  PROVE  Spec => []Mutex
<1>1. RemoteInv => Mutex
    BY OwnFileMutex DEF RemoteInv
<1>2. RemoteInv /\ [Next]_vars => RemoteInv'
    BY RemoteNext
<1> QED BY <1>1, <1>2, RemoteInit, PTL DEF Spec

(* At most one process holds the lock: the one named in the lock file.     *)
LEMMA Holders ==
  ASSUME OwnFile, NEW p \in Proc, Holding(p)
  PROVE  /\ lockfile.owner = p
         /\ {q \in Proc : Holding(q)} = {p}
BY DEF OwnFile

LEMMA AbstractInit == Init => Abstract!Init
BY DEF Init, Abstract!Init, Absent, Holding

(* Every step of Dotlock is a step of AbstractLock or changes neither the  *)
(* name in the lock file nor the set of holders.                           *)
LEMMA AbstractTake ==
  ASSUME RemoteInv, RemoteInv', NEW p \in Proc,
         Create(p) \/ Take(p) \/ (TakeStep(p) /\ ~Purge(p))
  PROVE  [Abstract!Next]_(Abstract!lockVars)
<1> DEFINE held == {q \in Proc : Holding(q)}
<1> USE DEF RemoteInv, TypeOK, Goto, Steps
<1>1. CASE Link(p) \/ Creat(p)
    <2>1. held' = held
        BY <1>1 DEF Link, Creat, Holding, Alive
    <2>2. lockfile'.owner = lockfile.owner
            \/ (lockfile.owner = NoProc /\ lockfile'.owner = p)
        BY <1>1 DEF Link, Creat, Exists, MadeBy
    <2> QED BY <2>1, <2>2 DEF Abstract!Next, Abstract!Reserve, Abstract!lockVars
<1>2. CASE Stat(p) \/ WriteNode(p) \/ ReadOurs(p)
    <2>1. CASE locked' = locked
        BY <1>2, <2>1 DEF Stat, WriteNode, ReadOurs, Holding, Alive,
           Abstract!lockVars, MadeBy, Mine, LockedFlag
    <2>2. CASE locked' # locked
        <3>1. Holding(p)' /\ lockfile'.owner = p /\ lockfile.owner = p
            BY <1>2, <2>2 DEF Stat, WriteNode, ReadOurs, Holding, Alive,
               Mine, MadeBy, OwnFile, Writing, LockedFlag
        <3>2. held' = {p}
            BY <3>1 DEF OwnFile
        <3>3. ~Holding(p)
            BY <1>2, <2>2 DEF Stat, WriteNode, ReadOurs, LockedFlag, Holding
        <3>4. held = {}
            BY <3>1, <3>3 DEF OwnFile
        <3> QED BY <3>1, <3>2, <3>4 DEF Abstract!Next, Abstract!Hold
    <2> QED BY <2>1, <2>2
<1>3. CASE \/ Create(p) \/ Take(p) \/ WritePid(p) \/ ReadGone(p)
           \/ ReadInvalid(p) \/ ReadRemote(p) \/ ReadOther(p) \/ Judge(p)
    <2>1. held' = held
        BY <1>3 DEF Create, Take, Again, WritePid, ReadGone, ReadInvalid,
           ReadRemote, ReadOther, Judge, Busy, Holding, Alive, LockedFlag
    <2>2. lockfile'.owner = lockfile.owner
        BY <1>3 DEF Create, Take, WritePid, ReadGone, ReadInvalid, ReadRemote,
           ReadOther, Judge, Mine, MadeBy
    <2> QED BY <2>1, <2>2 DEF Abstract!lockVars
<1> QED BY <1>1, <1>2, <1>3 DEF TakeStep

LEMMA AbstractRelease ==
  ASSUME RemoteInv, RemoteInv', NEW p \in Proc,
         WriteError(p) \/ ReleaseStep(p) \/ Destroy(p) \/ Exit(p)
           \/ Kill(p) \/ Start(p)
  PROVE  [Abstract!Next]_(Abstract!lockVars)
<1> DEFINE held == {q \in Proc : Holding(q)}
<1> USE DEF RemoteInv, TypeOK, Goto, Steps
<1>1. ASSUME lockfile.owner = p, Unlink(p), ~Holding(p)',
             \A q \in Proc : q # p => Holding(q)' = Holding(q)
      PROVE  Abstract!Free(p)
    <2>1. held' = {}
        BY <1>1 DEF OwnFile
    <2>2. lockfile'.owner = NoProc
        BY <1>1 DEF Unlink, Absent
    <2> QED BY <1>1, <2>1, <2>2 DEF Abstract!Free
<1>2. ASSUME UNCHANGED lockfile, \A q \in Proc : Holding(q)' = Holding(q)
      PROVE  UNCHANGED Abstract!lockVars
    BY <1>2 DEF Abstract!lockVars
<1>3. CASE WriteError(p)
    BY <1>1, <1>3 DEF WriteError, Writing, OwnFile, Mine, LockedFlag, Holding,
       Alive, Abstract!Next
<1>4. CASE Release(p) \/ ReleaseRead(p) \/ ReleaseClear(p)
    BY <1>2, <1>4 DEF Release, ReleaseRead, ReleaseClear, Holding, Alive
<1>5. CASE ReleaseUnlink(p)
    <2>1. Holding(p) /\ lockfile.owner = p
        BY <1>5 DEF ReleaseUnlink, LockedFlag, Holding, Alive, OwnFile
    <2>2. Unlink(p) /\ ~Holding(p)'
        BY <1>5, <2>1, NoProcAssumption DEF ReleaseUnlink, Exists, Holding
    <2>3. \A q \in Proc : q # p => Holding(q)' = Holding(q)
        BY <1>5 DEF ReleaseUnlink, Holding, Alive
    <2> QED BY <1>1, <2>1, <2>2, <2>3 DEF Abstract!Next
<1>6. CASE Destroy(p) \/ Exit(p)
    <2>1. ~Holding(p)'
        BY <1>6 DEF Destroy, Exit, Cleanup, Holding
    <2>2. \A q \in Proc : q # p => Holding(q)' = Holding(q)
        BY <1>6 DEF Destroy, Exit, Cleanup, Holding, Alive
    <2>3. CASE locked[p]
        <3>1. Holding(p) /\ lockfile.owner = p
            BY <1>6, <2>3 DEF Destroy, Exit, Holding, Alive, OwnFile
        <3>2. Unlink(p)
            BY <1>6, <2>3 DEF Destroy, Exit, Cleanup
        <3> QED BY <1>1, <2>1, <2>2, <3>1, <3>2 DEF Abstract!Next
    <2>4. CASE ~locked[p]
        BY <1>2, <1>6, <2>1, <2>2, <2>4 DEF Destroy, Exit, Cleanup, Holding
    <2> QED BY <2>3, <2>4
<1>7. CASE Kill(p)
    <2>1. ~Holding(p)' /\ \A q \in Proc : q # p => Holding(q)' = Holding(q)
        BY <1>7 DEF Kill, Holding, Alive
    <2>2. CASE Holding(p)
        <3>1. held = {p} /\ held' = {}
            BY <2>1, <2>2 DEF OwnFile
        <3> QED BY <1>7, <3>1 DEF Kill, Abstract!Next, Abstract!Die
    <2>3. CASE ~Holding(p)
        <3>1. Holding(p)' = Holding(p)
            BY <2>1, <2>3 DEF Holding, Alive
        <3> QED BY <1>2, <1>7, <2>1, <3>1 DEF Kill
    <2> QED BY <2>2, <2>3
<1>8. CASE Start(p)
    BY <1>2, <1>8 DEF Start, Holding, Alive, LockedFlag
<1> QED BY <1>3, <1>4, <1>5, <1>6, <1>7, <1>8 DEF ReleaseStep

(* dotlock.c implements the abstract lock between nodes: reserved for one  *)
(* process, held by that one alone and freed by nobody else.               *)
THEOREM RemoteRefinement ==
  ASSUME Remote
  PROVE  Spec => ImplementsAbstractLock
<1>1. RemoteInv /\ [Next]_vars => RemoteInv'
    BY RemoteNext
<1>2. RemoteInv /\ RemoteInv' /\ [Next]_vars
        => [Abstract!Next]_(Abstract!lockVars)
    <2> SUFFICES ASSUME RemoteInv, RemoteInv', [Next]_vars
                 PROVE  [Abstract!Next]_(Abstract!lockVars)
        OBVIOUS
    <2>1. CASE UNCHANGED vars
        BY <2>1 DEF vars, Abstract!lockVars, Holding, Alive
    <2>2. ASSUME NEW p \in Proc,
                 Create(p) \/ Take(p) \/ TakeStep(p) \/ WriteError(p)
                   \/ ReleaseStep(p) \/ Destroy(p)
                   \/ Exit(p) \/ Signal(p) \/ Kill(p) \/ Start(p)
          PROVE  [Abstract!Next]_(Abstract!lockVars)
        <3>1. ~Signal(p) /\ ~Purge(p)
            BY DEF Remote, RemoteInv, Signal, Purge
        <3> QED BY <2>2, <3>1, AbstractTake, AbstractRelease
    <2> QED BY <2>1, <2>2 DEF Next
<1> QED BY <1>1, <1>2, RemoteInit, AbstractInit, PTL
        DEF Spec, ImplementsAbstractLock, Abstract!Spec

=============================================================================
