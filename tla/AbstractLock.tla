----------------------------- MODULE AbstractLock ----------------------------
(***************************************************************************)
(* What dotlock.c promises its callers, without files: a lock is reserved  *)
(* for one process, held by that process alone, and freed by it.  A holder *)
(* that dies leaves the lock reserved; nobody but a successor that goes by *)
(* the same name can then hold it.                                         *)
(***************************************************************************)
CONSTANTS Proc, NoProc

VARIABLES owner,    \* for whom the lock is reserved
          holders   \* the processes that believe they hold the lock

lockVars == <<owner, holders>>

Init == owner = NoProc /\ holders = {}

Reserve(p) == owner = NoProc /\ owner' = p /\ UNCHANGED holders
Hold(p) == owner = p /\ holders = {} /\ holders' = {p} /\ UNCHANGED owner
Free(p) == owner = p /\ owner' = NoProc /\ holders' = {}
Die(p) == holders = {p} /\ holders' = {} /\ UNCHANGED owner

Next == \E p \in Proc : Reserve(p) \/ Hold(p) \/ Free(p) \/ Die(p)

Spec == Init /\ [][Next]_lockVars

=============================================================================
