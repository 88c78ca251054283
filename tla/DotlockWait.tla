----------------------------- MODULE DotlockWait -----------------------------
(***************************************************************************)
(* The retry loop of dotlock_take_unix: how long one caller waits between  *)
(* two looks at the lock file, and when it gives up.  The lock file is the *)
(* environment here: at each look it is gone or names some living owner.   *)
(***************************************************************************)
EXTENDS Integers

CONSTANTS Pid,       \* the owners a waiter may read
          Timeouts,  \* the values callers pass: milliseconds, -1 for ever
          MaxLooks   \* the looks of one call that are explored (bound)

ASSUME PidAssumption == Pid \subseteq Nat \ {0}
ASSUME TimeoutsAssumption == Timeouts \subseteq Nat \cup {-1}
ASSUME MaxLooksAssumption == MaxLooks \in Nat

VARIABLES status,   \* "waiting", "taken" or "gaveup"
          asked,    \* the timeout the caller passed
          timeout,  \* what the loop has left of it
          wtime,    \* the interval of the last select
          lastpid,  \* the owner at the first look, -1 before
          prev,     \* the owner at the last look, -1 before
          waited,   \* history: the milliseconds slept, when they are limited
          looks     \* history: the number of looks

vars == <<status, asked, timeout, wtime, lastpid, prev, waited, looks>>

Init ==
  /\ status = "waiting"
  /\ asked \in Timeouts /\ timeout = asked
  /\ wtime = 0 /\ lastpid = -1 /\ prev = -1 /\ waited = 0 /\ looks = 0

NextInterval_NoReset(w, changed) ==
  IF w = 0        THEN 50
  ELSE IF w = 800 THEN 2000
  ELSE IF w < 8000 THEN 2 * w
  ELSE w

(* 50ms, 100ms, 200ms, 400ms, 800ms, 2s, 4s and 8s.                        *)
NextInterval(w, changed) ==
  IF w = 0 \/ changed THEN 50
  ELSE IF w = 800     THEN 2000
  ELSE IF w < 8000    THEN 2 * w
  ELSE w

Shorter(a, b) == IF a < b THEN a ELSE b

First(pid) == IF lastpid = -1 THEN pid ELSE lastpid

Wait_NotCharged(pid) ==
  /\ status = "waiting" /\ timeout # 0
  /\ looks < MaxLooks
  /\ lastpid' = First(pid)
  /\ wtime' = NextInterval(wtime, pid # First(pid))
  /\ prev' = pid
  /\ looks' = looks + 1
  /\ UNCHANGED <<status, asked, timeout, waited>>

(* A look at the lock file of somebody else, and the sleep after it.       *)
Wait(pid) ==
  /\ status = "waiting" /\ timeout # 0
  /\ looks < MaxLooks
  /\ lastpid' = First(pid)
  /\ LET w == NextInterval(wtime, pid # First(pid))
     IN  IF timeout > 0
           THEN /\ wtime' = Shorter(w, timeout)
                /\ timeout' = timeout - wtime'
                /\ waited' = waited + wtime'
           ELSE wtime' = w /\ UNCHANGED <<timeout, waited>>
  /\ prev' = pid
  /\ looks' = looks + 1
  /\ UNCHANGED <<status, asked>>

GiveUp_NoForever(pid) ==
  /\ status = "waiting" /\ timeout <= 0
  /\ status' = "gaveup"
  /\ lastpid' = First(pid)
  /\ prev' = pid
  /\ UNCHANGED <<asked, timeout, wtime, waited, looks>>

(* errno = EACCES: the lock file is there and no time is left.             *)
GiveUp(pid) ==
  /\ status = "waiting" /\ timeout = 0
  /\ status' = "gaveup"
  /\ lastpid' = First(pid)
  /\ prev' = pid
  /\ UNCHANGED <<asked, timeout, wtime, waited, looks>>

(* The lock file was free, or stale and removed.                           *)
Get ==
  /\ status = "waiting"
  /\ status' = "taken"
  /\ UNCHANGED <<asked, timeout, wtime, lastpid, prev, waited, looks>>

Next == Get \/ \E pid \in Pid : Wait(pid) \/ GiveUp(pid)

Spec == Init /\ [][Next]_vars

(* The lock file stays taken, whoever holds it: the caller never gets it.  *)
Fairness == WF_vars(\E pid \in Pid : Wait(pid) \/ GiveUp(pid))
FairSpec == Spec /\ Fairness

-----------------------------------------------------------------------------
TypeOK ==
  /\ status \in {"waiting", "taken", "gaveup"}
  /\ asked \in Timeouts
  /\ timeout \in Nat \cup {-1} /\ wtime \in Nat /\ waited \in Nat /\ looks \in Nat
  /\ lastpid \in Pid \cup {-1} /\ prev \in Pid \cup {-1}

(* What has been slept and what is left add up to what the caller passed.   *)
Accounting ==
  IF asked >= 0 THEN timeout >= 0 /\ waited + timeout = asked
                ELSE timeout = -1
WInv == TypeOK /\ Accounting /\ (status = "gaveup" => timeout = 0)

(* A caller that passes a timeout sleeps for exactly that long before it   *)
(* gives up, however often the owner changes, and never longer; a caller   *)
(* that passes -1 never gives up.                                          *)
ExactTimeout ==
  /\ asked >= 0 => waited <= asked
  /\ status = "gaveup" => asked >= 0 /\ waited = asked

(* A new owner is looked at again soon: the sleep after a look that found  *)
(* an owner other than the first one is 50 ms at most, and none is longer  *)
(* than 8 s.                                                               *)
SoonForNewOwner ==
  /\ wtime <= 8000
  /\ (prev # lastpid /\ status = "waiting") => wtime <= 50

(* A limited wait comes to an end.                                         *)
Ends == asked > 0 /\ asked < 1000 ~> status # "waiting"

=============================================================================
