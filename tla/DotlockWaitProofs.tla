-------------------------- MODULE DotlockWaitProofs --------------------------
(* How long dotlock_take_unix waits, for every timeout and any owners.     *)
EXTENDS DotlockWait, TLAPS

LEMMA IntervalType ==
  ASSUME NEW w \in Nat, NEW c \in BOOLEAN
  PROVE  NextInterval(w, c) \in Nat
BY DEF NextInterval

LEMMA WInit == Init => WInv
<1> SUFFICES ASSUME Init PROVE WInv
    OBVIOUS
<1>1. timeout \in Int /\ (asked >= 0 \/ asked = -1)
    BY TimeoutsAssumption DEF Init
<1>2. TypeOK
    BY <1>1 DEF Init, TypeOK
<1>3. Accounting /\ status # "gaveup"
    BY <1>1 DEF Init, Accounting
<1> QED BY <1>2, <1>3 DEF WInv

LEMMA WNext == WInv /\ [Next]_vars => WInv'
<1> SUFFICES ASSUME WInv, [Next]_vars PROVE WInv'
    OBVIOUS
<1> USE DEF WInv, TypeOK, Accounting
<1>0. \A t \in Timeouts : t \in Int
    BY TimeoutsAssumption
<1>1. ASSUME NEW pid \in Pid, Wait(pid) PROVE WInv'
    <2> DEFINE w == NextInterval(wtime, pid # First(pid))
    <2>1. First(pid) \in Pid \cup {-1} /\ w \in Nat
        BY IntervalType DEF First
    <2>2. CASE timeout > 0
        <3>1. wtime' \in Nat /\ wtime' <= timeout
            BY <1>1, <2>1, <2>2 DEF Wait, Shorter
        <3>2. timeout' = timeout - wtime' /\ waited' = waited + wtime'
            BY <1>1, <2>2 DEF Wait
        <3> QED BY <1>0, <1>1, <2>1, <2>2, <3>1, <3>2 DEF Wait
    <2>3. CASE ~(timeout > 0)
        BY <1>0, <1>1, <2>1, <2>3 DEF Wait
    <2> QED BY <2>2, <2>3
<1>2. ASSUME NEW pid \in Pid, GiveUp(pid) PROVE WInv'
    BY <1>0, <1>2 DEF GiveUp, First
<1>3. CASE Get
    BY <1>3 DEF Get
<1>4. CASE UNCHANGED vars
    BY <1>4 DEF vars
<1> QED BY <1>1, <1>2, <1>3, <1>4 DEF Next

(* Whatever the timeout and whoever holds the lock in between, a caller    *)
(* that gives up has slept for exactly the time it asked for.              *)
THEOREM GivesUpInTime == Spec => []ExactTimeout
<1>1. WInv => ExactTimeout
    BY TimeoutsAssumption DEF WInv, TypeOK, Accounting, ExactTimeout
<1> QED BY <1>1, WInit, WNext, PTL DEF Spec

-----------------------------------------------------------------------------
(* The interval a caller with time left has come to is one of those of the *)
(* comment in the code; the last one may have been cut to what was left.   *)
Intervals == {0, 50, 100, 200, 400, 800, 2000, 4000, 8000}
Paced ==
  /\ wtime <= 8000
  /\ timeout # 0 => wtime \in Intervals
  /\ status = "waiting" /\ prev # lastpid => wtime <= 50

LEMMA IntervalSteps ==
  ASSUME NEW w \in Intervals, NEW c \in BOOLEAN
  PROVE  /\ NextInterval(w, c) \in Intervals
         /\ NextInterval(w, c) \in Nat /\ NextInterval(w, c) <= 8000
         /\ c => NextInterval(w, c) = 50
BY DEF NextInterval, Intervals

LEMMA PacedInit == Init => Paced
BY DEF Init, Paced, Intervals

LEMMA PacedNext == WInv /\ Paced /\ [Next]_vars => Paced'
<1> SUFFICES ASSUME WInv, Paced, [Next]_vars PROVE Paced'
    OBVIOUS
<1>0. timeout \in Int /\ wtime \in Nat
    BY DEF WInv, TypeOK
<1>1. ASSUME NEW pid \in Pid, Wait(pid) PROVE Paced'
    <2> DEFINE c == pid # First(pid)
               w == NextInterval(wtime, c)
    <2>1. wtime \in Intervals /\ c \in BOOLEAN
        BY <1>1 DEF Wait, Paced
    <2>2. w \in Intervals /\ w \in Nat /\ w <= 8000 /\ (c => w = 50)
        <3> HIDE DEF c
        <3> QED BY <2>1, IntervalSteps
    <2>3. c <=> prev' # lastpid'
        BY <1>1 DEF Wait
    <2>4. (timeout > 0) =>
            wtime' = Shorter(w, timeout) /\ timeout' = timeout - wtime'
        BY <1>1 DEF Wait
    <2>5. ~(timeout > 0) => wtime' = w /\ timeout' = timeout
        BY <1>1 DEF Wait
    <2> HIDE DEF w, c
    \* Either the whole interval is slept, or what is left of the timeout.
    <2>6. wtime' = w \/ (wtime' = timeout /\ timeout < w /\ timeout' = 0)
        BY <1>0, <2>2, <2>4, <2>5 DEF Shorter
    <2> QED BY <1>0, <2>2, <2>3, <2>6 DEF Paced
<1>2. ASSUME NEW pid \in Pid, GiveUp(pid) PROVE Paced'
    BY <1>2 DEF GiveUp, Paced
<1>3. CASE Get
    BY <1>3 DEF Get, Paced
<1>4. CASE UNCHANGED vars
    BY <1>4 DEF vars, Paced
<1> QED BY <1>1, <1>2, <1>3, <1>4 DEF Next

(* Whatever the timeout and whoever holds the lock in between, the sleep    *)
(* after a look that found an owner other than the first is 50 ms at most,  *)
(* and no sleep is longer than 8 s.                                         *)
THEOREM LooksSoon == Spec => []SoonForNewOwner
<1>1. Paced => SoonForNewOwner
    BY DEF Paced, SoonForNewOwner
<1> QED BY <1>1, WInit, WNext, PacedInit, PacedNext, PTL DEF Spec

=============================================================================
