-------------------------- MODULE RuntimeLockProofs --------------------------
(***************************************************************************)
(* Any number of starters: at most one of them wins a fresh directory or   *)
(* the lock of one dead owner, and it keeps the file.                      *)
(***************************************************************************)
EXTENDS RuntimeLock, TLAPS

Recovering(p) == pc[p] \in {"reread", "rejudge", "replace", "leave", "leaveMine"}
Winner == lock \in Process

LoopsAreCounted ==
  \A p \in Process : pc[p] \in {"idle", "link", "read", "judge", "readRecovery", "judgeRecovery"}
                      => attempt[p] < MaxAttempts

(* The winner is alive and has the lock, or is on its way out of the recovery. *)
WinnerHolds ==
  \A p \in Process : pc[p] = "owner" \/ (pc[p] \in {"leave", "leaveMine"} /\ won[p]) <=> lock = p

WonByReplacing == \A p \in Process : won[p] => pc[p] \in {"leave", "leaveMine", "owner", "dead"}

NobodyShutsDown == \A p \in Process : pc[p] \notin {"release", "releaseMine"}

(* While there is no winner one process recovers, and the recovery file names it. *)
OneRecovers ==
  ~Winner => \A p \in Process : Recovering(p) => recovery = p /\ pc[p] \notin {"leave", "leaveMine"}

RecoveryIsNamed ==
  \A p \in Process : recovery = p => Recovering(p) /\ (pc[p] = "leaveMine" => seen[p] = p)

(* The lock file is missing only before the first link and while it is replaced. *)
LockIsMissing ==
  lock = Nobody =>
    /\ \A p \in Process : Recovering(p) => pc[p] = "replace"
    /\ recovery = Nobody => \A p \in Process : pc[p] \in {"idle", "link", "dead"}

(* Nobody removes the recovery file of a live process before there is a winner. *)
RecoveryIsSeen ==
  ~Winner => \A p \in Process :
    /\ pc[p] = "readRecovery"  => recovery # Nobody
    /\ pc[p] = "judgeRecovery" => seen[p] = recovery /\ recovery # Nobody

(* What a recovering process has read is still true when it acts on it. *)
OwnerIsSeen ==
  \A p \in Process : /\ pc[p] = "rejudge" => seen[p] = lock
                     /\ pc[p] = "replace" => lock # Gone

Core == /\ WinnerHolds /\ WonByReplacing /\ NobodyShutsDown /\ OneRecovers /\ RecoveryIsNamed
        /\ LockIsMissing /\ RecoveryIsSeen /\ OwnerIsSeen

IInv == TypeOK /\ LoopsAreCounted /\ (Undisturbed => Core)

-----------------------------------------------------------------------------
LEMMA InitInv == Init => IInv
BY TokensAreDistinct, BoundsAreNatural
   DEF Init, IInv, TypeOK, Label, LoopsAreCounted, MaxAttempts, Core, WinnerHolds, WonByReplacing, NobodyShutsDown, OneRecovers,
       RecoveryIsNamed, LockIsMissing, RecoveryIsSeen, OwnerIsSeen, Recovering, Winner

LEMMA TypesHold ==
  ASSUME IInv, [Next]_vars
  PROVE  TypeOK' /\ LoopsAreCounted'
<1> USE TokensAreDistinct, BoundsAreNatural
    DEF IInv, TypeOK, Label, LoopsAreCounted, MaxAttempts, At, Read, counters
<1>1. ASSUME NEW p \in Process, Start(p) PROVE TypeOK' /\ LoopsAreCounted'
  BY <1>1 DEF Start
<1>2. ASSUME NEW p \in Process, Acquire(p) PROVE TypeOK' /\ LoopsAreCounted'
  <2>1. CASE Link(p)
    BY <2>1 DEF Link
  <2>2. CASE ReadLock(p)
    BY <2>2 DEF ReadLock
  <2>3. CASE JudgeLock(p)
    BY <2>3 DEF JudgeLock
  <2>4. CASE ReadRecovery(p)
    BY <2>4 DEF ReadRecovery
  <2>5. CASE JudgeRecovery(p)
    BY <2>5 DEF JudgeRecovery
  <2>6. CASE Reread(p)
    BY <2>6 DEF Reread
  <2>7. CASE Rejudge(p)
    BY <2>7 DEF Rejudge
  <2>8. CASE Replace(p)
    BY <2>8 DEF Replace
  <2>9. CASE Leave(p)
    BY <2>9 DEF Leave
  <2>10. CASE LeaveMine(p)
    BY <2>10 DEF LeaveMine
  <2>11. CASE ReadOwn(p)
    BY <2>11 DEF ReadOwn
  <2>12. CASE RemoveOwn(p)
    BY <2>12 DEF RemoveOwn
  <2> QED BY <1>2, <2>1, <2>2, <2>3, <2>4, <2>5, <2>6, <2>7, <2>8, <2>9, <2>10, <2>11, <2>12 DEF Acquire
<1>3. ASSUME NEW p \in Process, Release(p) PROVE TypeOK' /\ LoopsAreCounted'
  BY <1>3 DEF Release
<1>4. ASSUME NEW p \in Process, Die(p) PROVE TypeOK' /\ LoopsAreCounted'
  BY <1>4 DEF Die
<1>5. CASE UNCHANGED vars
  BY <1>5 DEF vars
<1> QED BY <1>1, <1>2, <1>3, <1>4, <1>5 DEF Next

LEMMA CoreHolds ==
  ASSUME IInv, [Next]_vars, Undisturbed'
  PROVE  Core'
<1>1. Undisturbed /\ TypeOK /\ TypeOK' /\ Core
  <2>1. Undisturbed
    BY BoundsAreNatural DEF IInv, TypeOK, Undisturbed, vars, counters, Next, Start, Acquire, Link,
       ReadLock, JudgeLock, ReadRecovery, JudgeRecovery, Reread, Rejudge, Replace, Leave, LeaveMine,
       ReadOwn, RemoveOwn, Release, Die
  <2> QED BY <2>1, TypesHold DEF IInv
<1> USE <1>1, TokensAreDistinct
    DEF TypeOK, Core, WinnerHolds, WonByReplacing, NobodyShutsDown, OneRecovers, RecoveryIsNamed, LockIsMissing, RecoveryIsSeen,
        OwnerIsSeen, Recovering, Winner, At, Read, ProcessAlive, Label
<1>2. ASSUME NEW p \in Process, Start(p) PROVE Core'
  BY <1>2 DEF Start
<1>3. ASSUME NEW p \in Process, Acquire(p) PROVE Core'
  <2>1. CASE Link(p)
    BY <2>1 DEF Link
  <2>2. CASE ReadLock(p)
    BY <2>2 DEF ReadLock
  <2>3. CASE JudgeLock(p)
    BY <2>3 DEF JudgeLock
  <2>4. CASE ReadRecovery(p)
    BY <2>4 DEF ReadRecovery
  <2>5. CASE JudgeRecovery(p)
    BY <2>5 DEF JudgeRecovery
  <2>6. CASE Reread(p)
    BY <2>6 DEF Reread
  <2>7. CASE Rejudge(p)
    <3>0. WonByReplacing'
      BY <2>7 DEF Rejudge
    <3>a. Winner => ProcessAlive(seen[p])
      BY <2>7 DEF Rejudge
    <3>b. ~Winner => \A q \in Process : Recovering(q) => q = p
      BY <2>7 DEF Rejudge
    <3>1. WinnerHolds'
      BY <2>7, <3>a, <3>b DEF Rejudge
    <3>2. NobodyShutsDown'
      BY <2>7 DEF Rejudge
    <3>3. OneRecovers'
      BY <2>7, <3>a, <3>b DEF Rejudge
    <3>4. RecoveryIsNamed'
      BY <2>7 DEF Rejudge
    <3>5. LockIsMissing'
      BY <2>7 DEF Rejudge
    <3>6. RecoveryIsSeen'
      BY <2>7 DEF Rejudge
    <3>7. OwnerIsSeen'
      BY <2>7 DEF Rejudge
    <3> QED BY <3>0, <3>1, <3>2, <3>3, <3>4, <3>5, <3>6, <3>7
  <2>8. CASE Replace(p)
    <3>0. WonByReplacing'
      BY <2>8 DEF Replace
    <3>a. ~Winner => \A q \in Process : Recovering(q) => q = p
      BY <2>8 DEF Replace
    <3>1. WinnerHolds'
      <4>1. CASE lock = Nobody
        <5>1. lock' = p /\ won' = [won EXCEPT ![p] = TRUE] /\ pc' = [pc EXCEPT ![p] = "leave"]
          BY <2>8, <4>1 DEF Replace
        <5>2. \A q \in Process : pc[q] # "owner" /\ ~(pc[q] \in {"leave", "leaveMine"} /\ won[q])
          BY <4>1
        <5> QED BY <5>1, <5>2
      <4>2. CASE lock # Nobody
        <5>1. lock' = lock /\ won' = [won EXCEPT ![p] = FALSE] /\ pc' = [pc EXCEPT ![p] = "leave"]
          BY <2>8, <4>2 DEF Replace
        <5>2. lock # p
          BY <2>8 DEF Replace
        <5> QED BY <5>1, <5>2
      <4> QED BY <4>1, <4>2
    <3>2. NobodyShutsDown'
      BY <2>8 DEF Replace
    <3>3. OneRecovers'
      BY <2>8, <3>a DEF Replace
    <3>4. RecoveryIsNamed'
      BY <2>8 DEF Replace
    <3>5. LockIsMissing'
      BY <2>8 DEF Replace
    <3>6. RecoveryIsSeen'
      BY <2>8 DEF Replace
    <3>7. OwnerIsSeen'
      BY <2>8 DEF Replace
    <3> QED BY <3>0, <3>1, <3>2, <3>3, <3>4, <3>5, <3>6, <3>7
  <2>9. CASE Leave(p)
    BY <2>9 DEF Leave
  <2>10. CASE LeaveMine(p)
    BY <2>10 DEF LeaveMine
  <2>11. CASE ReadOwn(p)
    BY <2>11 DEF ReadOwn
  <2>12. CASE RemoveOwn(p)
    BY <2>12 DEF RemoveOwn
  <2> QED BY <1>3, <2>1, <2>2, <2>3, <2>4, <2>5, <2>6, <2>7, <2>8, <2>9, <2>10, <2>11, <2>12 DEF Acquire
<1>4. ASSUME NEW p \in Process, Release(p) PROVE Core'
  BY <1>4 DEF Release, Undisturbed
<1>5. ASSUME NEW p \in Process, Die(p) PROVE Core'
  BY <1>5 DEF Die, Undisturbed
<1>6. CASE UNCHANGED vars
  BY <1>6 DEF vars
<1> QED BY <1>2, <1>3, <1>4, <1>5, <1>6 DEF Next

-----------------------------------------------------------------------------
LEMMA StepInv == IInv /\ [Next]_vars => IInv'
BY TypesHold, CoreHolds DEF IInv

LEMMA InvHolds == Spec => []IInv
BY InitInv, StepInv, PTL DEF Spec

(* Every step keeps the files and the processes' memory of them well-formed. *)
THEOREM TypeCorrect == Spec => []TypeOK
<1>1. IInv => TypeOK
  BY DEF IInv
<1> QED BY <1>1, InvHolds, PTL

(* However many starters race for a fresh directory, or for the lock of one dead *)
(* owner, and whichever of the losers die: acquireRuntimeLock returns in one.    *)
THEOREM OneStarterWins == Spec => []ExclusiveAmongStarters
<1>1. IInv => ExclusiveAmongStarters
  BY DEF IInv, Core, WinnerHolds, NobodyShutsDown, ExclusiveAmongStarters, ExclusiveOwnership, Owns
<1> QED BY <1>1, InvHolds, PTL

(* No step of any loser takes the lock file away from the winner. *)
THEOREM WinnerKeepsTheLock == Spec => []OwnerIsRecorded
<1>1. IInv => OwnerIsRecorded
  BY DEF IInv, Core, WinnerHolds, OwnerIsRecorded
<1> QED BY <1>1, InvHolds, PTL
=============================================================================
