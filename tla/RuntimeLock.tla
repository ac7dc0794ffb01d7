----------------------------- MODULE RuntimeLock -----------------------------
(***************************************************************************)
(* acquireRuntimeLock: how a starting daemon, or Telegram adapter, becomes *)
(* the only owner of a state directory.  A lock file names its owner; a    *)
(* starter that finds a dead owner takes a second file, runtime.lock.recovery, *)
(* before it replaces the first.  link(2) is atomic and fails when the     *)
(* name exists; every other step of another process may come in between.   *)
(***************************************************************************)
EXTENDS Naturals, FiniteSets

CONSTANTS
  Process,      \* processes that start on the directory, each one once
  Nobody,       \* no file, or a file nobody can read
  Gone,         \* the token of an owner that died before the first start
  MaxReleases,  \* bound: owners that shut down
  MaxLost,      \* bound: owners that die
  MaxAbandoned  \* bound: processes that die with the recovery file in place

ASSUME TokensAreDistinct == Nobody \notin Process /\ Gone \notin Process /\ Nobody # Gone
ASSUME BoundsAreNatural == {MaxReleases, MaxLost, MaxAbandoned} \subseteq Nat

MaxAttempts == 4

VARIABLES
  lock,       \* the token in runtime.lock
  recovery,   \* the token in runtime.lock.recovery
  pc,         \* the system call a process is about to make
  seen,       \* the token a process has read and not judged yet
  won,        \* whether a process that leaves the recovery has the lock
  attempt,    \* passes of the loop a process has behind it
  releases, lost, abandoned

counters == <<releases, lost, abandoned>>
vars == <<lock, recovery, pc, seen, won, attempt, counters>>

Label == {"idle", "link", "read", "judge", "readRecovery", "judgeRecovery", "reread",
          "rejudge", "replace", "leave", "leaveMine", "owner", "release", "releaseMine",
          "refused", "dead"}

Init ==
  /\ lock \in {Nobody, Gone}
  /\ recovery = Nobody
  /\ pc = [p \in Process |-> "idle"]
  /\ seen = [p \in Process |-> Nobody]
  /\ won = [p \in Process |-> FALSE]
  /\ attempt = [p \in Process |-> 0]
  /\ releases = 0 /\ lost = 0 /\ abandoned = 0

-----------------------------------------------------------------------------
(* processAlive: the pid in a file is asked with signal 0. *)
ProcessAlive(token) == token \in Process /\ pc[token] \notin {"idle", "dead"}

At(p, from, to) == pc[p] = from /\ pc' = [pc EXCEPT ![p] = to]
Read(p, file) == seen' = [seen EXCEPT ![p] = file]

Start(p) ==
  /\ At(p, "idle", "link")
  /\ UNCHANGED <<lock, recovery, seen, won, attempt, counters>>

(* The fast path: nobody has the lock. *)
Link(p) ==
  /\ IF lock = Nobody
     THEN At(p, "link", "owner") /\ lock' = p
     ELSE At(p, "link", "read") /\ UNCHANGED lock
  /\ UNCHANGED <<recovery, seen, won, attempt, counters>>

ReadLock(p) ==
  /\ At(p, "read", "judge")
  /\ Read(p, lock)
  /\ UNCHANGED <<lock, recovery, won, attempt, counters>>

(* Mutant: the recovery file keeps nobody out. *)
RecoverWithoutExclusion(p) ==
  /\ IF ProcessAlive(seen[p]) THEN At(p, "judge", "refused") /\ UNCHANGED recovery
     ELSE At(p, "judge", "reread") /\ recovery' = p
  /\ UNCHANGED <<lock, seen, won, attempt, counters>>

(* A dead owner: the recovery file lets one starter at a time replace it. *)
JudgeLock(p) ==
  /\ IF ProcessAlive(seen[p]) THEN At(p, "judge", "refused") /\ UNCHANGED recovery
     ELSE IF recovery = Nobody THEN At(p, "judge", "reread") /\ recovery' = p
     ELSE At(p, "judge", "readRecovery") /\ UNCHANGED recovery
  /\ UNCHANGED <<lock, seen, won, attempt, counters>>

ReadRecovery(p) ==
  /\ At(p, "readRecovery", "judgeRecovery")
  /\ Read(p, recovery)
  /\ UNCHANGED <<lock, recovery, won, attempt, counters>>

(* Mutant: the recovery file of a dead starter stays where it is. *)
RetryWithoutRemoving(p) ==
  /\ IF ProcessAlive(seen[p]) THEN At(p, "judgeRecovery", "refused") /\ UNCHANGED attempt
     ELSE /\ attempt' = [attempt EXCEPT ![p] = @ + 1]
          /\ At(p, "judgeRecovery", IF attempt[p] + 1 < MaxAttempts THEN "link" ELSE "refused")
  /\ UNCHANGED <<lock, recovery, seen, won, counters>>

(* The recovery file of a dead starter is removed, whoever has it by now. *)
JudgeRecovery(p) ==
  /\ IF ProcessAlive(seen[p])
     THEN At(p, "judgeRecovery", "refused") /\ UNCHANGED <<recovery, attempt>>
     ELSE /\ recovery' = Nobody
          /\ attempt' = [attempt EXCEPT ![p] = @ + 1]
          /\ At(p, "judgeRecovery", IF attempt[p] + 1 < MaxAttempts THEN "link" ELSE "refused")
  /\ UNCHANGED <<lock, seen, won, counters>>

-----------------------------------------------------------------------------
(* Under the recovery file the owner is read once more, then replaced. *)

Reread(p) ==
  /\ At(p, "reread", "rejudge")
  /\ Read(p, lock)
  /\ UNCHANGED <<lock, recovery, won, attempt, counters>>

(* Mutant: the owner that was dead before the recovery file was taken is *)
(* replaced, whoever the owner is now.                                   *)
ReplaceWithoutRereading(p) ==
  /\ At(p, "rejudge", "replace")
  /\ lock' = Nobody
  /\ UNCHANGED <<recovery, seen, won, attempt, counters>>

Rejudge(p) ==
  /\ IF ProcessAlive(seen[p]) THEN At(p, "rejudge", "leave") /\ UNCHANGED lock
     ELSE At(p, "rejudge", "replace") /\ lock' = Nobody
  /\ UNCHANGED <<recovery, seen, won, attempt, counters>>

(* A starter on the fast path may have linked its own file in between. *)
Replace(p) ==
  /\ At(p, "replace", "leave")
  /\ won' = [won EXCEPT ![p] = lock = Nobody]
  /\ lock' = IF lock = Nobody THEN p ELSE lock
  /\ UNCHANGED <<recovery, seen, attempt, counters>>

(* The finally block: the recovery file is read, then removed if it is its own. *)
Leave(p) ==
  /\ At(p, "leave", "leaveMine")
  /\ Read(p, recovery)
  /\ UNCHANGED <<lock, recovery, won, attempt, counters>>

LeaveMine(p) ==
  /\ At(p, "leaveMine", IF won[p] THEN "owner" ELSE "refused")
  /\ recovery' = IF seen[p] = p THEN Nobody ELSE recovery
  /\ UNCHANGED <<lock, seen, won, attempt, counters>>

-----------------------------------------------------------------------------
(* release: the lock file is read, then removed if it is its own. *)

Release(p) ==
  /\ releases < MaxReleases
  /\ At(p, "owner", "release")
  /\ releases' = releases + 1
  /\ UNCHANGED <<lock, recovery, seen, won, attempt, lost, abandoned>>

ReadOwn(p) ==
  /\ At(p, "release", "releaseMine")
  /\ Read(p, lock)
  /\ UNCHANGED <<lock, recovery, won, attempt, counters>>

RemoveOwn(p) ==
  /\ At(p, "releaseMine", "dead")
  /\ lock' = IF seen[p] = p THEN Nobody ELSE lock
  /\ UNCHANGED <<recovery, seen, won, attempt, counters>>

(* A process dies at any point; one that was refused ends by itself. *)
Die(p) ==
  /\ pc[p] \notin {"idle", "dead"}
  /\ recovery = p => abandoned < MaxAbandoned
  /\ lock = p => lost < MaxLost
  /\ abandoned' = IF recovery = p THEN abandoned + 1 ELSE abandoned
  /\ lost' = IF lock = p THEN lost + 1 ELSE lost
  /\ pc' = [pc EXCEPT ![p] = "dead"]
  /\ UNCHANGED <<lock, recovery, seen, won, attempt, releases>>

(* What a process does once it has started, except to shut down and to die. *)
Acquire(p) ==
  \/ Link(p) \/ ReadLock(p) \/ JudgeLock(p) \/ ReadRecovery(p) \/ JudgeRecovery(p)
  \/ Reread(p) \/ Rejudge(p) \/ Replace(p) \/ Leave(p) \/ LeaveMine(p)
  \/ ReadOwn(p) \/ RemoveOwn(p)

Next == \E p \in Process : Start(p) \/ Acquire(p) \/ Release(p) \/ Die(p)

Spec == Init /\ [][Next]_vars

(* The system runs every process that is alive. *)
FairSpec == Spec /\ \A p \in Process : WF_vars(Acquire(p))

-----------------------------------------------------------------------------
TypeOK ==
  /\ lock \in Process \cup {Nobody, Gone}
  /\ recovery \in Process \cup {Nobody}
  /\ pc \in [Process -> Label]
  /\ seen \in [Process -> Process \cup {Nobody, Gone}]
  /\ won \in [Process -> BOOLEAN]
  /\ attempt \in [Process -> 0..MaxAttempts]
  /\ releases \in 0..MaxReleases
  /\ lost \in 0..MaxLost
  /\ abandoned \in 0..MaxAbandoned

(* "One daemon exclusively owns each state directory": acquireRuntimeLock has *)
(* returned in at most one process that is still alive.                       *)
Owns(p) == pc[p] \in {"owner", "release", "releaseMine"}
ExclusiveOwnership == \A p, q \in Process : Owns(p) /\ Owns(q) => p = q

(* Starters that race for a fresh directory, or for the lock of one dead owner, *)
(* have at most one winner, also when losers die: as long as no new owner has   *)
(* shut down or died, and no starter has died holding the recovery file.        *)
Undisturbed == releases = 0 /\ lost = 0 /\ abandoned = 0
ExclusiveAmongStarters == Undisturbed => ExclusiveOwnership

(* The winner keeps the lock file it was given, so that a later starter sees it. *)
OwnerIsRecorded == Undisturbed => \A p \in Process : pc[p] = "owner" => lock = p

(* A starter that is alone is served, whatever the dead have left behind: a    *)
(* stale lock and a stale recovery file cost it at most one more attempt.      *)
Alone(p) == \A q \in Process \ {p} : pc[q] \in {"idle", "dead"}
LoneStarterIsServed ==
  \A p \in Process : pc[p] = "link" /\ attempt[p] = 0 /\ Alone(p)
                      ~> pc[p] \in {"owner", "dead"} \/ ~Alone(p)
=============================================================================
