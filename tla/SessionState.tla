---------------------------- MODULE SessionState ----------------------------
(***************************************************************************)
(* The state of one session key of the daemon's SessionManager, and the    *)
(* operators every handler is written with.                                *)
(*                                                                         *)
(* A fiber is one asynchronous call into the manager: a submitted turn, an *)
(* interrupt, a locked control call (create, restart, release, close) or a *)
(* status lookup.  Node runs one fiber at a time and switches only at an   *)
(* await, so an action is the code between two awaits and pc names the     *)
(* await a fiber is suspended on.  Each fiber is used once.                *)
(***************************************************************************)
EXTENDS Naturals, Sequences, FiniteSets

CONSTANTS
  Turn,             \* calls of submit, and the submissions they create
  Interrupt,        \* calls of interrupt
  Control,          \* calls of create, restart, release and close
  Lookup,           \* calls of get
  MaxIncarnation,   \* bound: session objects created under the key
  MayAttach,        \* bound: incarnations whose pane a human may attach to
  MaxFaults,        \* bound: losses of the daemon process and failed file operations
  MaxHistoryFaults, \* bound: finishTurn calls that fail
  None              \* no turn, no record

Fiber == Turn \cup Interrupt \cup Control \cup Lookup
Incarnation == 1..MaxIncarnation

ASSUME FibersAreDistinct ==
  /\ Turn \cap (Interrupt \cup Control \cup Lookup) = {}
  /\ Interrupt \cap (Control \cup Lookup) = {}
  /\ Control \cap Lookup = {}
  /\ None \notin Fiber
ASSUME BoundsAreNaturals ==
  /\ MaxIncarnation \in Nat \ {0}
  /\ {MaxFaults, MaxHistoryFaults} \subseteq Nat

VARIABLES
  (* memory of the daemon *)
  up,          \* the phase of the process: serving, down, or a step of init
  cur,         \* the incarnation the sessions map holds for the key
  session,     \* the session object of every incarnation: status, activeSubmissionId
  active,      \* the entry of the active map for the key
  record,      \* submission.status in memory
  interrupted, \* activeRuntime.interrupted, and its aborted signal
  chain,       \* the mutation chain of the key: the holder, then the waiters
  (* suspended fibers *)
  pc,          \* the await a fiber is suspended on
  holds,       \* the incarnation whose session object a fiber has in hand
  plan,        \* how a turn is about to be finalized, and the session after it
  op,          \* what a control call does, and the status restart can restore
  target,      \* the turn an interrupt was called for
  image,       \* session.json as a fiber's pending write will leave it
  (* disk *)
  diskSession, \* session.json
  diskRecord,  \* submissions/<id>.json: its status
  history,     \* the workspace history's record of a turn
  (* tmux *)
  pane,        \* the pane of an incarnation
  attached,    \* incarnations whose pane a human is attached to
  driving,     \* the prompt the agent in a pane is working on
  (* bookkeeping *)
  escaped,     \* turns whose interrupt call has sent its Escape
  handed,      \* turns whose prompt an agent has had
  displaced,   \* turns whose entry of the active map another turn has deleted
  overtaken,   \* turns reserved while a write that names another was under way
  crashes, writeFaults, historyFaults

memoryVars == <<up, cur, session, active, record, interrupted, chain>>
fiberVars  == <<pc, holds, plan, op, target, image>>
diskVars   == <<diskSession, diskRecord, history>>
tmuxVars   == <<pane, attached, driving>>
faultVars  == <<crashes, writeFaults, historyFaults>>
marks      == <<escaped, handed, displaced, overtaken>>
vars == <<memoryVars, fiberVars, diskVars, tmuxVars, marks, faultVars>>

BusyStatus == {"preparing", "submitting", "running", "interrupting"}
IdleStatus == {"starting", "ready", "stopped", "auth_required",
               "attention_required", "failed", "closed"}
Terminal   == {"completed", "failed", "interrupted"}
Unfinished == {"accepted", "running"}
Recorded   == Terminal \cup Unfinished

ASSUME NoneIsNoRecord == None \notin Recorded

SessionObject == [status: BusyStatus \cup IdleStatus, active: Turn \cup {None}]
SessionFile   == [status: BusyStatus \cup IdleStatus, active: Turn \cup {None},
                  inc: Incarnation]
Plan == [fate: Recorded, next: {"ready", "auth_required", "attention_required"}]

-----------------------------------------------------------------------------
(* sessionState and assertSessionInvariant *)

Busy(i) == active # None \/ session[i].status \in BusyStatus

Consistent(object, entry) ==
  /\ (entry # None) = (object.status \in BusyStatus)
  /\ (object.status \in BusyStatus) = (object.active # None)
  /\ entry # None => object.active = entry

-----------------------------------------------------------------------------
(* Awaits of an operation under withSessionMutation; on "queued" it waits for *)
(* its turn.                                                                  *)
LockedAwait ==
  {"queued", "probing", "refusing", "accepting", "accepted", "admitThrew",
   "rejecting", "rejected", "checking", "ctlStarting", "launching",
   "respawning", "booting", "launched", "restoring", "restored", "closeIntr",
   "closeQuiet", "closeKey", "closePoll", "closeWait", "rechecking", "killing",
   "killed", "closeTurn", "closeRec",
   "ctlWriting"}

HoldsChain(f) == chain # <<>> /\ Head(chain) = f

(* withSessionMutation: wait for every earlier call of the same key. *)
JoinChain(f) ==
  /\ pc[f] = "idle"
  /\ up = "serving"
  /\ pc' = [pc EXCEPT ![f] = "queued"]
  /\ chain' = Append(chain, f)

(* Mutant: an operation that throws does not release the chain. *)
GotoWithoutRelease(f, l) ==
  /\ pc' = [pc EXCEPT ![f] = l]
  /\ chain' = IF HoldsChain(f) /\ l \notin LockedAwait \cup {"done"}
              THEN Tail(chain) ELSE chain

(* Suspend f on await l; leaving the locked part hands the chain on. *)
Goto(f, l) ==
  /\ pc' = [pc EXCEPT ![f] = l]
  /\ chain' = IF HoldsChain(f) /\ l \notin LockedAwait THEN Tail(chain) ELSE chain

SetSession(i, status, entry) ==
  session' = [session EXCEPT ![i] = [status |-> status, active |-> entry]]

(* persistSession throws before it writes when the lifecycle is inconsistent *)
(* at the call; it reads the object again when it serializes it.             *)
NoImage == [status |-> "none", active |-> None, inc |-> 1]
Called  == [status |-> "called", active |-> None, inc |-> 1]

PersistSession(f, written, thrown) ==
  IF Consistent(session'[holds'[f]], active')
  THEN Goto(f, written) /\ image' = [image EXCEPT ![f] = Called]
  ELSE Goto(f, thrown)  /\ UNCHANGED image

(* writeAtomic renames a temporary file: concurrent writes of session.json *)
(* land in any order.                                                      *)
Serialize(f) ==
  /\ image[f] = Called
  /\ image' = [image EXCEPT ![f] = [status |-> session[holds[f]].status,
                                    active |-> session[holds[f]].active,
                                    inc    |-> holds[f]]]
  /\ UNCHANGED <<memoryVars, pc, holds, plan, op, target, diskVars, tmuxVars,
                 marks, faultVars>>

(* The await that follows a written session.json, and the one that follows a *)
(* failed write.                                                             *)
AfterWrite ==
  [refusing |-> "done", accepted |-> "staging", rejected |-> "done",
   submitted |-> "exec", unstagedSess |-> "done", bound |-> "watching",
   released |-> "finally", failedSess |-> "finally", netSess |-> "done",
   intWriting |-> "intKey", intQuiet |-> "done", getWriting |-> "done",
   ctlStarting |-> "launching", launched |-> "done", restored |-> "done",
   closeIntr |-> "closeKey", closeQuiet |-> "closePoll", ctlWriting |-> "done"]

AfterFault ==
  [AfterWrite EXCEPT !.accepted = "admitThrew", !.submitted = "submitThrew",
     !.bound = "caught", !.released = "caught", !.intWriting = "done",
     !.ctlStarting = "done", !.launched = "restoring", !.closeIntr = "done",
     !.closeQuiet = "done"]

SessionWritten(f) ==
  /\ image[f] \notin {NoImage, Called}
  /\ diskSession' = image[f]
  /\ image' = [image EXCEPT ![f] = NoImage]
  /\ Goto(f, AfterWrite[pc[f]])
  /\ UNCHANGED <<up, cur, session, active, record, interrupted, holds, plan, op,
                 target, diskRecord, history, tmuxVars, marks, faultVars>>

Fault == crashes + writeFaults < MaxFaults /\ writeFaults' = writeFaults + 1

SessionWriteFails(f) ==
  /\ image[f] # NoImage
  /\ Fault
  /\ image' = [image EXCEPT ![f] = NoImage]
  /\ Goto(f, AfterFault[pc[f]])
  /\ UNCHANGED <<up, cur, session, active, record, interrupted, holds, plan, op,
                 target, diskVars, tmuxVars, marks, crashes, historyFaults>>

(* finishTurn under the workspace lock: the first record of a turn stays, and *)
(* a later call is told what it says.  A failure is swallowed, wherever it     *)
(* struck: also the directories of a recorded turn may refuse to go.           *)
FirstRecord(s, fate) == [history EXCEPT ![s] = IF @ = None THEN fate ELSE @]

FinishTurn(s, fate) ==
  \/ /\ history' = FirstRecord(s, fate)
     /\ UNCHANGED historyFaults
  \/ /\ historyFaults < MaxHistoryFaults
     /\ historyFaults' = historyFaults + 1
     /\ history' \in {history, FirstRecord(s, fate)}

(* Mutants: the caller does not ask what the history already says, or does *)
(* not notice that finishTurn failed.                                      *)
FinishedAsAsked(s, fate) == fate
FinishedAsRecorded(s, fate) == history'[s]

FinishedAs(s, fate) == IF historyFaults' = historyFaults THEN history'[s] ELSE fate
=============================================================================
