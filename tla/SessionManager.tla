--------------------------- MODULE SessionManager ---------------------------
(***************************************************************************)
(* One session key of the daemon: every caller of SessionManager, the agent *)
(* and the human at its tmux pane, the loss of the process and init.       *)
(***************************************************************************)
EXTENDS SessionControl

vacant == [i \in Incarnation |-> IF i = 1 THEN "alive" ELSE "none"]

(* The key has one warm session, as create left it. *)
Init ==
  /\ up = "serving" /\ cur = 1
  /\ session = [i \in Incarnation |->
                  [status |-> IF i = 1 THEN "ready" ELSE "closed", active |-> None]]
  /\ active = None
  /\ record = [s \in Turn |-> "accepted"]
  /\ interrupted = [s \in Turn |-> FALSE]
  /\ chain = <<>>
  /\ pc = [f \in Fiber |-> "idle"]
  /\ holds = [f \in Fiber |-> 1]
  /\ plan = [s \in Turn |-> [fate |-> "failed", next |-> "attention_required"]]
  /\ op = [c \in Control |-> [kind |-> "close", prev |-> "closed"]]
  /\ target = [f \in Interrupt \cup Control |-> None]
  /\ image = [f \in Fiber |-> NoImage]
  /\ diskSession = [status |-> "ready", active |-> None, inc |-> 1]
  /\ diskRecord = [s \in Turn |-> None]
  /\ history = [s \in Turn |-> None]
  /\ pane = vacant
  /\ attached = {}
  /\ driving = [i \in Incarnation |-> None]
  /\ escaped = {}
  /\ handed = {}
  /\ displaced = {} /\ overtaken = {}
  /\ crashes = 0 /\ writeFaults = 0 /\ historyFaults = 0

-----------------------------------------------------------------------------
(* The pane and the people in front of it *)

unchangedByTmux == <<memoryVars, fiberVars, diskVars, marks, faultVars>>

DriverDies(i) ==
  /\ pane[i] = "alive"
  /\ pane' = [pane EXCEPT ![i] = "dead"]
  /\ UNCHANGED <<unchangedByTmux, attached, driving>>

(* An agent whose turn nobody watches returns to its prompt by itself. *)
AgentFinishes(i) ==
  /\ driving[i] # None
  /\ pc[driving[i]] \notin {"confirming", "bound", "watching"}
  /\ driving' = [driving EXCEPT ![i] = None]
  /\ UNCHANGED <<unchangedByTmux, pane, attached>>

Attach(i) ==
  /\ i \in MayAttach \ attached /\ pane[i] # "none"
  /\ attached' = attached \cup {i}
  /\ UNCHANGED <<unchangedByTmux, pane, driving>>

Detach(i) ==
  /\ i \in attached
  /\ attached' = attached \ {i}
  /\ UNCHANGED <<unchangedByTmux, pane, driving>>

PaneStep(i) == DriverDies(i) \/ AgentFinishes(i) \/ Attach(i) \/ Detach(i)

-----------------------------------------------------------------------------
(* The daemon process is lost at any point, also during init.  A call that was *)
(* running never returns; "cut" is a turn whose submit had returned.           *)

Crash ==
  /\ up # "down"
  /\ crashes + writeFaults < MaxFaults
  /\ crashes' = crashes + 1
  /\ up' = "down"
  /\ pc' = [f \in Fiber |-> CASE pc[f] \in {"idle", "done"} -> pc[f]
                              [] f \in Turn /\ Acknowledged(f) -> "cut"
                              [] OTHER -> "lost"]
  /\ image' = [f \in Fiber |-> NoImage]
  /\ chain' = <<>>
  /\ active' = None
  /\ UNCHANGED <<cur, session, record, interrupted, holds, plan, op, target,
                 diskVars, tmuxVars, marks, writeFaults, historyFaults>>

(* init reads session.json and the submission it names. *)
Boot ==
  /\ up = "down"
  /\ cur' = diskSession.inc
  /\ session' = [session EXCEPT ![diskSession.inc] =
                   [status |-> diskSession.status, active |-> diskSession.active]]
  /\ up' = IF diskSession.active = None THEN "reconciling"
           ELSE IF diskRecord[diskSession.active] \in Unfinished THEN "bootTurn"
           ELSE "bootSession"
  /\ UNCHANGED <<active, record, interrupted, chain, fiberVars, diskVars, tmuxVars, marks, faultVars>>

(* The turn the session file names is failed, unless history knows better. *)
BootFinishesTurn ==
  /\ up = "bootTurn"
  /\ LET s == session[cur].active
     IN /\ FinishTurn(s, "failed")
        /\ record' = [record EXCEPT ![s] = FinishedAs(s, "failed")]
  /\ up' = "bootRecord"
  /\ UNCHANGED <<cur, session, active, interrupted, chain, fiberVars, diskSession,
                 diskRecord, tmuxVars, marks, crashes, writeFaults>>


(* Mutant: init fails the turn without asking what the history says. *)
BootFailsTurn ==
  /\ up = "bootRecord"
  /\ RecordWritten(session[cur].active, "failed")
  /\ up' = "bootSession"
  /\ UNCHANGED <<cur, session, active, record, interrupted, chain, fiberVars,
                 diskSession, history, tmuxVars, marks, faultVars>>

BootRecordsTurn ==
  /\ up = "bootRecord"
  /\ RecordWritten(session[cur].active, record[session[cur].active])
  /\ up' = "bootSession"
  /\ UNCHANGED <<cur, session, active, record, interrupted, chain, fiberVars,
                 diskSession, history, tmuxVars, marks, faultVars>>

BootSavesSession ==
  /\ up = "bootSession"
  /\ SetSession(cur, IF diskRecord[session[cur].active] = "completed"
                     THEN "ready" ELSE "attention_required", None)
  /\ diskSession' = [status |-> session'[cur].status, active |-> None, inc |-> cur]
  /\ up' = "reconciling"
  /\ UNCHANGED <<cur, active, record, interrupted, chain, fiberVars, diskRecord,
                 history, tmuxVars, marks, faultVars>>

(* Panes of no live session are removed, one after another, unless a human is *)
(* attached.  The daemon listens only after that.                             *)
Current(i) == i = cur /\ session[cur].status # "closed"

Reconcile(i) ==
  /\ up = "reconciling"
  /\ pane[i] # "none" /\ ~Current(i) /\ i \notin attached
  /\ pane' = [pane EXCEPT ![i] = "none"]
  /\ driving' = [driving EXCEPT ![i] = None]
  /\ UNCHANGED <<unchangedByTmux, attached>>

Serve ==
  /\ up = "reconciling"
  /\ \A i \in Incarnation : pane[i] = "none" \/ Current(i) \/ i \in attached
  /\ up' = "serving"
  /\ UNCHANGED <<cur, session, active, record, interrupted, chain, fiberVars,
                 diskVars, tmuxVars, marks, faultVars>>

BootStep == Boot \/ BootFinishesTurn \/ BootRecordsTurn \/ BootSavesSession
            \/ (\E i \in Incarnation : Reconcile(i)) \/ Serve

-----------------------------------------------------------------------------
InterruptStep(f) == CallInterrupt(f) \/ SendEscape(f)

WriteStep(f) == Serialize(f) \/ SessionWritten(f) \/ SessionWriteFails(f)

(* What a fiber does of itself once it has been called. *)
FiberStep(f) ==
  \/ f \in Turn /\ OwnStep(f)
  \/ f \in Interrupt \cup Control /\ SendEscape(f)
  \/ f \in Control /\ ControlStep(f)
  \/ f \in Lookup /\ LookAtDriver(f)
  \/ WriteStep(f)

Next ==
  \/ \E s \in Turn : TurnStep(s)
  \/ \E f \in Interrupt : InterruptStep(f)
  \/ \E c \in Control : ControlStep(c) \/ SendEscape(c)
  \/ \E g \in Lookup : LookupStep(g)
  \/ \E f \in Fiber : WriteStep(f)
  \/ \E i \in Incarnation : PaneStep(i)
  \/ Crash
  \/ BootStep

Spec == Init /\ [][Next]_vars

(* Node runs every fiber whose await is over, every watch of a turn has a     *)
(* limit, and a daemon that is booting goes on.  Nothing is asked of the      *)
(* agent: it may work on a prompt forever.                                    *)
FairSpec ==
  /\ Spec
  /\ \A f \in Fiber : WF_vars(pc[f] # "idle" /\ FiberStep(f))
  /\ WF_vars(BootStep)

-----------------------------------------------------------------------------
(* Type correctness *)

Gone == {"idle", "done", "cut", "lost"}

Phase == {"serving", "down", "bootTurn", "bootRecord", "bootSession", "reconciling"}
Kind  == {"create", "restart", "release", "close"}

Await == LockedAwait \cup DOMAIN AfterWrite \cup Gone \cup
  {"staging", "staged", "submitThrew", "unstaging", "unstagedRec", "unsending", "unsentRec",
   "exec", "baseline", "starting", "pasting", "echoing", "confirming", "watching",
   "expired", "settling", "settled", "finishing", "recording", "caught", "stopped",
   "failing", "failedRec", "finally", "netTurn", "netRec", "intKey", "looking"}

TypeOK ==
  /\ up \in Phase
  /\ cur \in Incarnation
  /\ session \in [Incarnation -> SessionObject]
  /\ active \in Turn \cup {None}
  /\ record \in [Turn -> Recorded]
  /\ interrupted \in [Turn -> BOOLEAN]
  /\ chain \in Seq(Turn \cup Control)
  /\ pc \in [Fiber -> Await]
  /\ holds \in [Fiber -> Incarnation]
  /\ plan \in [Turn -> Plan]
  /\ op \in [Control -> [kind : Kind, prev : BusyStatus \cup IdleStatus]]
  /\ target \in [Interrupt \cup Control -> Turn \cup {None}]
  /\ image \in [Fiber -> SessionFile \cup {NoImage, Called}]
  /\ diskSession \in SessionFile
  /\ diskRecord \in [Turn -> Recorded \cup {None}]
  /\ history \in [Turn -> Recorded \cup {None}]
  /\ pane \in [Incarnation -> {"none", "alive", "dead"}]
  /\ attached \subseteq Incarnation
  /\ driving \in [Incarnation -> Turn \cup {None}]
  /\ escaped \subseteq Turn \cup {None}
  /\ handed \subseteq Turn /\ displaced \subseteq Turn /\ overtaken \subseteq Turn
  /\ {crashes, writeFaults} \subseteq Nat /\ crashes + writeFaults <= MaxFaults
  /\ historyFaults \in 0..MaxHistoryFaults

-----------------------------------------------------------------------------
(* What must hold of the turns of a key *)

InPane(s) == pc[s] \in {"pasting", "echoing", "confirming", "bound", "watching", "settling"}

(* withSessionMutation: create, restart, release, close and submission       *)
(* admission of one key never run together, however their awaits interleave, *)
(* also when one of them throws.                                             *)
Serialized ==
  \A f, g \in Turn \cup Control :
    pc[f] \in LockedAwait \ {"queued"} /\ pc[g] \in LockedAwait \ {"queued"} => f = g

(* Two turns never type into, watch or settle the same pane: a limit that      *)
(* expires keeps the session busy until the driver has been observed.          *)
OneTurnPerPane ==
  \A s, t \in Turn : InPane(s) /\ InPane(t) /\ holds[s] = holds[t] => s = t

(* A close takes a turn's reservation away under it, and so does the catch of a *)
(* turn that has released the session when its write of session.json fails.     *)
(* After one of them OneTurnPerPane fails: a restart, or an admission, finds    *)
(* the session free.                                                            *)
NobodyCloses == \A c \in Control : pc[c] # "idle" => op[c].kind # "close"

(* A close that was called while the turn was under way answers for it. *)
TakenByClose(s) == \E c \in Control : target[c] = s

(* restart and release replace or kill a pane only when no turn is in it that  *)
(* somebody still waits for, although neither looks again after it has asked   *)
(* tmux for attached clients and has written session.json.  It fails for a     *)
(* turn whose entry the end of an earlier turn has deleted (1019).             *)
ReplacementFindsNoTurn ==
  \A c \in Control :
    pc[c] = "respawning" \/ (pc[c] = "killing" /\ op[c].kind = "release")
      => \A s \in Turn : InPane(s) /\ ~TakenByClose(s) /\ s \notin displaced
                          => holds[s] # holds[c]

(* A durable verdict is never replaced by a different one, although the turn,  *)
(* a close that took it away and init may each finalize it.  It takes a history *)
(* that is written: without its record the turn is finalized twice (946, 984).  *)
VerdictNeverFlips ==
  [][\A s \in Turn : diskRecord[s] \in Terminal /\ diskRecord'[s] \in Terminal
                        => diskRecord'[s] = diskRecord[s]]_vars

(* The submission record and the workspace history never give a turn two      *)
(* different verdicts, also after a crash between the two writes.              *)
HistoryAgrees ==
  \A s \in Turn : history[s] \in Terminal /\ diskRecord[s] \in Terminal
                   => diskRecord[s] = history[s]

(* While an acknowledged turn has no durable verdict, session.json names it, so *)
(* that init can find it.  failUnexpectedExecution is the exception: it         *)
(* releases the session first.  It fails for a turn reserved while a write of    *)
(* session.json is under way that does not name it (a get that has marked the    *)
(* session stopped), and for one whose entry an earlier turn has deleted.        *)
NamedWhileUnfinished ==
  \A s \in Turn :
    /\ Acknowledged(s) /\ diskRecord[s] \in Unfinished
    /\ pc[s] \notin {"netTurn", "netRec", "netSess"}
    /\ ~TakenByClose(s) /\ s \notin displaced \cup overtaken
    => diskSession.active = s

(* When no turn is under way the session is free: it takes a submission, a      *)
(* restart or a release again.  What can strand it is a turn that went on        *)
(* without its entry, which the end of an earlier turn had deleted.              *)
Disturbed(i) == \E s \in displaced : holds[s] = i

NoStrandedSession ==
  (\A s \in Turn : pc[s] \in Gone) /\ up = "serving" /\ Busy(cur) => Disturbed(cur)

(* When neither the turn nor a close of its session is under way any more, the *)
(* submission record is finished.                                              *)
EndedTurnsHaveAVerdict ==
  \A s \in Turn : pc[s] = "done" /\ (\A c \in Control : pc[c] \in Gone)
                   => diskRecord[s] \notin Unfinished

(* The same for the turns that kept their entry, which no close has taken and    *)
(* no earlier turn has deleted: each of the five places that end a turn writes   *)
(* its record before the call returns.                                           *)
ServedTurnsHaveAVerdict ==
  \A s \in Turn : pc[s] = "done" /\ ~TakenByClose(s) /\ s \notin displaced
                   => diskRecord[s] \notin Unfinished

(* The prompt of a turn is not handed to the agent after the interrupt of that *)
(* turn has sent its Escape.                                                   *)
StoppedPromptStaysStopped ==
  [][\A i \in Incarnation : driving'[i] # driving[i] => driving'[i] \notin escaped]_vars

(* Every acknowledged turn gets a durable verdict, although the agent may be   *)
(* silent forever, unless a close takes the turn.                              *)
TurnsAreAnswered ==
  \A s \in Turn : pc[s] = "exec" ~> diskRecord[s] \in Terminal \/ TakenByClose(s)

(* The mutation chain starves nobody.  Each call is made once, so when calls   *)
(* wait there comes a moment when none does.                                   *)
CallsReturn ==
  LET Waits == \E f \in Turn \cup Control : pc[f] = "queued" IN Waits ~> ~Waits
=============================================================================
