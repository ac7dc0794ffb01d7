--------------------------- MODULE SessionControl ---------------------------
(***************************************************************************)
(* The other callers of a session key: interrupt, which takes no lock; the *)
(* locked control calls create, restart, release and close; and get.       *)
(***************************************************************************)
EXTENDS SessionTurns

-----------------------------------------------------------------------------
(* interrupt *)

(* Everything up to the first await of interrupt, for the call of fiber f. *)
MarkInterrupted(f, i, written, thrown) ==
  /\ SetSession(i, "interrupting", session[i].active)
  /\ interrupted' = [interrupted EXCEPT ![active] = TRUE]
  /\ target' = [target EXCEPT ![f] = active]
  /\ UNCHANGED active
  /\ PersistSession(f, written, thrown)

(* activeRuntime.phase is "preparing" until the turn is staged or interrupted. *)
Preparing(s) ==
  /\ pc[s] \in {"accepting", "accepted", "admitThrew", "rejecting", "staging",
                "unstaging", "unstagedRec"}
  /\ ~interrupted[s]

CallInterrupt(f) ==
  /\ pc[f] = "idle" /\ up = "serving"
  /\ active # None
  /\ holds' = [holds EXCEPT ![f] = cur]
  /\ MarkInterrupted(f, cur, IF Preparing(active) THEN "intQuiet" ELSE "intWriting", "done")
  /\ UNCHANGED <<up, cur, record, plan, op, diskVars, tmuxVars, marks, faultVars>>

(* submit has handed the turn over, and set activeRuntime.completion; "done" is *)
(* past it or never came to it, and there is nothing to wait for either way.    *)
Acknowledged(s) == pc[s] \in {"exec", "baseline", "starting", "pasting", "echoing", "confirming",
  "bound", "watching", "expired", "settling", "settled", "finishing", "recording",
  "released", "caught", "stopped", "failing", "failedRec", "failedSess", "finally",
  "netTurn", "netRec", "netSess"}

(* The Escape goes to the pane, whichever turn is in it by now. *)
SendEscape(f) ==
  /\ pc[f] = IF f \in Control THEN "closeKey" ELSE "intKey"
  /\ IF pane[holds[f]] = "alive" THEN Escape(holds[f]) ELSE UNCHANGED driving
  /\ escaped' = escaped \cup {target[f]}
  /\ Goto(f, CASE f \in Interrupt -> "done"
                [] f \in Control /\ ~Acknowledged(target[f]) -> "closePoll"
                [] f \in Control /\ Acknowledged(target[f]) -> "closeWait")
  /\ UNCHANGED <<up, cur, session, active, record, interrupted, holds, plan, op,
                 target, image, diskVars, pane, attached, handed, displaced,
                 overtaken, faultVars>>

-----------------------------------------------------------------------------
(* create, restart, release and close: the mutation chain, then the guards *)

SetStatus(i, status) == SetSession(i, status, session[i].active)

CallControl(c) ==
  /\ JoinChain(c)
  /\ \E kind \in {"create", "restart", "release", "close"} :
       op' = [op EXCEPT ![c] = [kind |-> kind, prev |-> "closed"]]
  /\ UNCHANGED <<up, cur, session, active, record, interrupted, holds, plan,
                 target, image, diskVars, tmuxVars, marks, faultVars>>

(* Mutant: restart and release do not ask whether a turn is under way. *)
RefusedUnlessClosed(c) ==
  \/ op[c].kind = "create" /\ session[cur].status # "closed"
  \/ op[c].kind \in {"release", "close"} /\ session[cur].status = "closed"

(* A create under a live identity returns that session, a close of a closed  *)
(* one has nothing to do, and no turn loses its pane to a restart or release. *)
Refused(c) ==
  \/ op[c].kind = "create" /\ session[cur].status # "closed"
  \/ op[c].kind \in {"release", "close"} /\ session[cur].status = "closed"
  \/ op[c].kind \in {"restart", "release"} /\ Busy(cur)

(* A closed session is superseded by a new incarnation; a create that cannot  *)
(* have one is the bound's, not the code's.                                  *)
BeginControl(c) ==
  /\ pc[c] = "queued" /\ HoldsChain(c)
  /\ \/ /\ Refused(c) \/ (op[c].kind = "create" /\ cur = MaxIncarnation)
        /\ holds' = [holds EXCEPT ![c] = cur]
        /\ Goto(c, "done")
        /\ UNCHANGED <<cur, session, active, image>>
     \/ /\ ~Refused(c) /\ op[c].kind = "create" /\ cur < MaxIncarnation
        /\ cur' = cur + 1
        /\ holds' = [holds EXCEPT ![c] = cur']
        /\ SetSession(cur', "starting", None)
        /\ UNCHANGED active
        /\ PersistSession(c, "ctlStarting", "done")
     \/ /\ ~Refused(c) /\ op[c].kind # "create"
        /\ holds' = [holds EXCEPT ![c] = cur]
        /\ Goto(c, "checking")
        /\ UNCHANGED <<cur, session, active, image>>
  /\ UNCHANGED <<up, record, interrupted, plan, op, target, diskVars, tmuxVars, marks, faultVars>>

(* No pane is taken from an attached human.  A close that finds a turn        *)
(* interrupts it before it does anything else.                                *)
CheckAttached(c) ==
  /\ pc[c] = "checking"
  /\ \/ /\ holds[c] \in attached \/ op[c].kind = "release"
        /\ Goto(c, IF holds[c] \in attached THEN "done" ELSE "killing")
        /\ UNCHANGED <<session, active, interrupted, holds, op, target, image>>
     \/ /\ holds[c] \notin attached /\ op[c].kind = "restart"
        /\ op' = [op EXCEPT ![c].prev = session[holds[c]].status]
        /\ SetStatus(holds[c], "starting")
        /\ UNCHANGED <<active, interrupted, holds, target>>
        /\ PersistSession(c, "ctlStarting", "done")
     \/ /\ holds[c] \notin attached /\ op[c].kind = "close" /\ active = None
        /\ Goto(c, "rechecking")
        /\ UNCHANGED <<session, active, interrupted, holds, op, target, image>>
     \/ /\ holds[c] \notin attached /\ op[c].kind = "close" /\ active # None
        /\ UNCHANGED <<holds, op>>
        /\ MarkInterrupted(c, holds[c],
                           IF Preparing(active) THEN "closeQuiet" ELSE "closeIntr", "done")
  /\ UNCHANGED <<up, cur, record, plan, diskVars, tmuxVars, marks, faultVars>>

(* launch: a pane of this incarnation is replaced unless a human attached. *)
LaunchChecks(c) ==
  /\ pc[c] = "launching"
  /\ Goto(c, IF pane[holds[c]] # "none" /\ holds[c] \in attached
             THEN "restoring" ELSE "respawning")
  /\ UNCHANGED <<up, cur, session, active, record, interrupted, holds, plan, op,
                 target, image, diskVars, tmuxVars, marks, faultVars>>

(* Kill, create the shell and start the driver in it; tmux may fail. *)
Respawn(c) ==
  /\ pc[c] = "respawning"
  /\ driving' = [driving EXCEPT ![holds[c]] = None]
  /\ attached' = attached \ {holds[c]}
  /\ \/ /\ pane' = [pane EXCEPT ![holds[c]] = "alive"]
        /\ Goto(c, "booting")
        /\ UNCHANGED writeFaults
     \/ /\ Fault
        /\ pane' = [pane EXCEPT ![holds[c]] = "none"]
        /\ Goto(c, "restoring")
  /\ UNCHANGED <<up, cur, session, active, record, interrupted, holds, plan, op,
                 target, image, diskVars, marks, crashes, historyFaults>>

(* waitUntilReady, for a new driver. *)
DriverStarts(c) ==
  /\ pc[c] = "booting"
  /\ \E status \in {"ready", "auth_required", "attention_required", "failed"} :
       /\ status \in {"ready", "auth_required"} => pane[holds[c]] = "alive"
       /\ SetStatus(holds[c], status)
  /\ UNCHANGED <<active, holds>>
  /\ PersistSession(c, "launched", "restoring")
  /\ UNCHANGED <<up, cur, record, interrupted, plan, op, target, diskVars, tmuxVars, marks, faultVars>>

(* A restart that throws gives back the earlier status; a create does not. *)
RestorePrevious(c) ==
  /\ pc[c] = "restoring"
  /\ UNCHANGED <<active, holds>>
  /\ IF op[c].kind = "restart"
     THEN SetStatus(holds[c], op[c].prev) /\ PersistSession(c, "restored", "done")
     ELSE Goto(c, "done") /\ UNCHANGED <<session, image>>
  /\ UNCHANGED <<up, cur, record, interrupted, plan, op, target, diskVars, tmuxVars, marks, faultVars>>

-----------------------------------------------------------------------------
(* close waits for the interrupted turn, at most ten seconds.  The awaits that *)
(* may last that long are those on the driver, on copied files, on the watch    *)
(* with the callbacks it has pending, and on the workspace lock.                 *)

SlowAwait == {"staging", "unstaging", "unsending", "exec", "starting", "watching",
              "settled", "caught", "stopped", "expired", "settling", "finishing",
              "failing", "netTurn"}

(* A turn that ended without giving its entry up is polled for until then. *)
AwaitTurnEnd(c) ==
  /\ \/ pc[c] = "closePoll" /\ active # target[c]
     \/ pc[c] \in {"closePoll", "closeWait"} /\ pc[target[c]] \in SlowAwait \cup {"done"}
  /\ Goto(c, "rechecking")
  /\ UNCHANGED <<up, cur, session, active, record, interrupted, holds, plan, op,
                 target, image, diskVars, tmuxVars, marks, faultVars>>

RecheckAttached(c) ==
  /\ pc[c] = "rechecking"
  /\ Goto(c, IF holds[c] \in attached THEN "done" ELSE "killing")
  /\ UNCHANGED <<up, cur, session, active, record, interrupted, holds, plan, op,
                 target, image, diskVars, tmuxVars, marks, faultVars>>

KillPane(c) ==
  /\ pc[c] = "killing"
  /\ pane' = [pane EXCEPT ![holds[c]] = "none"]
  /\ driving' = [driving EXCEPT ![holds[c]] = None]
  /\ attached' = attached \ {holds[c]}
  /\ Goto(c, "killed")
  /\ UNCHANGED <<up, cur, session, active, record, interrupted, holds, plan, op,
                 target, image, diskVars, marks, faultVars>>

(* The pane is gone.  What close does next depends on the turn it finds now. *)
AfterKill(c) ==
  /\ pc[c] = "killed"
  /\ UNCHANGED <<active, holds>>
  /\ \/ /\ op[c].kind = "release"
        /\ SetStatus(holds[c], "stopped")
        /\ PersistSession(c, "ctlWriting", "done")
        /\ UNCHANGED <<record, interrupted, target>>
     \/ /\ op[c].kind = "close" /\ active = None
        /\ SetSession(holds[c], "closed", None)
        /\ PersistSession(c, "ctlWriting", "done")
        /\ UNCHANGED <<record, interrupted, target>>
     \/ /\ op[c].kind = "close" /\ active # None
        /\ interrupted' = [interrupted EXCEPT ![active] = TRUE]
        /\ record' = [record EXCEPT ![active] = "interrupted"]
        /\ target' = [target EXCEPT ![c] = active]
        /\ Goto(c, "closeTurn")
        /\ UNCHANGED <<session, image>>
  /\ UNCHANGED <<up, cur, plan, op, diskVars, tmuxVars, marks, faultVars>>

(* The turn that did not settle is finalized by close, in its own object. *)
CloseFinishesTurn(c) ==
  /\ pc[c] = "closeTurn"
  /\ FinishTurn(target[c], record[target[c]])
  /\ record' = [record EXCEPT ![target[c]] = FinishedAs(target[c], record[target[c]])]
  /\ Goto(c, "closeRec")
  /\ UNCHANGED <<up, cur, session, active, interrupted, holds, plan, op, target,
                 image, diskSession, diskRecord, tmuxVars, marks, crashes, writeFaults>>

CloseRecordsTurn(c) ==
  /\ pc[c] = "closeRec"
  /\ \/ /\ RecordWritten(target[c], record[target[c]])
        /\ active' = None
        /\ SetSession(holds[c], "closed", None)
        /\ UNCHANGED <<holds, writeFaults>>
        /\ PersistSession(c, "ctlWriting", "done")
     \/ /\ RecordFails
        /\ Goto(c, "done")
        /\ UNCHANGED <<session, active, holds, image>>
  /\ UNCHANGED <<up, cur, record, interrupted, plan, op, target, diskSession,
                 history, tmuxVars, marks, crashes, historyFaults>>

ControlStep(c) ==
  \/ CallControl(c) \/ BeginControl(c) \/ CheckAttached(c)
  \/ LaunchChecks(c) \/ Respawn(c) \/ DriverStarts(c) \/ RestorePrevious(c)
  \/ AwaitTurnEnd(c) \/ RecheckAttached(c) \/ KillPane(c) \/ AfterKill(c)
  \/ CloseFinishesTurn(c) \/ CloseRecordsTurn(c)

-----------------------------------------------------------------------------
(* get: outside the chain, the driver is probed after the busy check *)

CallGet(g) ==
  /\ pc[g] = "idle" /\ up = "serving"
  /\ session[cur].status # "closed" /\ ~Busy(cur)
  /\ holds' = [holds EXCEPT ![g] = cur]
  /\ Goto(g, "looking")
  /\ UNCHANGED <<up, cur, session, active, record, interrupted, plan, op, target,
                 image, diskVars, tmuxVars, marks, faultVars>>

LookAtDriver(g) ==
  /\ pc[g] = "looking"
  /\ UNCHANGED <<active, holds>>
  /\ IF pane[holds[g]] = "alive"
     THEN Goto(g, "done") /\ UNCHANGED <<session, image>>
     ELSE SetStatus(holds[g], "stopped") /\ PersistSession(g, "getWriting", "done")
  /\ UNCHANGED <<up, cur, record, interrupted, plan, op, target, diskVars, tmuxVars, marks, faultVars>>

LookupStep(g) == CallGet(g) \/ LookAtDriver(g)
=============================================================================
