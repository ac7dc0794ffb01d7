---------------------------- MODULE SessionTurns ----------------------------
(***************************************************************************)
(* The life of one submitted turn: admission under the mutation chain,     *)
(* staging, execution in the pane, and the ways it is finalized.           *)
(***************************************************************************)
EXTENDS SessionState

unchangedByEntries == <<up, cur, op, target, attached, escaped, handed, crashes>>
unchangedByTurns == <<unchangedByEntries, displaced, overtaken>>

Suspended(s, l) == pc[s] = l
Alive(s) == pane[holds[s]] = "alive"
Status(s) == session[holds[s]].status

(* The rename of a submission record, which only its own turn and close write. *)
RecordWritten(s, status) == diskRecord' = [diskRecord EXCEPT ![s] = status]
RecordFails == Fault /\ UNCHANGED diskRecord

(* The entry of the key is deleted whoever owns it. *)
DeleteEntry(s) ==
  /\ active' = None
  /\ displaced' = displaced \cup ({active} \ {s, None})

-----------------------------------------------------------------------------
(* admitSubmission *)

Submit(s) ==
  /\ JoinChain(s)
  /\ UNCHANGED <<up, cur, session, active, record, interrupted, holds, plan, op,
                 target, image, diskVars, tmuxVars, marks, faultVars>>

(* Mutant: admission does not wait for the mutation that is under way. *)
AdmitWithoutWaiting(s) ==
  /\ Suspended(s, "queued")
  /\ holds' = [holds EXCEPT ![s] = cur]
  /\ Goto(s, IF ~Busy(cur) /\ session[cur].status = "ready" THEN "probing" ELSE "done")
  /\ UNCHANGED <<unchangedByTurns, session, active, record, interrupted, plan,
                 image, diskVars, pane, driving, writeFaults, historyFaults>>

(* The busy check, then the driver is probed only for a ready session. *)
Admit(s) ==
  /\ Suspended(s, "queued") /\ HoldsChain(s)
  /\ holds' = [holds EXCEPT ![s] = cur]
  /\ Goto(s, IF ~Busy(cur) /\ session[cur].status = "ready" THEN "probing" ELSE "done")
  /\ UNCHANGED <<unchangedByTurns, session, active, record, interrupted, plan,
                 image, diskVars, pane, driving, writeFaults, historyFaults>>

(* A write of session.json that will not name the turn reserved meanwhile. *)
Outdated(f) == image[f] # NoImage /\ (image[f] = Called => holds[f] # cur)

(* A dead driver stops the session; a session that is still ready is reserved *)
(* in the same step, before any other fiber runs.                             *)
ProbeDriver(s) ==
  /\ Suspended(s, "probing")
  /\ IF ~Alive(s)
     THEN /\ SetSession(holds[s], "stopped", session[holds[s]].active)
          /\ UNCHANGED <<active, record, overtaken>>
          /\ UNCHANGED holds /\ PersistSession(s, "refusing", "done")
     ELSE IF Status(s) # "ready"
     THEN /\ Goto(s, "done")
          /\ UNCHANGED <<session, active, record, holds, image, overtaken>>
     ELSE /\ SetSession(holds[s], "preparing", s)
          /\ active' = s
          /\ overtaken' = overtaken \cup {t \in {s} : \E f \in Fiber : Outdated(f)}
          /\ record' = [record EXCEPT ![s] = "accepted"]
          /\ Goto(s, "accepting")
          /\ UNCHANGED <<holds, image>>
  /\ UNCHANGED <<unchangedByEntries, displaced, interrupted, plan, diskVars, pane,
                 driving, writeFaults, historyFaults>>

(* The submission file first, then session.json names it. *)
RecordAccepted(s) ==
  /\ Suspended(s, "accepting")
  /\ \/ /\ RecordWritten(s, "accepted")
        /\ UNCHANGED <<session, active, holds, writeFaults>>
        /\ PersistSession(s, "accepted", "admitThrew")
     \/ /\ RecordFails
        /\ Goto(s, "admitThrew")
        /\ UNCHANGED <<session, active, holds, image>>
  /\ UNCHANGED <<unchangedByTurns, record, interrupted, plan, diskSession,
                 history, pane, driving, historyFaults>>

AdmissionThrew(s) ==
  /\ Suspended(s, "admitThrew")
  /\ IF active = s
     THEN record' = [record EXCEPT ![s] = "failed"] /\ Goto(s, "rejecting")
     ELSE Goto(s, "done") /\ UNCHANGED record
  /\ UNCHANGED <<unchangedByTurns, session, active, interrupted, holds, plan,
                 image, diskVars, pane, driving, writeFaults, historyFaults>>

RecordRejected(s) ==
  /\ Suspended(s, "rejecting")
  /\ \/ RecordWritten(s, "failed") /\ UNCHANGED writeFaults
     \/ RecordFails
  /\ DeleteEntry(s)
  /\ SetSession(holds[s], "attention_required", None)
  /\ UNCHANGED holds /\ PersistSession(s, "rejected", "done")
  /\ UNCHANGED <<unchangedByEntries, overtaken, record, interrupted, plan, diskSession,
                 history, pane, driving, historyFaults>>

-----------------------------------------------------------------------------
(* submit, after the chain is released *)

SetPlan(s, fate, next) == plan' = [plan EXCEPT ![s] = [fate |-> fate, next |-> next]]

(* Mutant: submit rethrows without finalizing what it reserved. *)
GiveUpWithoutFinalizing(s, fate, await) == Goto(s, "done") /\ UNCHANGED plan

(* The catch of submit: only the owner of the reservation finalizes it.  The   *)
(* two awaits differ in the phase an interrupt call still reads.               *)
GiveUpStaging(s, fate, await) ==
  /\ IF active = s
     THEN /\ SetPlan(s, IF interrupted[s] THEN "interrupted" ELSE fate,
                     IF interrupted[s] \/ fate = "interrupted"
                     THEN "ready" ELSE "attention_required")
          /\ Goto(s, await)
     ELSE Goto(s, "done") /\ UNCHANGED plan

(* startTurn copies the inputs into the workspace; it observes the signal. *)
StageTurn(s) ==
  /\ Suspended(s, "staging")
  /\ \/ /\ ~interrupted[s]
        /\ SetSession(holds[s], "submitting", session[holds[s]].active)
        /\ Goto(s, "staged")
        /\ UNCHANGED <<plan, writeFaults>>
     \/ /\ interrupted[s]
        /\ GiveUpStaging(s, "interrupted", "unstaging")
        /\ UNCHANGED <<session, writeFaults>>
     \/ /\ Fault
        /\ GiveUpStaging(s, "failed", "unstaging")
        /\ UNCHANGED session
  /\ UNCHANGED <<unchangedByTurns, active, record, interrupted, holds, image,
                 diskVars, pane, driving, historyFaults>>

RecordStaged(s) ==
  /\ Suspended(s, "staged")
  /\ \/ /\ RecordWritten(s, "accepted")
        /\ UNCHANGED <<session, active, holds, writeFaults>>
        /\ PersistSession(s, "submitted", "submitThrew")
     \/ /\ RecordFails
        /\ Goto(s, "submitThrew")
        /\ UNCHANGED <<session, active, holds, image>>
  /\ UNCHANGED <<unchangedByTurns, record, interrupted, plan, diskSession,
                 history, pane, driving, historyFaults>>

SubmitThrew(s) ==
  /\ Suspended(s, "submitThrew")
  /\ GiveUpStaging(s, "failed", "unsending")
  /\ UNCHANGED <<unchangedByTurns, session, active, record, interrupted, holds,
                 image, diskVars, pane, driving, writeFaults, historyFaults>>

-----------------------------------------------------------------------------
(* finalizeSubmission: history, then the record, then memory.  The places     *)
(* that call it wait on a history await and on a record await.                *)
HistoryAwait == [unstaging |-> "unstagedRec", unsending |-> "unsentRec",
                 finishing |-> "recording", failing |-> "failedRec",
                 netTurn |-> "netRec"]

FinishWorkspaceTurn(s) ==
  /\ pc[s] \in DOMAIN HistoryAwait
  /\ FinishTurn(s, plan[s].fate)
  /\ plan' = [plan EXCEPT ![s].fate = FinishedAs(s, plan[s].fate)]
  /\ Goto(s, HistoryAwait[pc[s]])
  /\ UNCHANGED <<unchangedByTurns, session, active, record, interrupted, holds,
                 image, diskSession, diskRecord, pane, driving, writeFaults>>

RecordUnstaged(s) ==
  /\ pc[s] \in {"unstagedRec", "unsentRec"}
  /\ \/ /\ RecordWritten(s, plan[s].fate)
        /\ record' = [record EXCEPT ![s] = plan[s].fate]
        /\ DeleteEntry(s)
        /\ SetSession(holds[s], plan[s].next, None)
        /\ UNCHANGED <<holds, writeFaults>>
        /\ PersistSession(s, "unstagedSess", "done")
     \/ /\ RecordFails
        /\ Goto(s, "done")
        /\ UNCHANGED <<session, active, displaced, record, holds, image>>
  /\ UNCHANGED <<unchangedByEntries, overtaken, interrupted, plan, diskSession, history,
                 pane, driving, historyFaults>>

-----------------------------------------------------------------------------
(* executeSubmission, before its try block: a throw goes to                  *)
(* failUnexpectedExecution, which settles memory first.                      *)

FailUnexpectedly(s, next) ==
  IF active = s
  THEN /\ active' = None
       /\ SetPlan(s, IF interrupted[s] THEN "interrupted" ELSE "failed",
                  IF interrupted[s] THEN "ready" ELSE next)
       /\ SetSession(holds[s], plan'[s].next, None)
       /\ record' = [record EXCEPT ![s] = plan'[s].fate]
       /\ Goto(s, "netTurn")
  ELSE /\ Goto(s, "done")
       /\ UNCHANGED <<active, plan, session, record>>

(* waitUntilReady: the driver is ready only at its empty prompt. *)
AwaitDriver(s) ==
  /\ Suspended(s, "exec")
  /\ \/ /\ Alive(s) /\ driving[holds[s]] = None
        /\ Goto(s, "baseline")
        /\ UNCHANGED <<session, active, plan, record>>
     \/ \E next \in {"auth_required", "attention_required"} :
          /\ next = "auth_required" => Alive(s)
          /\ FailUnexpectedly(s, next)
  /\ UNCHANGED <<unchangedByTurns, interrupted, holds, image, diskVars, pane,
                 driving, writeFaults, historyFaults>>

(* The artifacts that exist are listed, then the turn is running, whatever   *)
(* has been said of it meanwhile; the workspace is told and the record saved. *)
BeginRunning(s) ==
  /\ Suspended(s, "baseline")
  /\ record' = [record EXCEPT ![s] = "running"]
  /\ Goto(s, "starting")
  /\ UNCHANGED <<unchangedByTurns, session, active, plan, interrupted, holds, image,
                 diskVars, pane, driving, writeFaults, historyFaults>>

(* Mutant: the prompt is pasted although the record could not be saved. *)
StartWithoutRecord(s) ==
  /\ Suspended(s, "starting")
  /\ \/ \E status \in {"running", record[s]} : RecordWritten(s, status)
                                               /\ UNCHANGED writeFaults
     \/ RecordFails
  /\ Goto(s, "pasting")
  /\ UNCHANGED <<unchangedByTurns, session, active, record, plan, interrupted,
                 holds, image, diskSession, history, pane, driving, historyFaults>>

(* The record as it is when it is serialized: a close may have ended the turn. *)
RecordStarted(s) ==
  /\ Suspended(s, "starting")
  /\ \/ /\ \E status \in {"running", record[s]} : RecordWritten(s, status)
        /\ Goto(s, "pasting")
        /\ UNCHANGED <<session, active, record, plan, writeFaults>>
     \/ /\ RecordFails
        /\ FailUnexpectedly(s, "attention_required")
  /\ UNCHANGED <<unchangedByTurns, interrupted, holds, image, diskSession,
                 history, pane, driving, historyFaults>>

(* Mutant: the last net saves the session and forgets the record. *)
NetWithoutRecord(s) ==
  /\ Suspended(s, "netRec")
  /\ UNCHANGED <<session, active, holds>>
  /\ PersistSession(s, "netSess", "done")
  /\ UNCHANGED <<unchangedByTurns, record, interrupted, plan, diskVars, pane,
                 driving, writeFaults, historyFaults>>

(* The last net: when the finalized record cannot be written the live one is   *)
(* tried, and nothing throws.                                                  *)
RecordNet(s) ==
  /\ Suspended(s, "netRec")
  /\ \/ /\ RecordWritten(s, plan[s].fate)
        /\ record' = [record EXCEPT ![s] = plan[s].fate]
        /\ UNCHANGED writeFaults
     \/ /\ Fault
        /\ RecordWritten(s, record[s]) \/ UNCHANGED diskRecord
        /\ UNCHANGED record
  /\ UNCHANGED <<session, active, holds>>
  /\ PersistSession(s, "netSess", "done")
  /\ UNCHANGED <<unchangedByTurns, interrupted, plan, diskSession, history, pane,
                 driving, historyFaults>>

-----------------------------------------------------------------------------
(* executeSubmission, inside its try block: any throw goes to its catch.     *)

(* A throw ends on "caught", "stopped" when the error says the submission was  *)
(* interrupted, or "expired" when a limit of the turn ran out.                 *)

(* The prompt is pasted, and waitForPromptEcho looks at the signal before it  *)
(* captures the screen.                                                       *)
PastePrompt(s) ==
  /\ Suspended(s, "pasting")
  /\ \/ /\ Alive(s) /\ ~interrupted[s]
        /\ Goto(s, "echoing")
     \/ Goto(s, "caught")
  /\ UNCHANGED <<unchangedByTurns, session, active, record, interrupted, holds,
                 plan, image, diskVars, pane, driving, writeFaults, historyFaults>>

(* The marker is on the screen: the settle delay ends at once on an abort, and *)
(* confirmSubmission presses Enter before it looks at the signal.              *)
PressEnter(s) ==
  /\ Suspended(s, "echoing")
  /\ \/ /\ Alive(s)
        /\ driving' = [driving EXCEPT ![holds[s]] = s]
        /\ handed' = handed \cup {s}
        /\ Goto(s, "confirming")
     \/ /\ Goto(s, "caught")
        /\ UNCHANGED <<driving, handed>>
  /\ UNCHANGED <<up, cur, session, active, record, interrupted, holds, plan, op,
                 target, image, diskVars, pane, attached, escaped, displaced,
                 overtaken, faultVars>>

(* The artifact names the submission, or the bind deadline passes. *)
ConfirmSubmission(s) ==
  /\ Suspended(s, "confirming")
  /\ \/ /\ ~interrupted[s]
        /\ driving[holds[s]] = s
        /\ SetSession(holds[s], "running", session[holds[s]].active)
        /\ UNCHANGED <<active, holds>>
        /\ PersistSession(s, "bound", "caught")
     \/ /\ Goto(s, "caught")
        /\ UNCHANGED <<session, active, holds, image>>
  /\ UNCHANGED <<unchangedByTurns, record, interrupted, plan, diskVars, pane, driving,
                 writeFaults, historyFaults>>

(* The artifact reports the end of the turn; "auth_required" is a failed turn *)
(* that leaves the session waiting for a login.                               *)
ArtifactTerminal(s) ==
  /\ Suspended(s, "watching")
  /\ driving[holds[s]] = s
  /\ driving' = [driving EXCEPT ![holds[s]] = None]
  /\ \E next \in {"ready", "auth_required"}, fate \in {"completed", "failed"} :
       /\ next = "auth_required" => fate = "failed"
       /\ SetPlan(s, fate, next)
  /\ Goto(s, "settled")
  /\ UNCHANGED <<unchangedByTurns, session, active, record, interrupted, holds,
                 image, diskVars, pane, writeFaults, historyFaults>>

(* Mutant: a turn that fell silent is watched forever. *)
WatchWithoutLimit(s) ==
  /\ Suspended(s, "watching")
  /\ \/ ~Alive(s) /\ Goto(s, "caught")
     \/ interrupted[s] /\ Goto(s, "stopped")
  /\ UNCHANGED <<unchangedByTurns, session, active, record, interrupted, holds,
                 plan, image, diskVars, pane, driving, writeFaults, historyFaults>>

(* The driver exits, the signal aborts the watch, a limit expires, or the      *)
(* session file could not take the provider's session id when the turn bound.  *)
WatchRejects(s) ==
  /\ Suspended(s, "watching")
  /\ \/ ~Alive(s) /\ Goto(s, "caught") /\ UNCHANGED writeFaults
     \/ interrupted[s] /\ Goto(s, "stopped") /\ UNCHANGED writeFaults
     \/ Goto(s, "expired") /\ UNCHANGED writeFaults
     \/ Fault /\ Goto(s, "caught")
  /\ UNCHANGED <<unchangedByTurns, session, active, record, interrupted, holds,
                 plan, image, diskVars, pane, driving, historyFaults>>

(* A close that ran out of patience may have taken the turn away. *)
CheckOwner(s) ==
  /\ Suspended(s, "settled")
  /\ Goto(s, IF active = s /\ Status(s) # "closed" THEN "finishing" ELSE "stopped")
  /\ UNCHANGED <<unchangedByTurns, session, active, record, interrupted, holds,
                 plan, image, diskVars, pane, driving, writeFaults, historyFaults>>

(* Mutant: the session is released and saved, the record never is. *)
ReleaseWithoutRecord(s) ==
  /\ Suspended(s, "recording")
  /\ record' = [record EXCEPT ![s] = plan[s].fate]
  /\ DeleteEntry(s)
  /\ SetSession(holds[s], plan[s].next, None)
  /\ UNCHANGED holds
  /\ PersistSession(s, "released", "caught")
  /\ UNCHANGED <<unchangedByEntries, overtaken, interrupted, plan, diskVars, pane, driving,
                 writeFaults, historyFaults>>

RecordFinished(s) ==
  /\ Suspended(s, "recording")
  /\ \/ /\ RecordWritten(s, plan[s].fate)
        /\ record' = [record EXCEPT ![s] = plan[s].fate]
        /\ DeleteEntry(s)
        /\ SetSession(holds[s], plan[s].next, None)
        /\ UNCHANGED <<holds, writeFaults>>
        /\ PersistSession(s, "released", "caught")
     \/ /\ RecordFails
        /\ Goto(s, "caught")
        /\ UNCHANGED <<session, active, displaced, record, holds, image>>
  /\ UNCHANGED <<unchangedByEntries, overtaken, interrupted, plan, diskSession, history, pane,
                 driving, historyFaults>>

-----------------------------------------------------------------------------
(* The catch and the finally of executeSubmission *)

PlanFailure(s, stopped) ==
  SetPlan(s, IF stopped THEN "interrupted" ELSE "failed",
          IF stopped THEN "ready" ELSE "attention_required")

Caught(s) ==
  /\ pc[s] \in {"caught", "stopped"}
  /\ PlanFailure(s, interrupted[s] \/ Suspended(s, "stopped"))
  /\ Goto(s, "failing")
  /\ UNCHANGED <<unchangedByTurns, session, active, record, interrupted, holds,
                 image, diskVars, pane, driving, writeFaults, historyFaults>>

(* An agent that gets an Escape stops its turn, or is stuck and does not. *)
Escape(i) == \/ driving' = [driving EXCEPT ![i] = None]
             \/ UNCHANGED driving

(* Mutant: the session is released before the driver has been observed. *)
ReleaseBeforeSettling(s) ==
  /\ Suspended(s, "expired")
  /\ PlanFailure(s, interrupted[s])
  /\ DeleteEntry(s)
  /\ SetSession(holds[s], "ready", None)
  /\ Goto(s, "settling")
  /\ Escape(holds[s])
  /\ UNCHANGED <<unchangedByEntries, overtaken, record, interrupted, holds, image, diskVars, pane,
                 writeFaults, historyFaults>>

(* A limit expired: the driver is interrupted before anything is reported,   *)
(* unless an interrupt call arrived first.  On a closed session there is     *)
(* nothing to settle and the catch itself throws: settle.settled of null.    *)
Expired(s) ==
  /\ Suspended(s, "expired")
  /\ PlanFailure(s, interrupted[s])
  /\ Goto(s, CASE interrupted[s] -> "failing"
                [] ~interrupted[s] /\ Status(s) = "closed" -> "finally"
                [] ~interrupted[s] /\ Status(s) # "closed" -> "settling")
  /\ IF interrupted[s] \/ Status(s) = "closed"
     THEN UNCHANGED driving
     ELSE Escape(holds[s])
  /\ UNCHANGED <<unchangedByTurns, session, active, record, interrupted, holds,
                 image, diskVars, pane, writeFaults, historyFaults>>

SettleTimedOutDriver(s) ==
  /\ Suspended(s, "settling")
  /\ \/ /\ Alive(s) /\ driving[holds[s]] = None
        /\ SetPlan(s, plan[s].fate, "ready")
     \/ UNCHANGED plan
  /\ Goto(s, "failing")
  /\ UNCHANGED <<unchangedByTurns, session, active, record, interrupted, holds,
                 image, diskVars, pane, driving, writeFaults, historyFaults>>

(* A closed session stays closed. *)
RecordFailed(s) ==
  /\ Suspended(s, "failedRec")
  /\ \/ /\ RecordWritten(s, plan[s].fate)
        /\ record' = [record EXCEPT ![s] = plan[s].fate]
        /\ DeleteEntry(s)
        /\ UNCHANGED <<holds, writeFaults>>
        /\ IF Status(s) = "closed"
           THEN Goto(s, "finally") /\ UNCHANGED <<session, image>>
           ELSE /\ SetSession(holds[s], plan[s].next, None)
                /\ PersistSession(s, "failedSess", "finally")
     \/ /\ RecordFails
        /\ Goto(s, "finally")
        /\ UNCHANGED <<session, active, displaced, record, holds, image>>
  /\ UNCHANGED <<unchangedByEntries, overtaken, interrupted, plan, diskSession, history, pane,
                 driving, historyFaults>>

(* The entry is deleted again, without a look at its owner.  The assertion    *)
(* that follows changes nothing: failUnexpectedExecution finds no entry of    *)
(* this turn and returns.                                                     *)
Finally(s) ==
  /\ Suspended(s, "finally")
  /\ DeleteEntry(s)
  /\ Goto(s, "done")
  /\ UNCHANGED <<unchangedByEntries, overtaken, session, record, interrupted, holds, plan,
                 image, diskVars, pane, driving, writeFaults, historyFaults>>

(* What a turn does of itself; its end in the artifact is the agent's doing. *)
OwnStep(s) ==
  \/ Submit(s) \/ Admit(s) \/ ProbeDriver(s) \/ RecordAccepted(s)
  \/ AdmissionThrew(s) \/ RecordRejected(s)
  \/ StageTurn(s) \/ RecordStaged(s) \/ SubmitThrew(s)
  \/ FinishWorkspaceTurn(s) \/ RecordUnstaged(s)
  \/ AwaitDriver(s) \/ BeginRunning(s) \/ RecordStarted(s) \/ RecordNet(s)
  \/ PastePrompt(s) \/ PressEnter(s) \/ ConfirmSubmission(s)
  \/ WatchRejects(s) \/ CheckOwner(s) \/ RecordFinished(s)
  \/ Caught(s) \/ Expired(s) \/ SettleTimedOutDriver(s) \/ RecordFailed(s)
  \/ Finally(s)

TurnStep(s) == OwnStep(s) \/ ArtifactTerminal(s)
=============================================================================
