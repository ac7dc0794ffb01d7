------------------------ MODULE SessionManagerProofs ------------------------
(***************************************************************************)
(* What holds of a session key for any number of turns, calls, crashes and *)
(* failed writes: the mutation chain serializes its operations, a pane has *)
(* one turn, a turn has one verdict, and SessionManager implements         *)
(* SubmittedTurn; and when turns do not overlap, a turn keeps its driver   *)
(* and its name in session.json until its record is finished.              *)
(***************************************************************************)
EXTENDS SessionHandover, TLAPS

Writing == DOMAIN AfterWrite
Running == LockedAwait \ {"queued"}

(* A fiber whose write of session.json is pending waits for that write. *)
WritersWait == \A f \in Fiber : image[f] # NoImage => pc[f] \in Writing

(* Only the head of the chain runs. *)
HeadRuns == \A f \in Fiber : pc[f] \in Running => HoldsChain(f)

FiberTypes ==
  /\ pc \in [Fiber -> Await]
  /\ chain \in Seq(Turn \cup Control)
  /\ image \in [Fiber -> SessionFile \cup {NoImage, Called}]

FiberInv == FiberTypes /\ WritersWait /\ HeadRuns

(* How an action moves a fiber: only an operation that holds the chain goes   *)
(* to an await under it, and only a fiber with no write pending starts one.   *)
MovesTo(f, l) ==
  /\ l \in Await \ {"queued"}
  /\ Goto(f, l)
  /\ l \in Running => pc[f] \in Running \/ HoldsChain(f)
  /\ \/ image' = image /\ pc[f] \notin Writing
     \/ image' = [image EXCEPT ![f] = Called] /\ l \in Writing
     \/ image' = [image EXCEPT ![f] = NoImage]

Moves(f) == \E l \in Await : MovesTo(f, l)

-----------------------------------------------------------------------------
(* The labels, spelled out for the provers. *)
LEMMA Labels ==
  /\ Writing = {"refusing", "accepted", "rejected", "submitted", "unstagedSess", "bound",
                "released", "failedSess", "netSess", "intWriting", "intQuiet", "getWriting",
                "ctlStarting", "launched", "restored", "closeIntr", "closeQuiet", "ctlWriting"}
  /\ LockedAwait \cup Writing \subseteq Await
  /\ DOMAIN AfterFault = Writing
  /\ NoImage # Called
BY DEF Writing, AfterWrite, AfterFault, Await, NoImage, Called

(* A step of one fiber keeps the invariant of all. *)
LEMMA MovesKeep ==
  ASSUME FiberInv, NEW f \in Fiber, Moves(f)
  PROVE  FiberInv'
<1> PICK l \in Await : MovesTo(f, l)
  BY DEF Moves
<1>1. pc' \in [Fiber -> Await] /\ \A g \in Fiber : pc'[g] = IF g = f THEN l ELSE pc[g]
  BY DEF MovesTo, Goto, FiberInv, FiberTypes
<1>2. image' \in [Fiber -> SessionFile \cup {NoImage, Called}]
  BY DEF MovesTo, FiberInv, FiberTypes
<1>3. chain' \in Seq(Turn \cup Control)
  BY DEF MovesTo, Goto, HoldsChain, FiberInv, FiberTypes
<1>4. WritersWait'
  BY <1>1, Labels DEF MovesTo, FiberInv, FiberTypes, WritersWait
<1>5. HeadRuns'
  <2> SUFFICES ASSUME NEW g \in Fiber, pc'[g] \in Running
               PROVE  HoldsChain(g)'
    BY DEF HeadRuns
  <2>1. CASE g = f
    <3>1. l \in LockedAwait /\ HoldsChain(f)
      BY <2>1, <1>1 DEF MovesTo, Running, FiberInv, HeadRuns
    <3> QED BY <3>1, <2>1 DEF MovesTo, Goto, HoldsChain
  <2>2. CASE g # f
    <3>1. HoldsChain(g)
      BY <2>2, <1>1 DEF FiberInv, HeadRuns
    <3>2. chain' = chain
      BY <3>1, <2>2 DEF MovesTo, Goto, HoldsChain
    <3> QED BY <3>1, <3>2 DEF HoldsChain
  <2> QED BY <2>1, <2>2
<1> QED BY <1>1, <1>2, <1>3, <1>4, <1>5 DEF FiberInv, FiberTypes

(* withSessionMutation puts an operation at the end of the queue. *)
LEMMA JoinKeeps ==
  ASSUME FiberInv, NEW f \in Turn \cup Control, JoinChain(f), image' = image
  PROVE  FiberInv'
<1>1. f \in Fiber /\ "queued" \in Await
  BY Labels DEF Fiber, LockedAwait
<1>2. pc' \in [Fiber -> Await] /\ \A g \in Fiber : pc'[g] = IF g = f THEN "queued" ELSE pc[g]
  BY <1>1 DEF JoinChain, FiberInv, FiberTypes
<1>3. chain' \in Seq(Turn \cup Control)
  BY DEF JoinChain, FiberInv, FiberTypes
<1>4. WritersWait'
  BY <1>1, <1>2, Labels DEF JoinChain, FiberInv, WritersWait
<1>5. HeadRuns'
  <2> SUFFICES ASSUME NEW g \in Fiber, pc'[g] \in Running
               PROVE  HoldsChain(g)'
    BY DEF HeadRuns
  <2>1. chain # <<>> /\ Head(chain) = g
    BY <1>2 DEF Running, FiberInv, HeadRuns, HoldsChain
  <2>2. chain' # <<>> /\ Head(chain') = Head(chain)
    BY <2>1 DEF JoinChain, FiberInv, FiberTypes
  <2> QED BY <2>1, <2>2 DEF HoldsChain
<1> QED BY <1>2, <1>3, <1>4, <1>5 DEF FiberInv, FiberTypes

(* persistSession either starts a write or throws. *)
LEMMA PersistMoves ==
  ASSUME NEW f \in Fiber, NEW w \in Writing, NEW t \in Await \ {"queued"},
         PersistSession(f, w, t), pc[f] \notin Writing,
         w \in Running \/ t \in Running => pc[f] \in Running \/ HoldsChain(f)
  PROVE  Moves(f)
<1>1. w \in Await \ {"queued"}
  BY Labels
<1> QED BY <1>1 DEF PersistSession, Moves, MovesTo

LEMMA GotoMoves ==
  ASSUME NEW f \in Fiber, NEW l \in Await \ {"queued"}, Goto(f, l), image' = image,
         pc[f] \notin Writing, l \in Running => pc[f] \in Running \/ HoldsChain(f)
  PROVE  Moves(f)
BY DEF Moves, MovesTo

-----------------------------------------------------------------------------
(* Every action of a turn moves the turn. *)
LEMMA AdmissionMoves ==
  ASSUME FiberInv, NEW s \in Turn,
         Admit(s) \/ ProbeDriver(s) \/ RecordAccepted(s) \/ AdmissionThrew(s) \/ RecordRejected(s)
  PROVE  Moves(s)
<1> s \in Fiber
  BY DEF Fiber
<1> USE Labels DEF Await, Running, LockedAwait, Gone, Suspended
<1>1. CASE Admit(s)
  <2>1. PICK l \in {"probing", "done"} : Goto(s, l)
    BY <1>1 DEF Admit
  <2> QED BY <1>1, <2>1, GotoMoves DEF Admit
<1>2. CASE ProbeDriver(s)
  <2>1. CASE PersistSession(s, "refusing", "done")
    BY <1>2, <2>1, PersistMoves DEF ProbeDriver
  <2>2. CASE \E l \in {"done", "accepting"} : Goto(s, l) /\ image' = image
    BY <1>2, <2>2, GotoMoves DEF ProbeDriver
  <2> QED BY <1>2, <2>1, <2>2 DEF ProbeDriver
<1>3. CASE RecordAccepted(s)
  BY <1>3, PersistMoves, GotoMoves DEF RecordAccepted
<1>4. CASE AdmissionThrew(s)
  BY <1>4, GotoMoves DEF AdmissionThrew
<1>5. CASE RecordRejected(s)
  BY <1>5, PersistMoves DEF RecordRejected
<1> QED BY <1>1, <1>2, <1>3, <1>4, <1>5

LEMMA StagingMoves ==
  ASSUME FiberInv, NEW s \in Turn,
         StageTurn(s) \/ RecordStaged(s) \/ SubmitThrew(s) \/ FinishWorkspaceTurn(s)
         \/ RecordUnstaged(s)
  PROVE  Moves(s)
<1> s \in Fiber
  BY DEF Fiber
<1> USE Labels DEF Await, Running, LockedAwait, Gone, Suspended
<1>1. CASE StageTurn(s)
  BY <1>1, GotoMoves DEF StageTurn, GiveUpStaging
<1>2. CASE RecordStaged(s)
  BY <1>2, PersistMoves, GotoMoves DEF RecordStaged
<1>3. CASE SubmitThrew(s)
  BY <1>3, GotoMoves DEF SubmitThrew, GiveUpStaging
<1>4. CASE FinishWorkspaceTurn(s)
  <2>1. \E l \in {"unstagedRec", "unsentRec", "recording", "failedRec", "netRec"} : Goto(s, l)
    BY <1>4 DEF FinishWorkspaceTurn, HistoryAwait
  <2> QED BY <1>4, <2>1, GotoMoves DEF FinishWorkspaceTurn, HistoryAwait
<1>5. CASE RecordUnstaged(s)
  BY <1>5, PersistMoves, GotoMoves DEF RecordUnstaged
<1> QED BY <1>1, <1>2, <1>3, <1>4, <1>5

LEMMA ExecutionMoves ==
  ASSUME FiberInv, NEW s \in Turn,
         \/ AwaitDriver(s) \/ BeginRunning(s) \/ RecordStarted(s) \/ RecordNet(s)
         \/ PastePrompt(s) \/ PressEnter(s) \/ ConfirmSubmission(s)
         \/ WatchRejects(s) \/ ArtifactTerminal(s) \/ CheckOwner(s) \/ RecordFinished(s)
  PROVE  Moves(s)
<1> s \in Fiber
  BY DEF Fiber
<1> USE Labels DEF Await, Running, LockedAwait, Gone, Suspended
<1>1. CASE AwaitDriver(s)
  BY <1>1, GotoMoves DEF AwaitDriver, FailUnexpectedly
<1>2. CASE BeginRunning(s)
  BY <1>2, GotoMoves DEF BeginRunning
<1>3. CASE RecordStarted(s)
  BY <1>3, GotoMoves DEF RecordStarted, FailUnexpectedly
<1>4. CASE RecordNet(s)
  BY <1>4, PersistMoves DEF RecordNet
<1>5. CASE PastePrompt(s)
  BY <1>5, GotoMoves DEF PastePrompt
<1>6. CASE PressEnter(s)
  BY <1>6, GotoMoves DEF PressEnter
<1>7. CASE ConfirmSubmission(s)
  BY <1>7, PersistMoves, GotoMoves DEF ConfirmSubmission
<1>8. CASE WatchRejects(s)
  BY <1>8, GotoMoves DEF WatchRejects
<1>9. CASE ArtifactTerminal(s)
  BY <1>9, GotoMoves DEF ArtifactTerminal
<1>10. CASE CheckOwner(s)
  <2>1. \E l \in {"finishing", "stopped"} : Goto(s, l)
    BY <1>10 DEF CheckOwner
  <2> QED BY <1>10, <2>1, GotoMoves DEF CheckOwner
<1>11. CASE RecordFinished(s)
  BY <1>11, PersistMoves, GotoMoves DEF RecordFinished
<1> QED BY <1>1, <1>2, <1>3, <1>4, <1>5, <1>6, <1>7, <1>8, <1>9, <1>10, <1>11

LEMMA FailureMoves ==
  ASSUME FiberInv, NEW s \in Turn,
         Caught(s) \/ Expired(s) \/ SettleTimedOutDriver(s) \/ RecordFailed(s) \/ Finally(s)
  PROVE  Moves(s)
<1> s \in Fiber
  BY DEF Fiber
<1> USE Labels DEF Await, Running, LockedAwait, Gone, Suspended
<1>1. CASE Caught(s)
  BY <1>1, GotoMoves DEF Caught
<1>2. CASE Expired(s)
  <2>1. \E l \in {"failing", "finally", "settling"} : Goto(s, l)
    BY <1>2 DEF Expired
  <2> QED BY <1>2, <2>1, GotoMoves DEF Expired
<1>3. CASE SettleTimedOutDriver(s)
  BY <1>3, GotoMoves DEF SettleTimedOutDriver
<1>4. CASE RecordFailed(s)
  BY <1>4, PersistMoves, GotoMoves DEF RecordFailed
<1>5. CASE Finally(s)
  BY <1>5, GotoMoves DEF Finally
<1> QED BY <1>1, <1>2, <1>3, <1>4, <1>5

-----------------------------------------------------------------------------
(* So do the actions of the other calls. *)
LEMMA InterruptMoves ==
  ASSUME FiberInv, NEW f \in Interrupt \cup Control,
         (f \in Interrupt /\ CallInterrupt(f)) \/ SendEscape(f)
  PROVE  Moves(f)
<1> f \in Fiber
  BY DEF Fiber
<1> USE Labels DEF Await, Running, LockedAwait, Gone
<1>1. CASE f \in Interrupt /\ CallInterrupt(f)
  <2>1. \E w \in {"intQuiet", "intWriting"} : PersistSession(f, w, "done")
    BY <1>1 DEF CallInterrupt, MarkInterrupted
  <2> QED BY <1>1, <2>1, PersistMoves DEF CallInterrupt
<1>2. CASE SendEscape(f)
  <2>1. CASE f \in Control
    <3>1. pc[f] = "closeKey" /\ \E l \in {"closePoll", "closeWait"} : Goto(f, l)
      BY <1>2, <2>1, FibersAreDistinct DEF SendEscape
    <3> QED BY <1>2, <3>1, GotoMoves DEF SendEscape
  <2>2. CASE f \notin Control
    <3>1. pc[f] = "intKey" /\ Goto(f, "done")
      BY <1>2, <2>2 DEF SendEscape
    <3> QED BY <1>2, <3>1, GotoMoves DEF SendEscape
  <2> QED BY <2>1, <2>2
<1> QED BY <1>1, <1>2

LEMMA ControlMoves ==
  ASSUME FiberInv, NEW c \in Control,
         \/ BeginControl(c) \/ CheckAttached(c) \/ LaunchChecks(c) \/ Respawn(c)
         \/ DriverStarts(c) \/ RestorePrevious(c) \/ AwaitTurnEnd(c) \/ RecheckAttached(c)
         \/ KillPane(c) \/ AfterKill(c) \/ CloseFinishesTurn(c) \/ CloseRecordsTurn(c)
  PROVE  Moves(c)
<1> c \in Fiber
  BY DEF Fiber
<1> USE Labels DEF Await, Running, LockedAwait, Gone
<1>1. CASE BeginControl(c)
  BY <1>1, PersistMoves, GotoMoves DEF BeginControl
<1>2. CASE CheckAttached(c)
  <2>1. pc[c] = "checking"
    BY <1>2 DEF CheckAttached
  <2>2. \/ \E l \in {"done", "killing", "rechecking"} : Goto(c, l) /\ image' = image
        \/ \E w \in {"ctlStarting", "closeQuiet", "closeIntr"} : PersistSession(c, w, "done")
    BY <1>2 DEF CheckAttached, MarkInterrupted
  <2> QED BY <2>1, <2>2, PersistMoves, GotoMoves
<1>3. CASE LaunchChecks(c)
  <2>1. \E l \in {"restoring", "respawning"} : Goto(c, l)
    BY <1>3 DEF LaunchChecks
  <2> QED BY <1>3, <2>1, GotoMoves DEF LaunchChecks
<1>4. CASE Respawn(c)
  BY <1>4, GotoMoves DEF Respawn
<1>5. CASE DriverStarts(c)
  BY <1>5, PersistMoves DEF DriverStarts
<1>6. CASE RestorePrevious(c)
  BY <1>6, PersistMoves, GotoMoves DEF RestorePrevious
<1>7. CASE AwaitTurnEnd(c)
  BY <1>7, GotoMoves DEF AwaitTurnEnd
<1>8. CASE RecheckAttached(c)
  <2>1. \E l \in {"done", "killing"} : Goto(c, l)
    BY <1>8 DEF RecheckAttached
  <2> QED BY <1>8, <2>1, GotoMoves DEF RecheckAttached
<1>9. CASE KillPane(c)
  BY <1>9, GotoMoves DEF KillPane
<1>10. CASE AfterKill(c)
  BY <1>10, PersistMoves, GotoMoves DEF AfterKill
<1>11. CASE CloseFinishesTurn(c)
  BY <1>11, GotoMoves DEF CloseFinishesTurn
<1>12. CASE CloseRecordsTurn(c)
  BY <1>12, PersistMoves, GotoMoves DEF CloseRecordsTurn
<1> QED BY <1>1, <1>2, <1>3, <1>4, <1>5, <1>6, <1>7, <1>8, <1>9, <1>10, <1>11, <1>12

-----------------------------------------------------------------------------
(* The end of a write leads out of the chain, or deeper into it. *)
LEMMA NextLabels ==
  ASSUME NEW w \in Writing
  PROVE  /\ AfterWrite[w] \in Await \ {"queued"}
         /\ AfterFault[w] \in Await \ {"queued"}
         /\ AfterWrite[w] \in Running => w \in Running
         /\ AfterFault[w] \in Running => w \in Running
<1>1. /\ AfterWrite[w] \in Await \ {"queued"}
      /\ AfterWrite[w] \in Running => w \in Running
  BY Labels DEF AfterWrite, Await, Running, LockedAwait, Gone
<1>2. /\ AfterFault[w] \in Await \ {"queued"}
      /\ AfterFault[w] \in Running => w \in Running
  <2>1. \/ AfterFault[w] \in {AfterWrite[w], "submitThrew", "caught", "done"}
        \/ w \in {"accepted", "launched"} /\ AfterFault[w] \in {"admitThrew", "restoring"}
    BY Labels DEF AfterFault, Writing
  <2> QED BY <1>1, <2>1, Labels DEF Await, Running, LockedAwait, Gone
<1> QED BY <1>1, <1>2

LEMMA WriteMoves ==
  ASSUME FiberInv, NEW f \in Fiber, SessionWritten(f) \/ SessionWriteFails(f)
  PROVE  Moves(f)
<1>1. pc[f] \in Writing
  BY DEF FiberInv, WritersWait, SessionWritten, SessionWriteFails
<1>2. image' = [image EXCEPT ![f] = NoImage]
  BY DEF SessionWritten, SessionWriteFails
<1>3. PICK l \in {AfterWrite[pc[f]], AfterFault[pc[f]]} : Goto(f, l)
  BY DEF SessionWritten, SessionWriteFails
<1> QED BY <1>1, <1>2, <1>3, NextLabels DEF Moves, MovesTo

-----------------------------------------------------------------------------
(* The types of everything else. *)
MemoryTypes ==
  /\ up \in Phase
  /\ cur \in Incarnation
  /\ session \in [Incarnation -> SessionObject]
  /\ active \in Turn \cup {None}
  /\ record \in [Turn -> Recorded]
  /\ interrupted \in [Turn -> BOOLEAN]

CallTypes ==
  /\ holds \in [Fiber -> Incarnation]
  /\ plan \in [Turn -> Plan]
  /\ op \in [Control -> [kind : Kind, prev : BusyStatus \cup IdleStatus]]
  /\ target \in [Interrupt \cup Control -> Turn \cup {None}]

DiskTypes ==
  /\ diskSession \in SessionFile
  /\ diskRecord \in [Turn -> Recorded \cup {None}]
  /\ history \in [Turn -> Recorded \cup {None}]

PaneTypes ==
  /\ pane \in [Incarnation -> {"none", "alive", "dead"}]
  /\ attached \subseteq Incarnation
  /\ driving \in [Incarnation -> Turn \cup {None}]
  /\ escaped \subseteq Turn \cup {None}
  /\ handed \subseteq Turn /\ displaced \subseteq Turn /\ overtaken \subseteq Turn

CountTypes ==
  /\ crashes \in Nat /\ writeFaults \in Nat
  /\ crashes + writeFaults <= MaxFaults
  /\ historyFaults \in 0..MaxHistoryFaults

DataTypes == MemoryTypes /\ CallTypes /\ DiskTypes /\ PaneTypes /\ CountTypes

LEMMA SessionTyped ==
  ASSUME MemoryTypes, NEW i \in Incarnation, NEW status \in BusyStatus \cup IdleStatus,
         NEW entry \in Turn \cup {None}, SetSession(i, status, entry)
  PROVE  session' \in [Incarnation -> SessionObject]
BY DEF MemoryTypes, SetSession, SessionObject

LEMMA ObjectTyped ==
  ASSUME MemoryTypes, NEW i \in Incarnation
  PROVE  session[i].status \in BusyStatus \cup IdleStatus /\ session[i].active \in Turn \cup {None}
BY DEF MemoryTypes, SessionObject

LEMMA PlanTyped ==
  ASSUME CallTypes, NEW s \in Turn, NEW fate \in Recorded,
         NEW next \in {"ready", "auth_required", "attention_required"}, SetPlan(s, fate, next)
  PROVE  plan' \in [Turn -> Plan] /\ plan'[s].fate = fate /\ plan'[s].next = next
BY DEF CallTypes, SetPlan, Plan

LEMMA HeldPlan ==
  ASSUME CallTypes, NEW s \in Turn
  PROVE  /\ plan[s].fate \in Recorded
         /\ plan[s].next \in {"ready", "auth_required", "attention_required"}
         /\ \A fate \in Recorded : [plan EXCEPT ![s].fate = fate] \in [Turn -> Plan]
BY DEF CallTypes, Plan

LEMMA FinishTyped ==
  ASSUME DiskTypes, CountTypes, NEW s, NEW fate, s \in Turn => fate \in Recorded,
         FinishTurn(s, fate)
  PROVE  /\ history' \in [Turn -> Recorded \cup {None}]
         /\ historyFaults' \in 0..MaxHistoryFaults
         /\ s \in Turn => FinishedAs(s, fate) \in Recorded
BY BoundsAreNaturals DEF DiskTypes, CountTypes, FinishTurn, FirstRecord, FinishedAs

LEMMA FaultTyped ==
  ASSUME CountTypes, Fault
  PROVE  writeFaults' \in Nat /\ crashes + writeFaults' <= MaxFaults
BY BoundsAreNaturals DEF CountTypes, Fault

LEMMA OpTyped ==
  ASSUME CallTypes, NEW c \in Control,
         \/ \E kind \in Kind : op' = [op EXCEPT ![c] = [kind |-> kind, prev |-> "closed"]]
         \/ \E status \in BusyStatus \cup IdleStatus : op' = [op EXCEPT ![c].prev = status]
         \/ op' = op
  PROVE  op' \in [Control -> [kind : Kind, prev : BusyStatus \cup IdleStatus]]
BY DEF CallTypes, IdleStatus

LEMMA RecordTyped ==
  ASSUME DiskTypes, NEW s, NEW status, s \in Turn => status \in Recorded,
         RecordWritten(s, status)
  PROVE  diskRecord' \in [Turn -> Recorded \cup {None}]
BY DEF DiskTypes, RecordWritten

LEMMA EscapeTyped ==
  ASSUME PaneTypes, NEW i \in Incarnation, Escape(i)
  PROVE  driving' \in [Incarnation -> Turn \cup {None}]
BY DEF PaneTypes, Escape

(* failUnexpectedExecution settles memory before anything is written. *)
LEMMA FailTyped ==
  ASSUME MemoryTypes, CallTypes, NEW s \in Turn,
         NEW next \in {"auth_required", "attention_required"}, FailUnexpectedly(s, next)
  PROVE  /\ session' \in [Incarnation -> SessionObject]
         /\ active' \in Turn \cup {None}
         /\ record' \in [Turn -> Recorded]
         /\ plan' \in [Turn -> Plan]
<1>1. CASE active # s
  BY <1>1 DEF FailUnexpectedly, MemoryTypes, CallTypes
<1>2. CASE active = s
  <2>1. PICK fate \in {"interrupted", "failed"}, after \in {"ready", next} : SetPlan(s, fate, after)
    BY <1>2 DEF FailUnexpectedly
  <2>2. plan' \in [Turn -> Plan] /\ plan'[s].fate \in Recorded /\ plan'[s].next = after
    BY <2>1, PlanTyped DEF Recorded, Terminal, Unfinished
  <2>3. holds[s] \in Incarnation /\ after \in BusyStatus \cup IdleStatus
    BY DEF CallTypes, Fiber, BusyStatus, IdleStatus
  <2>4. session' \in [Incarnation -> SessionObject]
    BY <1>2, <2>2, <2>3, SessionTyped DEF FailUnexpectedly
  <2>5. active' \in Turn \cup {None} /\ record' \in [Turn -> Recorded]
    BY <1>2, <2>2 DEF FailUnexpectedly, MemoryTypes
  <2> QED BY <2>2, <2>4, <2>5
<1> QED BY <1>1, <1>2

LEMMA AdmissionTypes ==
  ASSUME DataTypes, NEW s \in Turn,
         Admit(s) \/ ProbeDriver(s) \/ RecordAccepted(s) \/ AdmissionThrew(s) \/ RecordRejected(s)
  PROVE  DataTypes'
<1> s \in Fiber
  BY DEF Fiber
<1> USE DEF DataTypes, MemoryTypes, CallTypes, DiskTypes, PaneTypes, CountTypes,
        unchangedByTurns, unchangedByEntries, DeleteEntry, diskVars, tmuxVars, marks, faultVars, SetStatus, PlanFailure, RecordFails,
        BusyStatus, IdleStatus, Recorded, Terminal, Unfinished
<1>1. CASE Admit(s)
  BY <1>1, FaultTyped DEF Admit
<1>2. CASE ProbeDriver(s)
  BY <1>2, SessionTyped, ObjectTyped, FaultTyped DEF ProbeDriver
<1>3. CASE RecordAccepted(s)
  BY <1>3, FaultTyped, RecordTyped DEF RecordAccepted
<1>4. CASE AdmissionThrew(s)
  BY <1>4, FaultTyped DEF AdmissionThrew
<1>5. CASE RecordRejected(s)
  BY <1>5, SessionTyped, ObjectTyped, FaultTyped, RecordTyped DEF RecordRejected
<1> QED BY <1>1, <1>2, <1>3, <1>4, <1>5

LEMMA StagingTypes ==
  ASSUME DataTypes, NEW s \in Turn,
         \/ StageTurn(s) \/ RecordStaged(s) \/ SubmitThrew(s) \/ FinishWorkspaceTurn(s)
         \/ RecordUnstaged(s)
  PROVE  DataTypes'
<1> s \in Fiber
  BY DEF Fiber
<1> USE DEF DataTypes, MemoryTypes, CallTypes, DiskTypes, PaneTypes, CountTypes,
        unchangedByTurns, unchangedByEntries, DeleteEntry, diskVars, tmuxVars, marks, faultVars, SetStatus, PlanFailure, RecordFails,
        BusyStatus, IdleStatus, Recorded, Terminal, Unfinished
<1>1. CASE StageTurn(s)
  BY <1>1, SessionTyped, ObjectTyped, PlanTyped, FaultTyped DEF StageTurn, GiveUpStaging
<1>2. CASE RecordStaged(s)
  BY <1>2, FaultTyped, RecordTyped DEF RecordStaged
<1>3. CASE SubmitThrew(s)
  BY <1>3, PlanTyped, FaultTyped DEF SubmitThrew, GiveUpStaging
<1>4. CASE FinishWorkspaceTurn(s)
  BY <1>4, HeldPlan, FinishTyped, FaultTyped DEF FinishWorkspaceTurn
<1>5. CASE RecordUnstaged(s)
  BY <1>5, SessionTyped, ObjectTyped, HeldPlan, FaultTyped, RecordTyped DEF RecordUnstaged
<1> QED BY <1>1, <1>2, <1>3, <1>4, <1>5

LEMMA ExecutionTypes ==
  ASSUME DataTypes, NEW s \in Turn,
         \/ AwaitDriver(s) \/ BeginRunning(s) \/ RecordStarted(s) \/ RecordNet(s)
         \/ PastePrompt(s) \/ PressEnter(s) \/ ConfirmSubmission(s) \/ WatchRejects(s)
         \/ ArtifactTerminal(s) \/ CheckOwner(s) \/ RecordFinished(s)
  PROVE  DataTypes'
<1> s \in Fiber
  BY DEF Fiber
<1> USE DEF DataTypes, MemoryTypes, CallTypes, DiskTypes, PaneTypes, CountTypes,
        unchangedByTurns, unchangedByEntries, DeleteEntry, diskVars, tmuxVars, marks, faultVars, SetStatus, PlanFailure, RecordFails,
        BusyStatus, IdleStatus, Recorded, Terminal, Unfinished
<1>1. CASE AwaitDriver(s)
  BY <1>1, FailTyped, SessionTyped, ObjectTyped, FaultTyped DEF AwaitDriver
<1>2. CASE BeginRunning(s)
  BY <1>2, FaultTyped DEF BeginRunning
<1>3. CASE RecordStarted(s)
  BY <1>3, FailTyped, SessionTyped, ObjectTyped, RecordTyped, FaultTyped DEF RecordStarted
<1>4. CASE RecordNet(s)
  BY <1>4, HeldPlan, RecordTyped, FaultTyped DEF RecordNet
<1>5. CASE PastePrompt(s)
  BY <1>5, FaultTyped DEF PastePrompt
<1>6. CASE PressEnter(s)
  BY <1>6, FaultTyped DEF PressEnter
<1>7. CASE ConfirmSubmission(s)
  BY <1>7, SessionTyped, ObjectTyped, FaultTyped DEF ConfirmSubmission
<1>8. CASE WatchRejects(s)
  BY <1>8, FaultTyped DEF WatchRejects
<1>9. CASE ArtifactTerminal(s)
  BY <1>9, PlanTyped, FaultTyped DEF ArtifactTerminal
<1>10. CASE CheckOwner(s)
  BY <1>10, FaultTyped DEF CheckOwner
<1>11. CASE RecordFinished(s)
  BY <1>11, SessionTyped, ObjectTyped, HeldPlan, FaultTyped, RecordTyped DEF RecordFinished
<1> QED BY <1>1, <1>2, <1>3, <1>4, <1>5, <1>6, <1>7, <1>8, <1>9, <1>10, <1>11

LEMMA FailureTypes ==
  ASSUME DataTypes, NEW s \in Turn,
         \/ Caught(s) \/ Expired(s) \/ SettleTimedOutDriver(s) \/ RecordFailed(s)
         \/ Finally(s)
  PROVE  DataTypes'
<1> s \in Fiber
  BY DEF Fiber
<1> USE DEF DataTypes, MemoryTypes, CallTypes, DiskTypes, PaneTypes, CountTypes,
        unchangedByTurns, unchangedByEntries, DeleteEntry, diskVars, tmuxVars, marks, faultVars, SetStatus, PlanFailure, RecordFails,
        BusyStatus, IdleStatus, Recorded, Terminal, Unfinished
<1>1. CASE Caught(s)
  BY <1>1, PlanTyped, FaultTyped DEF Caught
<1>2. CASE Expired(s)
  BY <1>2, PlanTyped, FaultTyped, EscapeTyped DEF Expired
<1>3. CASE SettleTimedOutDriver(s)
  BY <1>3, HeldPlan, PlanTyped, FaultTyped DEF SettleTimedOutDriver
<1>4. CASE RecordFailed(s)
  BY <1>4, SessionTyped, ObjectTyped, HeldPlan, FaultTyped, RecordTyped DEF RecordFailed
<1>5. CASE Finally(s)
  BY <1>5, FaultTyped DEF Finally
<1> QED BY <1>1, <1>2, <1>3, <1>4, <1>5

LEMMA ControlTypes ==
  ASSUME DataTypes, NEW c \in Control,
         \/ CallControl(c) \/ BeginControl(c) \/ CheckAttached(c) \/ LaunchChecks(c)
         \/ Respawn(c) \/ DriverStarts(c) \/ RestorePrevious(c) \/ AwaitTurnEnd(c)
         \/ RecheckAttached(c) \/ KillPane(c) \/ AfterKill(c) \/ CloseFinishesTurn(c)
         \/ CloseRecordsTurn(c)
  PROVE  DataTypes'
<1> c \in Fiber
  BY DEF Fiber
<1> USE DEF DataTypes, MemoryTypes, CallTypes, DiskTypes, PaneTypes, CountTypes,
        unchangedByTurns, unchangedByEntries, DeleteEntry, diskVars, tmuxVars, marks, faultVars, SetStatus, PlanFailure, RecordFails,
        BusyStatus, IdleStatus, Recorded, Terminal, Unfinished
<1>1. CASE CallControl(c)
  <2>1. MemoryTypes'
    BY <1>1 DEF CallControl
  <2>2. CallTypes'
    <3>1. op' \in [Control -> [kind : Kind, prev : BusyStatus \cup IdleStatus]]
      BY <1>1, OpTyped DEF CallControl, Kind
    <3> QED BY <1>1, <3>1 DEF CallControl
  <2>3. DiskTypes'
    BY <1>1 DEF CallControl
  <2>4. PaneTypes'
    BY <1>1 DEF CallControl
  <2>5. CountTypes'
    BY <1>1 DEF CallControl
  <2> QED BY <2>1, <2>2, <2>3, <2>4, <2>5
<1>2. CASE BeginControl(c)
  <2>0. cur' \in Incarnation /\ active' = active
    BY <1>2, BoundsAreNaturals DEF BeginControl, Incarnation
  <2>1. MemoryTypes'
    <3>1. session' \in [Incarnation -> SessionObject]
      BY <1>2, <2>0, SessionTyped DEF BeginControl
    <3> QED BY <1>2, <2>0, <3>1 DEF BeginControl
  <2>2. CallTypes'
    <3>1. \E i \in Incarnation : holds' = [holds EXCEPT ![c] = i]
      BY <1>2, <2>0 DEF BeginControl
    <3> QED BY <1>2, <3>1 DEF BeginControl
  <2>3. DiskTypes'
    BY <1>2 DEF BeginControl
  <2>4. PaneTypes'
    BY <1>2 DEF BeginControl
  <2>5. CountTypes'
    BY <1>2 DEF BeginControl
  <2> QED BY <2>1, <2>2, <2>3, <2>4, <2>5
<1>3. CASE CheckAttached(c)
  <2>1. MemoryTypes'
    BY <1>3, SessionTyped, ObjectTyped DEF CheckAttached, MarkInterrupted
  <2>2. CallTypes'
    <3>1. op' \in [Control -> [kind : Kind, prev : BusyStatus \cup IdleStatus]]
      BY <1>3, OpTyped, ObjectTyped DEF CheckAttached, MarkInterrupted
    <3>2. target' \in [Interrupt \cup Control -> Turn \cup {None}]
      BY <1>3 DEF CheckAttached, MarkInterrupted
    <3> QED BY <1>3, <3>1, <3>2 DEF CheckAttached, MarkInterrupted
  <2>3. DiskTypes'
    BY <1>3 DEF CheckAttached, MarkInterrupted
  <2>4. PaneTypes'
    BY <1>3 DEF CheckAttached, MarkInterrupted
  <2>5. CountTypes'
    BY <1>3 DEF CheckAttached, MarkInterrupted
  <2> QED BY <2>1, <2>2, <2>3, <2>4, <2>5
<1>4. CASE LaunchChecks(c)
  BY <1>4 DEF LaunchChecks
<1>5. CASE Respawn(c)
  BY <1>5, FaultTyped DEF Respawn
<1>6. CASE DriverStarts(c)
  BY <1>6, SessionTyped, ObjectTyped DEF DriverStarts
<1>7. CASE RestorePrevious(c)
  BY <1>7, SessionTyped, ObjectTyped DEF RestorePrevious
<1>8. CASE AwaitTurnEnd(c)
  BY <1>8 DEF AwaitTurnEnd
<1>9. CASE RecheckAttached(c)
  BY <1>9 DEF RecheckAttached
<1>10. CASE KillPane(c)
  BY <1>10 DEF KillPane
<1>11. CASE AfterKill(c)
  <2>1. MemoryTypes'
    <3>1. session' \in [Incarnation -> SessionObject]
      BY <1>11, SessionTyped, ObjectTyped DEF AfterKill
    <3>2. UNCHANGED <<up, cur, active>>
      BY <1>11 DEF AfterKill
    <3>3. \/ UNCHANGED <<record, interrupted>>
          \/ /\ record' = [record EXCEPT ![active] = "interrupted"]
             /\ interrupted' = [interrupted EXCEPT ![active] = TRUE]
      BY <1>11 DEF AfterKill
    <3>4. record' \in [Turn -> Recorded] /\ interrupted' \in [Turn -> BOOLEAN]
      BY <3>3
    <3> QED BY <3>1, <3>2, <3>4
  <2> QED BY <1>11, <2>1 DEF AfterKill
<1>12. CASE CloseFinishesTurn(c)
  BY <1>12, FinishTyped, FaultTyped DEF CloseFinishesTurn
<1>13. CASE CloseRecordsTurn(c)
  BY <1>13, SessionTyped, ObjectTyped, RecordTyped, FaultTyped DEF CloseRecordsTurn
<1> QED BY <1>1, <1>2, <1>3, <1>4, <1>5, <1>6, <1>7, <1>8, <1>9, <1>10, <1>11, <1>12, <1>13

LEMMA InterruptTypes ==
  ASSUME DataTypes, NEW f \in Interrupt \cup Control,
         (f \in Interrupt /\ CallInterrupt(f)) \/ SendEscape(f)
  PROVE  DataTypes'
<1> f \in Fiber
  BY DEF Fiber
<1> USE DEF DataTypes, MemoryTypes, CallTypes, DiskTypes, PaneTypes, CountTypes,
        diskVars, tmuxVars, marks, faultVars, BusyStatus, IdleStatus
<1>1. CASE f \in Interrupt /\ CallInterrupt(f)
  BY <1>1, SessionTyped, ObjectTyped DEF CallInterrupt, MarkInterrupted
<1>2. CASE SendEscape(f)
  <2>1. driving' \in [Incarnation -> Turn \cup {None}] /\ escaped' \subseteq Turn \cup {None}
    BY <1>2, EscapeTyped DEF SendEscape
  <2> QED BY <1>2, <2>1 DEF SendEscape
<1> QED BY <1>1, <1>2

LEMMA LookupTypes ==
  ASSUME DataTypes, NEW g \in Lookup, LookupStep(g)
  PROVE  DataTypes'
<1> g \in Fiber
  BY DEF Fiber
<1> USE DEF DataTypes, MemoryTypes, CallTypes, DiskTypes, PaneTypes, CountTypes,
        diskVars, tmuxVars, marks, faultVars, BusyStatus, IdleStatus
<1>1. CASE CallGet(g)
  BY <1>1 DEF CallGet
<1>2. CASE LookAtDriver(g)
  BY <1>2, SessionTyped, ObjectTyped DEF LookAtDriver, SetStatus
<1> QED BY <1>1, <1>2 DEF LookupStep

LEMMA WriteTypes ==
  ASSUME DataTypes, FiberTypes, NEW f \in Fiber, SessionWritten(f) \/ SessionWriteFails(f)
  PROVE  DataTypes'
<1> USE DEF DataTypes, MemoryTypes, CallTypes, DiskTypes, PaneTypes, CountTypes,
        diskVars, tmuxVars, marks, faultVars
<1>1. CASE SessionWritten(f)
  <2>1. diskSession' \in SessionFile
    BY <1>1 DEF SessionWritten, FiberTypes
  <2> QED BY <1>1, <2>1 DEF SessionWritten
<1>2. CASE SessionWriteFails(f)
  BY <1>2, FaultTyped DEF SessionWriteFails
<1> QED BY <1>1, <1>2

LEMMA PaneStepTypes ==
  ASSUME DataTypes, NEW i \in Incarnation, PaneStep(i)
  PROVE  DataTypes'
BY DEF PaneStep, DriverDies, AgentFinishes, Attach, Detach, unchangedByTmux, marks, memoryVars, fiberVars,
       DataTypes, MemoryTypes, CallTypes, DiskTypes, PaneTypes, CountTypes, diskVars, faultVars

(* The loss of the process and what init makes of the files. *)
LEMMA BootTypes ==
  ASSUME DataTypes, Crash \/ BootStep
  PROVE  DataTypes'
<1> USE DEF DataTypes, MemoryTypes, CallTypes, DiskTypes, PaneTypes, CountTypes,
        fiberVars, diskVars, tmuxVars, marks, faultVars, Phase, BusyStatus, IdleStatus
<1>1. CASE Crash
  BY <1>1, BoundsAreNaturals DEF Crash
<1>2. CASE Boot
  <2>1. diskSession.inc \in Incarnation
        /\ [status |-> diskSession.status, active |-> diskSession.active] \in SessionObject
    BY DEF SessionFile, SessionObject
  <2>2. session' \in [Incarnation -> SessionObject]
    BY <1>2, <2>1 DEF Boot
  <2>3. up' \in Phase /\ cur' \in Incarnation
    BY <1>2, <2>1 DEF Boot
  <2> QED BY <1>2, <2>2, <2>3 DEF Boot
<1>3. CASE BootFinishesTurn
  <2>1. "failed" \in Recorded
    BY DEF Recorded, Terminal
  <2>2. /\ history' \in [Turn -> Recorded \cup {None}]
        /\ historyFaults' \in 0..MaxHistoryFaults
        /\ record' \in [Turn -> Recorded]
    BY <1>3, <2>1, FinishTyped DEF BootFinishesTurn
  <2> QED BY <1>3, <2>2 DEF BootFinishesTurn
<1>4. CASE BootRecordsTurn
  BY <1>4, RecordTyped DEF BootRecordsTurn
<1>5. CASE BootSavesSession
  <2>1. PICK status \in {"ready", "attention_required"} : SetSession(cur, status, None)
    BY <1>5 DEF BootSavesSession
  <2>2. session' \in [Incarnation -> SessionObject]
    BY <2>1, SessionTyped
  <2>3. diskSession' \in SessionFile
    BY <1>5, <2>2 DEF BootSavesSession, SessionFile, SessionObject
  <2> QED BY <1>5, <2>2, <2>3 DEF BootSavesSession
<1>6. CASE \E i \in Incarnation : Reconcile(i)
  BY <1>6 DEF Reconcile, unchangedByTmux, memoryVars
<1>7. CASE Serve
  BY <1>7 DEF Serve
<1> QED BY <1>1, <1>2, <1>3, <1>4, <1>5, <1>6, <1>7 DEF BootStep

-----------------------------------------------------------------------------
(* The inductive invariant: types, the two facts about fibers, and nothing more. *)
IInv == FiberInv /\ DataTypes

LEMMA InvImpliesTypeOK == IInv => TypeOK
BY DEF IInv, FiberInv, FiberTypes, DataTypes, MemoryTypes, CallTypes, DiskTypes, PaneTypes,
       CountTypes, TypeOK

LEMMA InitInv == Init => IInv
<1> SUFFICES ASSUME Init PROVE IInv
  OBVIOUS
<1>1. FiberTypes /\ WritersWait /\ HeadRuns
  BY DEF Init, FiberTypes, WritersWait, HeadRuns, Await, Gone, LockedAwait, Running
<1>2. MemoryTypes
  <2>1. [status |-> "ready", active |-> None] \in SessionObject
        /\ [status |-> "closed", active |-> None] \in SessionObject
    BY DEF SessionObject, IdleStatus
  <2>2. session \in [Incarnation -> SessionObject]
    BY <2>1 DEF Init
  <2>3. cur \in Incarnation
    BY BoundsAreNaturals DEF Init, Incarnation
  <2> QED BY <2>2, <2>3 DEF Init, MemoryTypes, Phase, Recorded, Unfinished
<1>3. CallTypes
  <2>1. 1 \in Incarnation
    BY BoundsAreNaturals DEF Incarnation
  <2>2. [fate |-> "failed", next |-> "attention_required"] \in Plan
    BY DEF Plan, Recorded, Terminal
  <2>3. [kind |-> "close", prev |-> "closed"] \in [kind : Kind, prev : BusyStatus \cup IdleStatus]
    BY DEF Kind, IdleStatus
  <2> QED BY <2>1, <2>2, <2>3 DEF Init, CallTypes
<1>4. DiskTypes
  BY BoundsAreNaturals DEF Init, DiskTypes, SessionFile, Incarnation, IdleStatus
<1>5. PaneTypes /\ CountTypes
  BY BoundsAreNaturals DEF Init, PaneTypes, CountTypes, vacant, Incarnation
<1> QED BY <1>1, <1>2, <1>3, <1>4, <1>5 DEF IInv, FiberInv, DataTypes

(* A step that is not a fiber's own leaves the fibers alone, or loses them all. *)
LEMMA OtherStepsKeep ==
  ASSUME FiberInv, Crash \/ BootStep \/ \E i \in Incarnation : PaneStep(i)
  PROVE  FiberInv'
<1>1. CASE Crash
  <2>1. pc' \in [Fiber -> Await] /\ \A f \in Fiber : pc'[f] \notin Running
    BY <1>1 DEF Crash, Await, Gone, Running, LockedAwait, FiberInv, FiberTypes
  <2> QED BY <1>1, <2>1 DEF Crash, FiberInv, FiberTypes, WritersWait, HeadRuns
<1>2. CASE BootStep \/ \E i \in Incarnation : PaneStep(i)
  <2>1. UNCHANGED <<pc, chain, image>>
    BY <1>2 DEF BootStep, Boot, BootFinishesTurn, BootRecordsTurn, BootSavesSession, Reconcile,
       Serve, PaneStep, DriverDies, AgentFinishes, Attach, Detach, unchangedByTmux, memoryVars,
       fiberVars
  <2> QED BY <2>1 DEF FiberInv, FiberTypes, WritersWait, HeadRuns, HoldsChain
<1> QED BY <1>1, <1>2

LEMMA LookupMoves ==
  ASSUME FiberInv, NEW g \in Lookup, LookupStep(g)
  PROVE  Moves(g)
<1> g \in Fiber
  BY DEF Fiber
<1> USE Labels DEF Await, Running, LockedAwait, Gone
<1>1. CASE CallGet(g)
  BY <1>1, GotoMoves DEF CallGet
<1>2. CASE LookAtDriver(g)
  BY <1>2, PersistMoves, GotoMoves DEF LookAtDriver
<1> QED BY <1>1, <1>2 DEF LookupStep

(* persistSession serializes the object it finds when it gets to it. *)
LEMMA SerializeKeeps ==
  ASSUME IInv, NEW f \in Fiber, Serialize(f)
  PROVE  IInv'
<1>1. image'[f] \in SessionFile /\ image' \in [Fiber -> SessionFile \cup {NoImage, Called}]
  BY ObjectTyped DEF Serialize, IInv, FiberInv, FiberTypes, DataTypes, CallTypes, SessionFile
<1>2. FiberInv'
  BY <1>1, Labels DEF Serialize, IInv, FiberInv, FiberTypes, WritersWait, HeadRuns, HoldsChain,
     memoryVars
<1>3. DataTypes'
  BY DEF Serialize, IInv, DataTypes, MemoryTypes, CallTypes, DiskTypes, PaneTypes, CountTypes,
     memoryVars, diskVars, tmuxVars, marks, faultVars
<1> QED BY <1>2, <1>3 DEF IInv

LEMMA TurnKeeps ==
  ASSUME IInv, NEW s \in Turn, TurnStep(s)
  PROVE  IInv'
<1> s \in Fiber
  BY DEF Fiber
<1>1. FiberInv /\ DataTypes
  BY DEF IInv
<1>2. CASE Submit(s)
  <2>1. FiberInv'
    BY <1>1, <1>2, JoinKeeps DEF Submit
  <2>2. DataTypes'
    BY <1>1, <1>2 DEF Submit, DataTypes, MemoryTypes, CallTypes, DiskTypes, PaneTypes, CountTypes,
       diskVars, tmuxVars, marks, faultVars
  <2> QED BY <2>1, <2>2 DEF IInv
<1>3. CASE ~Submit(s)
  <2>1. Moves(s)
    BY <1>1, <1>3, AdmissionMoves, StagingMoves, ExecutionMoves, FailureMoves DEF TurnStep, OwnStep
  <2>2. DataTypes'
    BY <1>1, <1>3, AdmissionTypes, StagingTypes, ExecutionTypes, FailureTypes DEF TurnStep, OwnStep
  <2> QED BY <1>1, <2>1, <2>2, MovesKeep DEF IInv
<1> QED BY <1>2, <1>3

LEMMA ControlKeeps ==
  ASSUME IInv, NEW c \in Control, ControlStep(c)
  PROVE  IInv'
<1> c \in Fiber
  BY DEF Fiber
<1>1. FiberInv /\ DataTypes
  BY DEF IInv
<1>2. DataTypes'
  BY <1>1, ControlTypes DEF ControlStep
<1>3. CASE CallControl(c)
  BY <1>1, <1>2, <1>3, JoinKeeps DEF CallControl, IInv
<1>4. CASE ~CallControl(c)
  BY <1>1, <1>2, <1>4, ControlMoves, MovesKeep DEF ControlStep, IInv
<1> QED BY <1>3, <1>4

LEMMA StepInv == IInv /\ [Next]_vars => IInv'
<1> SUFFICES ASSUME IInv, [Next]_vars
             PROVE  IInv'
  OBVIOUS
<1>1. FiberInv /\ DataTypes /\ FiberTypes
  BY DEF IInv, FiberInv
<1>2. CASE \E s \in Turn : TurnStep(s)
  BY <1>2, TurnKeeps
<1>3. CASE \E f \in Interrupt : InterruptStep(f)
  <2>1. PICK f \in Interrupt : InterruptStep(f)
    BY <1>3
  <2>2. Moves(f) /\ DataTypes' /\ f \in Fiber
    BY <1>1, <2>1, InterruptMoves, InterruptTypes DEF InterruptStep, Fiber
  <2> QED BY <1>1, <2>2, MovesKeep DEF IInv
<1>4. CASE \E c \in Control : ControlStep(c) \/ SendEscape(c)
  <2>1. PICK c \in Control : ControlStep(c) \/ SendEscape(c)
    BY <1>4
  <2>2. CASE SendEscape(c)
    BY <1>1, <2>2, InterruptMoves, InterruptTypes, MovesKeep DEF IInv, Fiber
  <2> QED BY <2>1, <2>2, ControlKeeps
<1>5. CASE \E g \in Lookup : LookupStep(g)
  BY <1>1, <1>5, LookupMoves, LookupTypes, MovesKeep DEF IInv, Fiber
<1>6. CASE \E f \in Fiber : WriteStep(f)
  BY <1>1, <1>6, SerializeKeeps, WriteMoves, WriteTypes, MovesKeep DEF IInv, WriteStep
<1>7. CASE Crash \/ BootStep \/ \E i \in Incarnation : PaneStep(i)
  BY <1>1, <1>7, OtherStepsKeep, BootTypes, PaneStepTypes DEF IInv
<1>8. CASE UNCHANGED vars
  BY <1>8 DEF vars, memoryVars, fiberVars, diskVars, tmuxVars, marks, faultVars, IInv, FiberInv,
     FiberTypes, WritersWait, HeadRuns, HoldsChain, DataTypes, MemoryTypes, CallTypes, DiskTypes,
     PaneTypes, CountTypes
<1> QED BY <1>2, <1>3, <1>4, <1>5, <1>6, <1>7, <1>8 DEF Next

LEMMA InvHolds == Spec => []IInv
BY InitInv, StepInv, PTL DEF Spec

-----------------------------------------------------------------------------
(* Type correctness: for every number of calls, incarnations, crashes and     *)
(* failures, the state of a key stays within its types.                       *)
THEOREM TypeCorrect == Spec => []TypeOK
BY InvHolds, InvImpliesTypeOK, PTL

(* withSessionMutation does its work: whatever the callers, the crashes and the *)
(* failed writes, at most one create, restart, release, close or admission of   *)
(* a key is past the queue, because it is the head of the chain.                *)
THEOREM MutationsAreSerialized == Spec => []Serialized
<1>1. IInv => Serialized
  BY DEF IInv, FiberInv, HeadRuns, Running, HoldsChain, Serialized, Fiber
<1> QED BY <1>1, InvHolds, PTL

-----------------------------------------------------------------------------
(* One turn per pane.  A turn has reserved the session from its admission until *)
(* it has given it back; while it has, session.json would name it, whatever the *)
(* entry of the active map says, and nobody is about to launch a driver or to    *)
(* admit another turn.                                                          *)
Reserving ==
  {"accepting", "accepted", "admitThrew", "rejecting", "staging", "staged", "submitted",
   "submitThrew", "unstaging", "unstagedRec", "unsending", "unsentRec", "exec", "baseline",
   "starting", "pasting", "echoing", "confirming", "bound", "watching", "expired", "settling",
   "settled", "finishing", "recording", "caught", "stopped", "failing", "failedRec"}
Launching ==
  {"ctlStarting", "launching", "respawning", "booting", "launched", "restoring", "restored"}
Exclusive == Launching \cup {"probing"}

Taken(object, s) ==
  object.active = s /\ object.status \in BusyStatus \cup {"stopped", "starting"}

Reservation ==
  \A s \in Turn : pc[s] \in Reserving =>
    Taken(session[1], s) /\ \A f \in Fiber : pc[f] \notin Exclusive

(* Without a close the key has one incarnation, which is never closed. *)
Open ==
  /\ cur = 1 /\ session[1].status # "closed"
  /\ \A f \in Fiber : holds[f] = 1
  /\ diskSession.inc = 1 /\ diskSession.status # "closed"
  /\ \A f \in Fiber : image[f] \notin {NoImage, Called} =>
                        image[f].inc = 1 /\ image[f].status # "closed"
  /\ \A c \in Control : /\ pc[c] \in Launching => op[c].prev # "closed"
                        /\ pc[c] \notin {"closeTurn", "closeRec"}

Unserved == up # "serving" => \A f \in Fiber : pc[f] \in Gone

PaneInv == IInv /\ Open /\ Unserved /\ Reservation

Calm == NobodyCloses /\ writeFaults = 0

(* What a step of turn t does: it keeps its reservation to itself, and leaves *)
(* the one of another turn alone.                                             *)
Minds(t) ==
  /\ session'[1].status # "closed"
  /\ pc'[t] \in Reserving => Taken(session'[1], t) /\ pc[t] \in Reserving \cup {"probing"}
  /\ \A s \in Turn \ {t} : pc[s] \in Reserving =>
       session' = session /\ pc'[t] \notin Exclusive

LEMMA ReservedByOne ==
  ASSUME Reservation, NEW s \in Turn, NEW t \in Turn, pc[s] \in Reserving, pc[t] \in Reserving
  PROVE  s = t
BY DEF Reservation, Taken

LEMMA AdmissionMinds ==
  ASSUME PaneInv, NEW t \in Turn, writeFaults' = 0,
         Submit(t) \/ Admit(t) \/ ProbeDriver(t) \/ RecordAccepted(t) \/ AdmissionThrew(t)
         \/ RecordRejected(t)
  PROVE  Minds(t)
<1> t \in Fiber /\ 1 \in Incarnation
  BY BoundsAreNaturals DEF Fiber, Incarnation
<1>0. \A s \in Turn \ {t} : pc[s] \in Reserving => pc[t] \notin Reserving \cup Exclusive /\ session[1].status # "ready"
  BY ReservedByOne DEF PaneInv, Reservation, Exclusive, Taken, BusyStatus
<1> USE <1>0 DEF PaneInv, IInv, FiberInv, FiberTypes, DataTypes, MemoryTypes, Open, Reservation,
        Minds, Taken, Suspended, unchangedByTurns, unchangedByEntries, DeleteEntry, Goto, PersistSession, RecordFails,
        Fault, SetSession, Status, Reserving, Exclusive, Launching, BusyStatus
<1>1. CASE Submit(t)
  BY <1>1 DEF Submit, JoinChain
<1>2. CASE Admit(t)
  BY <1>2 DEF Admit
<1>3. CASE ProbeDriver(t)
  BY <1>3 DEF ProbeDriver
<1>4. CASE RecordAccepted(t)
  BY <1>4 DEF RecordAccepted
<1>5. CASE AdmissionThrew(t)
  BY <1>5 DEF AdmissionThrew
<1>6. CASE RecordRejected(t)
  BY <1>6 DEF RecordRejected
<1> QED BY <1>1, <1>2, <1>3, <1>4, <1>5, <1>6

LEMMA StagingMinds ==
  ASSUME PaneInv, NEW t \in Turn, writeFaults' = 0,
         StageTurn(t) \/ RecordStaged(t) \/ SubmitThrew(t) \/ FinishWorkspaceTurn(t)
         \/ RecordUnstaged(t)
  PROVE  Minds(t)
<1> t \in Fiber /\ 1 \in Incarnation
  BY BoundsAreNaturals DEF Fiber, Incarnation
<1> plan[t] \in Plan
  BY DEF PaneInv, IInv, DataTypes, CallTypes
<1>0. \A s \in Turn \ {t} : pc[s] \in Reserving =>
       pc[t] \notin Reserving \cup Exclusive /\ session[1].active # t
  BY ReservedByOne DEF PaneInv, Reservation, Exclusive, Taken
<1> USE <1>0 DEF PaneInv, IInv, FiberInv, FiberTypes, DataTypes, MemoryTypes, CallTypes, Open,
        Reservation, Minds, Taken, Suspended, unchangedByTurns, unchangedByEntries, DeleteEntry, Goto, PersistSession,
        RecordFails, Fault, SetSession, Status, Reserving, Exclusive, Launching, BusyStatus
<1>1. CASE StageTurn(t)
  BY <1>1 DEF StageTurn, GiveUpStaging
<1>2. CASE RecordStaged(t)
  BY <1>2 DEF RecordStaged
<1>3. CASE SubmitThrew(t)
  BY <1>3 DEF SubmitThrew, GiveUpStaging
<1>4. CASE FinishWorkspaceTurn(t)
  BY <1>4 DEF FinishWorkspaceTurn, HistoryAwait
<1>5. CASE RecordUnstaged(t)
  BY <1>5 DEF RecordUnstaged, Plan
<1> QED BY <1>1, <1>2, <1>3, <1>4, <1>5

LEMMA ExecutionMinds ==
  ASSUME PaneInv, NEW t \in Turn, writeFaults' = 0,
         AwaitDriver(t) \/ BeginRunning(t) \/ RecordStarted(t) \/ RecordNet(t)
         \/ PastePrompt(t) \/ PressEnter(t) \/ ConfirmSubmission(t) \/ ArtifactTerminal(t)
  PROVE  Minds(t)
<1> t \in Fiber /\ 1 \in Incarnation
  BY BoundsAreNaturals DEF Fiber, Incarnation
<1> plan[t] \in Plan
  BY DEF PaneInv, IInv, DataTypes, CallTypes
<1>0. \A s \in Turn \ {t} : pc[s] \in Reserving =>
       pc[t] \notin Reserving \cup Exclusive /\ session[1].active # t
  BY ReservedByOne DEF PaneInv, Reservation, Exclusive, Taken
<1> USE <1>0 DEF PaneInv, IInv, FiberInv, FiberTypes, DataTypes, MemoryTypes, CallTypes, Open,
        Reservation, Minds, Taken, Suspended, unchangedByTurns, unchangedByEntries, DeleteEntry, Goto, PersistSession,
        RecordFails, Fault, SetSession, Status, Reserving, Exclusive, Launching, BusyStatus
<1>1. CASE AwaitDriver(t)
  BY <1>1 DEF AwaitDriver, FailUnexpectedly, SetPlan, Plan
<1>2. CASE BeginRunning(t)
  BY <1>2 DEF BeginRunning
<1>3. CASE RecordStarted(t)
  BY <1>3 DEF RecordStarted, FailUnexpectedly, SetPlan, Plan
<1>4. CASE RecordNet(t)
  BY <1>4 DEF RecordNet
<1>5. CASE PastePrompt(t)
  BY <1>5 DEF PastePrompt
<1>6. CASE PressEnter(t)
  BY <1>6 DEF PressEnter
<1>7. CASE ConfirmSubmission(t)
  BY <1>7 DEF ConfirmSubmission
<1>8. CASE ArtifactTerminal(t)
  BY <1>8 DEF ArtifactTerminal
<1> QED BY <1>1, <1>2, <1>3, <1>4, <1>5, <1>6, <1>7, <1>8

LEMMA FailureMinds ==
  ASSUME PaneInv, NEW t \in Turn, writeFaults' = 0,
         WatchRejects(t) \/ CheckOwner(t) \/ RecordFinished(t) \/ Caught(t) \/ Expired(t)
         \/ SettleTimedOutDriver(t) \/ RecordFailed(t) \/ Finally(t)
  PROVE  Minds(t)
<1> t \in Fiber /\ 1 \in Incarnation
  BY BoundsAreNaturals DEF Fiber, Incarnation
<1> plan[t] \in Plan
  BY DEF PaneInv, IInv, DataTypes, CallTypes
<1>0. \A s \in Turn \ {t} : pc[s] \in Reserving =>
       pc[t] \notin Reserving \cup Exclusive /\ session[1].active # t
  BY ReservedByOne DEF PaneInv, Reservation, Exclusive, Taken
<1> USE <1>0 DEF PaneInv, IInv, FiberInv, FiberTypes, DataTypes, MemoryTypes, CallTypes, Open,
        Reservation, Minds, Taken, Suspended, unchangedByTurns, unchangedByEntries, DeleteEntry, Goto, PersistSession,
        RecordFails, Fault, SetSession, Status, Reserving, Exclusive, Launching, BusyStatus
<1>1. CASE WatchRejects(t)
  BY <1>1 DEF WatchRejects
<1>2. CASE CheckOwner(t)
  BY <1>2 DEF CheckOwner
<1>3. CASE RecordFinished(t)
  BY <1>3 DEF RecordFinished, Plan, Consistent
<1>4. CASE Caught(t)
  BY <1>4 DEF Caught
<1>5. CASE Expired(t)
  BY <1>5 DEF Expired
<1>6. CASE SettleTimedOutDriver(t)
  BY <1>6 DEF SettleTimedOutDriver
<1>7. CASE RecordFailed(t)
  BY <1>7 DEF RecordFailed, Plan
<1>8. CASE Finally(t)
  BY <1>8 DEF Finally
<1> QED BY <1>1, <1>2, <1>3, <1>4, <1>5, <1>6, <1>7, <1>8

LEMMA TurnMinds ==
  ASSUME PaneInv, NEW t \in Turn, writeFaults' = 0, TurnStep(t)
  PROVE  Minds(t)
BY AdmissionMinds, StagingMinds, ExecutionMinds, FailureMinds DEF TurnStep, OwnStep

(* What any other call does: it may say something of the session's status, but *)
(* not that it is free.                                                        *)
Spares(f) ==
  /\ session'[1].status # "closed"
  /\ \A s \in Turn : pc[s] \in Reserving => Taken(session'[1], s) /\ pc'[f] \notin Exclusive

LEMMA ControlSpares ==
  ASSUME PaneInv, NobodyCloses, NEW c \in Control, ControlStep(c)
  PROVE  Spares(c) /\ (pc'[c] \in Launching => op'[c].prev # "closed")
         /\ pc'[c] \notin {"closeTurn", "closeRec"} /\ cur' = cur /\ holds'[c] = 1
<1> c \in Fiber /\ c \notin Turn /\ 1 \in Incarnation
  BY BoundsAreNaturals, FibersAreDistinct DEF Fiber, Incarnation
<1>12. ~CloseFinishesTurn(c) /\ ~CloseRecordsTurn(c)
  BY DEF PaneInv, Open, CloseFinishesTurn, CloseRecordsTurn
<1>0. \A s \in Turn : pc[s] \in Reserving =>
        pc[c] \notin Exclusive /\ session[1].active # None
  BY FibersAreDistinct DEF PaneInv, Reservation, Exclusive, Taken, Fiber
<1> USE <1>0 DEF PaneInv, IInv, FiberInv, FiberTypes, DataTypes, MemoryTypes, CallTypes, Open,
        Reservation, Spares, NobodyCloses, Taken, Goto, PersistSession, SetSession, SetStatus,
        Exclusive, Launching, BusyStatus
<1>1. CASE CallControl(c)
  BY <1>1 DEF CallControl, JoinChain
<1>2. CASE BeginControl(c)
  BY <1>2 DEF BeginControl, Refused
<1>3. CASE CheckAttached(c)
  BY <1>3 DEF CheckAttached, Consistent
<1>4. CASE LaunchChecks(c)
  BY <1>4 DEF LaunchChecks
<1>5. CASE Respawn(c)
  BY <1>5 DEF Respawn
<1>6. CASE DriverStarts(c)
  BY <1>6 DEF DriverStarts
<1>7. CASE RestorePrevious(c)
  BY <1>7 DEF RestorePrevious
<1>8. CASE AwaitTurnEnd(c)
  BY <1>8 DEF AwaitTurnEnd
<1>9. CASE RecheckAttached(c)
  BY <1>9 DEF RecheckAttached
<1>10. CASE KillPane(c)
  BY <1>10 DEF KillPane
<1>11. CASE AfterKill(c)
  BY <1>11 DEF AfterKill
<1> QED BY <1>12, <1>1, <1>2, <1>3, <1>4, <1>5, <1>6, <1>7, <1>8, <1>9, <1>10, <1>11
    DEF ControlStep

LEMMA InterruptSpares ==
  ASSUME PaneInv, NEW f \in Interrupt \cup Control, CallInterrupt(f) \/ SendEscape(f)
  PROVE  Spares(f) /\ (f \in Interrupt \/ pc'[f] \notin Launching \cup {"closeTurn", "closeRec"})
         /\ holds'[f] = 1
<1> f \in Fiber /\ f \notin Turn /\ 1 \in Incarnation
  BY BoundsAreNaturals, FibersAreDistinct DEF Fiber, Incarnation
<1> USE DEF PaneInv, IInv, FiberInv, FiberTypes, DataTypes, MemoryTypes, CallTypes, Open,
        Reservation, Spares, Taken, Goto, PersistSession, SetSession, Exclusive, Launching,
        BusyStatus
<1>1. CASE CallInterrupt(f)
  BY <1>1 DEF CallInterrupt, MarkInterrupted
<1>2. CASE SendEscape(f)
  BY <1>2 DEF SendEscape
<1> QED BY <1>1, <1>2

LEMMA LookupSpares ==
  ASSUME PaneInv, NEW g \in Lookup, LookupStep(g)
  PROVE  Spares(g) /\ holds'[g] = 1
<1> g \in Fiber /\ g \notin Turn /\ 1 \in Incarnation
  BY BoundsAreNaturals, FibersAreDistinct DEF Fiber, Incarnation
<1> USE DEF PaneInv, IInv, FiberInv, FiberTypes, DataTypes, MemoryTypes, CallTypes, Open,
        Reservation, Spares, Taken, Goto, PersistSession, SetSession, SetStatus, Exclusive,
        Launching, BusyStatus
<1>1. CASE CallGet(g)
  BY <1>1 DEF CallGet
<1>2. CASE LookAtDriver(g)
  BY <1>2 DEF LookAtDriver
<1> QED BY <1>1, <1>2 DEF LookupStep

(* What a step of one call leaves of the others.  A call that is gone does *)
(* nothing unless the daemon serves.                                        *)
Frame(f) ==
  /\ up' = up /\ cur' = cur /\ holds'[f] = 1
  /\ diskSession' \in {diskSession, image[f]} \ {NoImage, Called}
  /\ \A g \in Fiber \ {f} : pc'[g] = pc[g] /\ holds'[g] = holds[g]
  /\ \A g \in Fiber : image'[g] \in {image[g], Called, NoImage}
  /\ \A c \in Control \ {f} : op'[c] = op[c]
  /\ pc[f] \in Gone => up = "serving"

LEMMA DiskNoMark ==
  ASSUME PaneInv
  PROVE  diskSession \notin {NoImage, Called}
BY DEF PaneInv, IInv, DataTypes, DiskTypes, SessionFile, BusyStatus, IdleStatus, NoImage, Called

LEMMA TurnFrame ==
  ASSUME PaneInv, NEW t \in Turn, TurnStep(t)
  PROVE  Frame(t)
<1> t \in Fiber /\ t \notin Control
  BY FibersAreDistinct DEF Fiber
<1>1. FiberInv /\ DataTypes
  BY DEF PaneInv, IInv
<1>2. UNCHANGED <<up, cur, op, diskSession>>
  BY DEF TurnStep, OwnStep, unchangedByTurns, unchangedByEntries, DeleteEntry, diskVars, Submit, Admit, ProbeDriver,
     RecordAccepted, AdmissionThrew, RecordRejected, StageTurn, RecordStaged, SubmitThrew,
     FinishWorkspaceTurn, RecordUnstaged, AwaitDriver, BeginRunning, RecordStarted, RecordNet,
     PastePrompt, PressEnter, ConfirmSubmission, ArtifactTerminal, WatchRejects, CheckOwner,
     RecordFinished, Caught, Expired, SettleTimedOutDriver, RecordFailed, Finally
<1>3. holds' = holds \/ holds' = [holds EXCEPT ![t] = cur]
  BY DEF TurnStep, OwnStep, unchangedByTurns, unchangedByEntries, DeleteEntry, diskVars, Submit, Admit, ProbeDriver,
     RecordAccepted, AdmissionThrew, RecordRejected, StageTurn, RecordStaged, SubmitThrew,
     FinishWorkspaceTurn, RecordUnstaged, AwaitDriver, BeginRunning, RecordStarted, RecordNet,
     PastePrompt, PressEnter, ConfirmSubmission, ArtifactTerminal, WatchRejects, CheckOwner,
     RecordFinished, Caught, Expired, SettleTimedOutDriver, RecordFailed, Finally
<1>4. \A g \in Fiber : holds'[g] = 1
  BY <1>1, <1>3 DEF PaneInv, Open, DataTypes, CallTypes
<1>5. pc[t] \in Gone => Submit(t)
  BY DEF Gone, TurnStep, OwnStep, Suspended, Admit, ProbeDriver, HistoryAwait,
     RecordAccepted, AdmissionThrew, RecordRejected, StageTurn, RecordStaged, SubmitThrew,
     FinishWorkspaceTurn, RecordUnstaged, AwaitDriver, BeginRunning, RecordStarted, RecordNet,
     PastePrompt, PressEnter, ConfirmSubmission, ArtifactTerminal, WatchRejects, CheckOwner,
     RecordFinished, Caught, Expired, SettleTimedOutDriver, RecordFailed, Finally
<1>6. /\ \A g \in Fiber \ {t} : pc'[g] = pc[g]
      /\ \A g \in Fiber : image'[g] \in {image[g], Called, NoImage}
  <2>1. CASE Submit(t)
    BY <1>1, <2>1 DEF Submit, JoinChain, FiberInv, FiberTypes
  <2>2. CASE ~Submit(t)
    <3>1. Moves(t)
      BY <1>1, <2>2, AdmissionMoves, StagingMoves, ExecutionMoves, FailureMoves
         DEF TurnStep, OwnStep
    <3> QED BY <1>1, <3>1 DEF Moves, MovesTo, Goto, FiberInv, FiberTypes
  <2> QED BY <2>1, <2>2
<1>7. pc[t] \in Gone => up = "serving"
  BY <1>5 DEF Submit, JoinChain
<1>8. \A g \in Fiber \ {t} : holds'[g] = holds[g]
  BY <1>4 DEF PaneInv, Open
<1> QED BY <1>2, <1>4, <1>6, <1>7, <1>8, DiskNoMark DEF Frame

LEMMA OthersFrame ==
  ASSUME PaneInv, NobodyCloses, NEW f \in Fiber \ Turn,
         \/ f \in Interrupt /\ InterruptStep(f)
         \/ f \in Control /\ (ControlStep(f) \/ SendEscape(f))
         \/ f \in Lookup /\ LookupStep(f)
  PROVE  Frame(f)
<1>1. FiberInv /\ DataTypes /\ pc \in [Fiber -> Await] /\ holds \in [Fiber -> Incarnation]
      /\ image \in [Fiber -> SessionFile \cup {NoImage, Called}]
      /\ op \in [Control -> [kind : Kind, prev : BusyStatus \cup IdleStatus]]
  BY DEF PaneInv, IInv, FiberInv, FiberTypes, DataTypes, CallTypes
<1>2. UNCHANGED <<up, diskSession>>
  BY DEF InterruptStep, LookupStep, ControlStep, CallInterrupt, SendEscape, CallControl,
     BeginControl, CheckAttached, LaunchChecks, Respawn, DriverStarts, RestorePrevious,
     AwaitTurnEnd, RecheckAttached, KillPane, AfterKill, CloseFinishesTurn, CloseRecordsTurn,
     CallGet, LookAtDriver, diskVars
<1>3. cur' = cur
  BY ControlSpares DEF InterruptStep, LookupStep, CallInterrupt, SendEscape, CallGet,
     LookAtDriver
<1>4. holds' = holds \/ holds' = [holds EXCEPT ![f] = cur] \/ holds' = [holds EXCEPT ![f] = cur']
  BY DEF InterruptStep, LookupStep, ControlStep, CallInterrupt, SendEscape, CallControl,
     BeginControl, CheckAttached, LaunchChecks, Respawn, DriverStarts, RestorePrevious,
     AwaitTurnEnd, RecheckAttached, KillPane, AfterKill, CloseFinishesTurn, CloseRecordsTurn,
     CallGet, LookAtDriver
<1>5. \A g \in Fiber : holds'[g] = 1
  BY <1>1, <1>3, <1>4 DEF PaneInv, Open
<1>6. op' = op \/ \E v : op' = [op EXCEPT ![f] = v]
  <2>1. CASE f \in Control /\ CallControl(f)
    BY <2>1 DEF CallControl
  <2>2. CASE f \in Control /\ CheckAttached(f)
    BY <2>2 DEF CheckAttached
  <2>3. CASE ~(f \in Control /\ (CallControl(f) \/ CheckAttached(f)))
    BY <2>3 DEF InterruptStep, LookupStep, ControlStep, CallInterrupt, SendEscape,
       BeginControl, LaunchChecks, Respawn, DriverStarts, RestorePrevious,
       AwaitTurnEnd, RecheckAttached, KillPane, AfterKill, CloseFinishesTurn, CloseRecordsTurn,
       CallGet, LookAtDriver
  <2> QED BY <2>1, <2>2, <2>3
<1>7. \A c \in Control \ {f} : op'[c] = op[c]
  BY <1>1, <1>6
<1>8. /\ \A g \in Fiber \ {f} : pc'[g] = pc[g]
      /\ \A g \in Fiber : image'[g] \in {image[g], Called, NoImage}
  <2>1. CASE f \in Control /\ CallControl(f)
    BY <1>1, <2>1 DEF CallControl, JoinChain
  <2>2. CASE ~(f \in Control /\ CallControl(f))
    <3>1. Moves(f)
      BY <1>1, <2>2, InterruptMoves, ControlMoves, LookupMoves DEF InterruptStep, ControlStep
    <3> QED BY <1>1, <3>1 DEF Moves, MovesTo, Goto
  <2> QED BY <2>1, <2>2
<1>9. pc[f] \in Gone => up = "serving"
  BY DEF Gone, InterruptStep, LookupStep, ControlStep, CallInterrupt, SendEscape, CallControl,
     BeginControl, CheckAttached, LaunchChecks, Respawn, DriverStarts, RestorePrevious,
     AwaitTurnEnd, RecheckAttached, KillPane, AfterKill, CloseFinishesTurn, CloseRecordsTurn,
     CallGet, LookAtDriver, JoinChain
<1>10. \A g \in Fiber \ {f} : holds'[g] = holds[g]
  BY <1>5 DEF PaneInv, Open
<1> QED BY <1>2, <1>3, <1>5, <1>7, <1>8, <1>9, <1>10, DiskNoMark DEF Frame

(* A step that fits keeps the invariant. *)
LEMMA StepKeepsPane ==
  ASSUME PaneInv, IInv', NEW f \in Fiber, Frame(f),
         f \in Turn => Minds(f),
         f \notin Turn => Spares(f),
         f \in Control => /\ pc'[f] \in Launching => op'[f].prev # "closed"
                          /\ pc'[f] \notin {"closeTurn", "closeRec"}
  PROVE  PaneInv'
<1>1. session'[1].status # "closed"
  BY DEF Minds, Spares
<1>2. Open'
  BY <1>1, FibersAreDistinct DEF PaneInv, Open, Frame, Fiber
<1>3. Unserved'
  BY DEF PaneInv, Unserved, Frame
<1>4. Reservation'
  <2> SUFFICES ASSUME NEW s \in Turn, pc'[s] \in Reserving
               PROVE  Taken(session'[1], s) /\ \A g \in Fiber : pc'[g] \notin Exclusive
    BY DEF Reservation
  <2>1. s \in Fiber /\ "probing" \in Running /\ Launching \subseteq Running
        /\ Reserving \cap Exclusive = {}
    BY DEF Fiber, Running, LockedAwait, Launching, Reserving, Exclusive
  <2>2. CASE s # f
    <3>1. pc[s] \in Reserving
      BY <2>1, <2>2 DEF Frame
    <3>2. Taken(session[1], s) /\ \A g \in Fiber : pc[g] \notin Exclusive
      BY <3>1 DEF PaneInv, Reservation
    <3>3. Taken(session'[1], s) /\ pc'[f] \notin Exclusive
      BY <2>2, <3>1, <3>2 DEF Minds, Spares
    <3> QED BY <3>2, <3>3 DEF Frame
  <2>3. CASE s = f /\ pc[s] \in Reserving
    BY <2>1, <2>3 DEF PaneInv, Reservation, Frame, Minds
  <2>4. CASE s = f /\ pc[s] \notin Reserving
    <3>1. Taken(session'[1], s) /\ pc[s] = "probing"
      BY <2>4 DEF Minds
    <3>2. \A g \in Fiber : pc[g] \in Exclusive => g = s
      BY <2>1, <3>1 DEF PaneInv, IInv, FiberInv, HeadRuns, HoldsChain, Exclusive
    <3>3. \A g \in Fiber \ {s} : pc'[g] = pc[g]
      BY <2>4 DEF Frame
    <3> QED BY <2>1, <3>1, <3>2, <3>3
  <2> QED BY <2>2, <2>3, <2>4
<1> QED BY <1>2, <1>3, <1>4 DEF PaneInv

LEMMA WriteKeepsPane ==
  ASSUME PaneInv, IInv', writeFaults' = 0, NEW f \in Fiber, WriteStep(f)
  PROVE  PaneInv'
<1>1. pc \in [Fiber -> Await] /\ image \in [Fiber -> SessionFile \cup {NoImage, Called}]
      /\ WritersWait
  BY DEF PaneInv, IInv, FiberInv, FiberTypes
<1>2. ~SessionWriteFails(f)
  BY DEF SessionWriteFails, Fault, PaneInv, IInv, DataTypes, CountTypes
<1>3. CASE Serialize(f)
  <2>1. image'[f].inc = 1 /\ image'[f].status # "closed"
    BY <1>1, <1>3 DEF Serialize, PaneInv, Open
  <2>2. Open'
    BY <1>1, <1>3, <2>1 DEF Serialize, memoryVars, diskVars, PaneInv, Open
  <2> QED BY <1>3, <2>2 DEF Serialize, memoryVars, PaneInv, Unserved, Reservation
<1>4. CASE SessionWritten(f)
  <2>1. pc[f] \in Writing
    BY <1>1, <1>4 DEF SessionWritten, WritersWait
  <2>2. /\ \A g \in Fiber : pc'[g] = IF g = f THEN AfterWrite[pc[f]] ELSE pc[g]
        /\ \A g \in Fiber : image'[g] = IF g = f THEN NoImage ELSE image[g]
        /\ image[f] \notin {NoImage, Called} /\ diskSession' = image[f]
        /\ UNCHANGED <<up, cur, holds, op, session>>
    BY <1>1, <1>4 DEF SessionWritten, Goto
  <2>3. Frame(f)
    BY <2>1, <2>2, Labels DEF Frame, PaneInv, Open, Gone
  <2>4. /\ AfterWrite[pc[f]] \in Reserving => pc[f] \in Reserving
        /\ AfterWrite[pc[f]] \in Exclusive => pc[f] \in Exclusive
        /\ AfterWrite[pc[f]] \in Launching => pc[f] \in Launching
        /\ AfterWrite[pc[f]] \notin {"closeTurn", "closeRec"}
    BY <2>1, Labels DEF AfterWrite, Reserving, Exclusive, Launching
  <2>5. f \in Turn => Minds(f)
    BY <2>2, <2>4 DEF Minds, PaneInv, Open, Reservation
  <2>6. Spares(f)
    BY <2>2, <2>4 DEF Spares, PaneInv, Open, Reservation
  <2>7. f \in Control => /\ pc'[f] \in Launching => op'[f].prev # "closed"
                         /\ pc'[f] \notin {"closeTurn", "closeRec"}
    BY <2>2, <2>4 DEF PaneInv, Open
  <2> QED BY <2>3, <2>5, <2>6, <2>7, StepKeepsPane
<1> QED BY <1>2, <1>3, <1>4 DEF WriteStep

LEMMA OthersKeepPane ==
  ASSUME PaneInv, IInv', Crash \/ BootStep \/ (\E i \in Incarnation : PaneStep(i))
  PROVE  PaneInv'
<1>1. pc \in [Fiber -> Await]
  BY DEF PaneInv, IInv, FiberInv, FiberTypes
<1>2. CASE Crash
  <2>1. \A f \in Fiber : pc'[f] \in Gone /\ image'[f] = NoImage
    BY <1>1, <1>2 DEF Crash, Gone
  <2>2. Gone \cap (Reserving \cup Launching \cup {"closeTurn", "closeRec"}) = {}
    BY DEF Gone, Reserving, Launching
  <2>3. UNCHANGED <<cur, session, holds, diskSession>>
    BY <1>2 DEF Crash, diskVars
  <2>4. Control \subseteq Fiber /\ Turn \subseteq Fiber
    BY DEF Fiber
  <2> QED BY <2>1, <2>2, <2>3, <2>4 DEF PaneInv, Open, Unserved, Reservation
<1>3. CASE BootStep
  <2>1. up # "serving" /\ UNCHANGED <<fiberVars>>
    BY <1>3 DEF BootStep, Boot, BootFinishesTurn, BootRecordsTurn, BootSavesSession, Reconcile,
       Serve, unchangedByTmux
  <2>2. \A f \in Fiber : pc'[f] \in Gone
    BY <2>1 DEF PaneInv, Unserved, fiberVars
  <2>3. Gone \cap Reserving = {} /\ Turn \subseteq Fiber /\ 1 \in Incarnation
    BY BoundsAreNaturals DEF Gone, Reserving, Fiber, Incarnation
  <2>4. Unserved' /\ Reservation'
    BY <2>2, <2>3 DEF Unserved, Reservation
  <2>5. cur' = 1 /\ session'[1].status # "closed" /\ diskSession'.inc = 1
        /\ diskSession'.status # "closed"
    <3> USE <2>3 DEF PaneInv, IInv, DataTypes, MemoryTypes, Open, SetSession
    <3>1. CASE Boot
      BY <3>1 DEF Boot, diskVars
    <3>2. CASE BootSavesSession
      BY <3>2 DEF BootSavesSession
    <3>3. CASE BootFinishesTurn \/ BootRecordsTurn \/ Serve
      BY <3>3 DEF BootFinishesTurn, BootRecordsTurn, Serve, diskVars
    <3>4. CASE \E i \in Incarnation : Reconcile(i)
      BY <3>4 DEF Reconcile, unchangedByTmux, memoryVars, diskVars
    <3> QED BY <1>3, <3>1, <3>2, <3>3, <3>4 DEF BootStep
  <2> QED BY <2>1, <2>4, <2>5 DEF PaneInv, Open, fiberVars
<1>4. CASE \E i \in Incarnation : PaneStep(i)
  BY <1>4 DEF PaneStep, DriverDies, AgentFinishes, Attach, Detach, unchangedByTmux, memoryVars,
     fiberVars, diskVars, PaneInv, Open, Unserved, Reservation
<1> QED BY <1>2, <1>3, <1>4

(* Once a write has failed it stays so, and the same with a close that was called. *)
LEMMA FaultsStay ==
  ASSUME IInv, Next
  PROVE  writeFaults' \in {writeFaults, writeFaults + 1}
<1> USE DEF RecordFails, Fault, faultVars, unchangedByTurns, unchangedByEntries, DeleteEntry, GiveUpStaging
<1>1. ASSUME NEW s \in Turn, TurnStep(s)
      PROVE  writeFaults' \in {writeFaults, writeFaults + 1}
  BY <1>1 DEF TurnStep, OwnStep, Submit, Admit, ProbeDriver,
     RecordAccepted, AdmissionThrew, RecordRejected, StageTurn, RecordStaged, SubmitThrew,
     FinishWorkspaceTurn, RecordUnstaged, AwaitDriver, BeginRunning, RecordStarted, RecordNet,
     PastePrompt, PressEnter, ConfirmSubmission, ArtifactTerminal, WatchRejects, CheckOwner,
     RecordFinished, Caught, Expired, SettleTimedOutDriver, RecordFailed, Finally
<1>2. ASSUME NEW c \in Control, ControlStep(c)
      PROVE  writeFaults' \in {writeFaults, writeFaults + 1}
  BY <1>2 DEF ControlStep, CallControl,
     BeginControl, CheckAttached, LaunchChecks, Respawn, DriverStarts, RestorePrevious,
     AwaitTurnEnd, RecheckAttached, KillPane, AfterKill, CloseFinishesTurn, CloseRecordsTurn
<1>3. ASSUME NEW f \in Fiber,
             InterruptStep(f) \/ LookupStep(f) \/ SendEscape(f) \/ WriteStep(f)
      PROVE  writeFaults' \in {writeFaults, writeFaults + 1}
  BY <1>3 DEF InterruptStep, LookupStep, WriteStep, CallInterrupt, SendEscape, CallGet,
     LookAtDriver, Serialize, SessionWritten, SessionWriteFails
<1>4. ASSUME Crash \/ BootStep \/ \E i \in Incarnation : PaneStep(i)
      PROVE  writeFaults' \in {writeFaults, writeFaults + 1}
  BY <1>4 DEF Crash, BootStep, Boot, BootFinishesTurn, BootRecordsTurn, BootSavesSession,
     Reconcile, Serve, PaneStep, DriverDies, AgentFinishes, Attach, Detach, unchangedByTmux
<1> QED BY <1>1, <1>2, <1>3, <1>4 DEF Next, Fiber

LEMMA OthersStay ==
  ASSUME IInv, NEW f \in Fiber, JoinChain(f) \/ Moves(f), NEW c \in Fiber, c # f
  PROVE  pc'[c] = pc[c]
BY DEF IInv, FiberInv, FiberTypes, JoinChain, Moves, MovesTo, Goto

LEMMA CallsStay ==
  ASSUME IInv, Next, NEW c \in Control, pc[c] # "idle"
  PROVE  pc'[c] # "idle" /\ op'[c].kind = op[c].kind
<1>1. FiberInv /\ DataTypes /\ c \in Fiber /\ pc \in [Fiber -> Await]
      /\ op \in [Control -> [kind : Kind, prev : BusyStatus \cup IdleStatus]]
  BY DEF IInv, FiberInv, FiberTypes, DataTypes, CallTypes, Fiber
<1>2. ASSUME NEW s \in Turn, TurnStep(s)
      PROVE  pc'[c] # "idle" /\ op'[c].kind = op[c].kind
  <2>1. s \in Fiber /\ s # c
    BY FibersAreDistinct DEF Fiber
  <2>2. JoinChain(s) \/ Moves(s)
    BY <1>1, <1>2, AdmissionMoves, StagingMoves, ExecutionMoves, FailureMoves
       DEF TurnStep, OwnStep, Submit
  <2>3. op' = op
    BY <1>2 DEF TurnStep, OwnStep, unchangedByTurns, unchangedByEntries, DeleteEntry, Submit, Admit, ProbeDriver,
       RecordAccepted, AdmissionThrew, RecordRejected, StageTurn, RecordStaged, SubmitThrew,
       FinishWorkspaceTurn, RecordUnstaged, AwaitDriver, BeginRunning, RecordStarted, RecordNet,
       PastePrompt, PressEnter, ConfirmSubmission, ArtifactTerminal, WatchRejects, CheckOwner,
       RecordFinished, Caught, Expired, SettleTimedOutDriver, RecordFailed, Finally
  <2>4. pc'[c] = pc[c]
    BY <1>1, <2>1, <2>2, OthersStay
  <2> QED BY <2>3, <2>4
<1>3. ASSUME NEW d \in Control, ControlStep(d)
      PROVE  pc'[c] # "idle" /\ op'[c].kind = op[c].kind
  <2> d \in Fiber
    BY DEF Fiber
  <2>1. d # c => pc'[c] = pc[c]
    BY <1>1, <1>3, ControlMoves, OthersStay DEF ControlStep, CallControl
  <2>2. pc'[c] # "idle"
    BY <1>1, <1>3, <2>1 DEF ControlStep, CallControl, JoinChain, Goto, PersistSession,
       MarkInterrupted,
       BeginControl, CheckAttached, LaunchChecks, Respawn, DriverStarts, RestorePrevious,
       AwaitTurnEnd, RecheckAttached, KillPane, AfterKill, CloseFinishesTurn, CloseRecordsTurn
  <2>3. op'[c].kind = op[c].kind
    BY <1>1, <1>3 DEF ControlStep, CallControl, JoinChain,
       BeginControl, CheckAttached, LaunchChecks, Respawn, DriverStarts, RestorePrevious,
       AwaitTurnEnd, RecheckAttached, KillPane, AfterKill, CloseFinishesTurn, CloseRecordsTurn
  <2> QED BY <2>2, <2>3
<1>4. ASSUME NEW f \in Fiber,
             \/ f \in Interrupt /\ InterruptStep(f)
             \/ f \in Lookup /\ LookupStep(f)
             \/ f \in Control /\ SendEscape(f)
             \/ WriteStep(f)
      PROVE  pc'[c] # "idle" /\ op'[c].kind = op[c].kind
  <2>1. op' = op
    BY <1>4 DEF InterruptStep, LookupStep, WriteStep, CallInterrupt, SendEscape, CallGet,
       LookAtDriver, Serialize, SessionWritten, SessionWriteFails
  <2>2. Serialize(f) \/ Moves(f)
    BY <1>1, <1>4, InterruptMoves, LookupMoves, WriteMoves DEF InterruptStep, WriteStep
  <2>3. f # c => pc'[c] = pc[c]
    <3>1. CASE Serialize(f)
      BY <3>1 DEF Serialize
    <3>2. CASE Moves(f)
      BY <1>1, <3>2, OthersStay
    <3> QED BY <2>2, <3>1, <3>2
  <2>4. f = c => pc'[c] # "idle"
    <3>1. CASE f = c /\ SendEscape(f)
      BY <1>1, <3>1 DEF SendEscape, Goto
    <3>2. CASE f = c /\ WriteStep(f)
      <4>1. image[c] # NoImage => pc[c] \in Writing
        BY <1>1 DEF FiberInv, WritersWait
      <4>2. \A l \in Writing : AfterWrite[l] # "idle" /\ AfterFault[l] # "idle"
        <5>1. \A l \in Writing : AfterWrite[l] # "idle"
          BY Labels DEF AfterWrite
        <5>2. \A l \in Writing : AfterFault[l] # "idle"
          BY <5>1, Labels DEF AfterFault, Writing
        <5> QED BY <5>1, <5>2
      <4> QED BY <1>1, <3>2, <4>1, <4>2
          DEF WriteStep, Serialize, SessionWritten, SessionWriteFails, Goto
    <3> QED BY <1>4, <3>1, <3>2, FibersAreDistinct
  <2> QED BY <2>1, <2>3, <2>4
<1>5. ASSUME Crash \/ BootStep \/ \E i \in Incarnation : PaneStep(i)
      PROVE  pc'[c] # "idle" /\ op'[c].kind = op[c].kind
  BY <1>1, <1>5 DEF Crash, BootStep, Boot, BootFinishesTurn, BootRecordsTurn, BootSavesSession,
     Reconcile, Serve, PaneStep, DriverDies, AgentFinishes, Attach, Detach, unchangedByTmux,
     fiberVars
<1> QED BY <1>2, <1>3, <1>4, <1>5 DEF Next, Fiber

LEMMA CalmBefore ==
  ASSUME IInv, [Next]_vars, Calm'
  PROVE  Calm
<1>1. CASE Next
  <2>1. writeFaults = 0
    BY <1>1, FaultsStay DEF IInv, DataTypes, CountTypes, Calm
  <2>2. NobodyCloses
    BY <1>1, CallsStay DEF Calm, NobodyCloses
  <2> QED BY <2>1, <2>2 DEF Calm
<1>2. CASE UNCHANGED vars
  BY <1>2 DEF vars, fiberVars, faultVars, Calm, NobodyCloses
<1> QED BY <1>1, <1>2

LEMMA InitPane == Init => PaneInv
<1> SUFFICES ASSUME Init PROVE PaneInv
  OBVIOUS
<1>1. 1 \in Incarnation
  BY BoundsAreNaturals DEF Incarnation
<1>2. Open
  BY <1>1 DEF Init, Open, Launching, Fiber
<1>3. Unserved /\ Reservation
  BY DEF Init, Unserved, Reservation, Reserving, Fiber
<1> QED BY <1>2, <1>3, InitInv DEF PaneInv

LEMMA StepPane ==
  ASSUME PaneInv, Calm, Calm', [Next]_vars
  PROVE  PaneInv'
<1>1. IInv' /\ writeFaults' = 0 /\ NobodyCloses
  BY StepInv DEF PaneInv, Calm
<1>2. CASE \E s \in Turn : TurnStep(s)
  <2>1. PICK s \in Turn : TurnStep(s)
    BY <1>2
  <2>2. Frame(s) /\ Minds(s) /\ s \in Fiber \ Control
    BY <1>1, <2>1, TurnFrame, TurnMinds, FibersAreDistinct DEF Fiber
  <2> QED BY <1>1, <2>2, StepKeepsPane
<1>3. CASE \E f \in Interrupt : InterruptStep(f)
  <2>1. PICK f \in Interrupt : InterruptStep(f)
    BY <1>3
  <2>2. f \in Fiber \ Turn /\ f \notin Control
    BY FibersAreDistinct DEF Fiber
  <2>3. Frame(f) /\ Spares(f)
    BY <1>1, <2>1, <2>2, OthersFrame, InterruptSpares DEF InterruptStep
  <2> QED BY <1>1, <2>2, <2>3, StepKeepsPane
<1>4. CASE \E c \in Control : ControlStep(c) \/ SendEscape(c)
  <2>1. PICK c \in Control : ControlStep(c) \/ SendEscape(c)
    BY <1>4
  <2>2. c \in Fiber \ Turn /\ c \notin Interrupt
    BY FibersAreDistinct DEF Fiber
  <2>3. Frame(c)
    BY <1>1, <2>1, <2>2, OthersFrame
  <2>4. /\ Spares(c)
        /\ pc'[c] \in Launching => op'[c].prev # "closed"
        /\ pc'[c] \notin {"closeTurn", "closeRec"}
    BY <1>1, <2>1, <2>2, ControlSpares, InterruptSpares
  <2> QED BY <1>1, <2>2, <2>3, <2>4, StepKeepsPane
<1>5. CASE \E g \in Lookup : LookupStep(g)
  <2>1. PICK g \in Lookup : LookupStep(g)
    BY <1>5
  <2>2. g \in Fiber \ Turn /\ g \notin Control
    BY FibersAreDistinct DEF Fiber
  <2>3. Frame(g) /\ Spares(g)
    BY <1>1, <2>1, <2>2, OthersFrame, LookupSpares
  <2> QED BY <1>1, <2>2, <2>3, StepKeepsPane
<1>6. CASE \E f \in Fiber : WriteStep(f)
  BY <1>1, <1>6, WriteKeepsPane
<1>7. CASE Crash \/ BootStep \/ \E i \in Incarnation : PaneStep(i)
  BY <1>1, <1>7, OthersKeepPane
<1>8. CASE UNCHANGED vars
  BY <1>1, <1>8 DEF vars, memoryVars, fiberVars, diskVars, PaneInv, Open, Unserved, Reservation
<1> QED BY <1>2, <1>3, <1>4, <1>5, <1>6, <1>7, <1>8 DEF Next

(* Two turns never type into, watch or settle the same pane, for any number of *)
(* turns, interrupts, restarts, releases, lookups and lost processes, although  *)
(* a turn's finally may take the next one's entry, as long as no close was       *)
(* called and no write has failed.                                              *)
THEOREM PanesHaveOneTurn == Spec => [](Calm => OneTurnPerPane)
<1>1. Init => IInv /\ (Calm => PaneInv)
  BY InitInv, InitPane
<1>2. IInv /\ (Calm => PaneInv) /\ [Next]_vars => (IInv /\ (Calm => PaneInv))'
  BY StepInv, StepPane, CalmBefore
<1>3. PaneInv => OneTurnPerPane
  <2>1. \A s \in Turn : InPane(s) => pc[s] \in Reserving
    BY DEF InPane, Reserving
  <2> QED BY <2>1, ReservedByOne DEF PaneInv, OneTurnPerPane
<1> QED BY <1>1, <1>2, <1>3, PTL DEF Spec

-----------------------------------------------------------------------------
(***************************************************************************)
(* SessionManager implements SubmittedTurn, and a turn has one verdict, as *)
(* long as finishTurn does not fail.                                       *)
(***************************************************************************)
(* Where a turn is before its first record, before its prompt is typed, on the *)
(* ways out that write one last record, at the keyboard, and with the agent.   *)
Unwritten == {"idle", "queued", "probing", "accepting"}
Admitted  == {"accepted", "staging", "staged", "submitted", "submitThrew", "exec", "baseline",
              "starting"}
Withdrawn == {"admitThrew", "rejecting", "unstaging", "unstagedRec", "unsending", "unsentRec",
              "netTurn", "netRec"}
Typing    == {"pasting", "echoing"}
InAgent   == {"confirming", "bound", "watching"}
Ending    == {"expired", "settling", "settled", "finishing", "recording"}
Net       == {"netTurn", "netRec"}
Failing   == {"released", "caught", "stopped", "failing"}

(* What its await says of the record, the history and the prompt of a turn that *)
(* no close has taken.                                                          *)
Placed(s) ==
  /\ pc[s] \in Unwritten => diskRecord[s] = None /\ s \notin handed
  /\ pc[s] \in Admitted => diskRecord[s] = "accepted" /\ s \notin handed
  /\ pc[s] = "starting" => record[s] = "running"
  /\ pc[s] \in Withdrawn => diskRecord[s] \notin Terminal
  /\ pc[s] \in Typing => diskRecord[s] = "running" /\ s \notin handed
  /\ pc[s] \in InAgent \cup Ending => diskRecord[s] = "running"
  /\ pc[s] = "recording" => history[s] = plan[s].fate
  /\ pc[s] \in Failing /\ diskRecord[s] \in Terminal => history[s] = diskRecord[s]
  /\ pc[s] = "failedRec" /\ diskRecord[s] \in Terminal => plan[s].fate = diskRecord[s]
  /\ pc[s] \in Net => record[s] \in Terminal
  /\ plan[s].fate \in Terminal
  /\ history[s] \in Terminal \cup {None}
  /\ active = s => diskRecord[s] \notin Terminal

(* Nothing says completed of a prompt no agent has had, and the last net works *)
(* on a turn that has lost its reservation.                                    *)
Earned(s) ==
  /\ pc[s] \in InAgent => s \in handed
  /\ plan[s].fate = "completed" => s \in handed
  /\ history[s] = "completed" => s \in handed
  /\ record[s] = "completed" => s \in handed
  /\ pc[s] \in Net => active # s

TurnInv(s) == (TakenByClose(s) \/ Placed(s)) /\ Earned(s)

(* A close interrupts one turn, and while it is under way no other turn can take *)
(* the place of that one.                                                       *)
Closing == {"closeIntr", "closeQuiet", "closeKey", "closePoll", "closeWait", "rechecking",
            "killing", "killed"}
CloseInv(c) ==
  /\ pc[c] \in {"idle", "queued", "checking"} => target[c] = None
  /\ pc[c] \in Closing /\ op[c].kind = "close" => active \in {target[c], None}

(* While the daemon is down or boots nothing else runs, and init fails a turn *)
(* whose record it has found unfinished.                                      *)
Named == session[cur].active
Quiet == up # "serving" =>
  /\ active = None
  /\ \A f \in Fiber : pc[f] \in Gone /\ image[f] = NoImage
BootInv ==
  /\ up \in {"bootTurn", "bootRecord"} => Named \in Turn /\ diskRecord[Named] \in Unfinished
  /\ up = "bootRecord" => TakenByClose(Named) \/ record[Named] \in Terminal

HandoverInv ==
  /\ \A s \in Turn : TurnInv(s)
  /\ \A c \in Control : CloseInv(c)
  /\ Quiet
  /\ BootInv

-----------------------------------------------------------------------------
(* What a step may do to the record and the prompt of one turn. *)
Effect(s) ==
  \/ diskRecord'[s] = diskRecord[s] /\ handed' = handed
  \/ /\ diskRecord[s] = None /\ diskRecord'[s] = "accepted"
     /\ s \notin handed /\ handed' = handed
  \/ /\ diskRecord[s] = "accepted" /\ diskRecord'[s] = "running"
     /\ s \notin handed /\ handed' = handed
  \/ /\ diskRecord[s] = "running" /\ diskRecord'[s] = diskRecord[s]
     /\ s \notin handed /\ handed' = handed \cup {s}
  \/ /\ diskRecord[s] \notin Terminal /\ diskRecord'[s] \in Terminal
     /\ diskRecord'[s] = "completed" => s \in handed
     /\ handed' = handed

LEMMA FinishRecords ==
  ASSUME DiskTypes, CountTypes, MaxHistoryFaults = 0, NEW s \in Turn, NEW fate, fate # None,
         FinishTurn(s, fate)
  PROVE  /\ history' = IF history[s] # None THEN history ELSE [history EXCEPT ![s] = fate]
         /\ history'[s] # None /\ FinishedAs(s, fate) = history'[s]
         /\ historyFaults' = historyFaults
<1>1. historyFaults = 0 /\ ~(historyFaults < MaxHistoryFaults)
  BY DEF CountTypes
<1>2. history' = [history EXCEPT ![s] = IF @ = None THEN fate ELSE @]
      /\ historyFaults' = historyFaults
  BY <1>1 DEF FinishTurn, FirstRecord
<1>3. history \in [Turn -> Recorded \cup {None}]
  BY DEF DiskTypes
<1>4. history' = IF history[s] # None THEN history ELSE [history EXCEPT ![s] = fate]
  BY <1>2, <1>3
<1>5. history'[s] # None
  BY <1>2, <1>3
<1> QED BY <1>2, <1>4, <1>5 DEF FinishedAs

Same(s) ==
  /\ diskRecord'[s] = diskRecord[s] /\ history'[s] = history[s]
  /\ plan'[s] = plan[s] /\ record'[s] = record[s]
  /\ s \in handed' <=> s \in handed

(* A step of turn s leaves the other turns alone. *)
Alone(s) ==
  /\ \A t \in Turn \ {s} : Same(t)
  /\ \A t \in Fiber \ {s} : pc'[t] = pc[t]
  /\ handed' \in {handed, handed \cup {s}}
  /\ active' \in {active, None} \/ (pc[s] = "probing" /\ active' = s)
  /\ UNCHANGED <<up, op, target>>

TurnGood(s) == Alone(s) /\ TurnInv(s)' /\ (TakenByClose(s) \/ Effect(s))

LEMMA TakenSame ==
  ASSUME UNCHANGED target, NEW s
  PROVE  TakenByClose(s)' <=> TakenByClose(s)
BY DEF TakenByClose

(* A turn that no action touches keeps what is known of it, also when it is lost. *)
LEMMA UntouchedKeeps ==
  ASSUME NEW s \in Turn, TurnInv(s), Same(s), TakenByClose(s) => TakenByClose(s)',
         pc'[s] = pc[s] \/ pc'[s] \in {"lost", "cut"} \/ (pc[s] = "idle" /\ pc'[s] = "queued"),
         active' = s => active = s
  PROVE  TurnInv(s)'
<1>1. Earned(s)'
  BY DEF TurnInv, Earned, Same, InAgent, Net
<1>2. CASE TakenByClose(s)
  BY <1>1, <1>2 DEF TurnInv
<1>3. CASE Placed(s)
  <2>1. Placed(s)'
    BY <1>3 DEF Placed, Same, Unwritten, Admitted, Withdrawn, Typing, InAgent, Ending, Failing, Net
  <2> QED BY <1>1, <2>1 DEF TurnInv
<1> QED BY <1>2, <1>3 DEF TurnInv

-----------------------------------------------------------------------------
(* Every action of a turn. *)
LEMMA AdmissionGood ==
  ASSUME IInv, NEW s \in Turn, TurnInv(s),
         Submit(s) \/ Admit(s) \/ ProbeDriver(s) \/ RecordAccepted(s) \/ AdmissionThrew(s)
         \/ RecordRejected(s)
  PROVE  TurnGood(s)
<1> s \in Fiber /\ s # None
  BY FibersAreDistinct DEF Fiber
<1> None \notin Terminal \cup {"accepted", "running"}
  BY NoneIsNoRecord DEF Recorded, Unfinished
<1> USE DEF IInv, FiberInv, FiberTypes, DataTypes, MemoryTypes, CallTypes, DiskTypes,
        PaneTypes, TurnGood, Alone, TurnInv, Placed, Earned, Effect, Same, Suspended,
        unchangedByTurns, unchangedByEntries, DeleteEntry, diskVars, tmuxVars, marks, faultVars, Goto, PersistSession, RecordWritten,
        RecordFails, Terminal, Unwritten, Admitted, Withdrawn, Typing, InAgent, Ending, Net,
        Failing
<1>1. CASE Submit(s)
  BY <1>1, TakenSame DEF Submit, JoinChain
<1>2. CASE Admit(s)
  BY <1>2, TakenSame DEF Admit
<1>3. CASE ProbeDriver(s)
  BY <1>3, TakenSame DEF ProbeDriver
<1>4. CASE RecordAccepted(s)
  BY <1>4, TakenSame DEF RecordAccepted
<1>5. CASE AdmissionThrew(s)
  BY <1>5, TakenSame DEF AdmissionThrew
<1>6. CASE RecordRejected(s)
  BY <1>6, TakenSame DEF RecordRejected
<1> QED BY <1>1, <1>2, <1>3, <1>4, <1>5, <1>6

LEMMA StagingGood ==
  ASSUME IInv, MaxHistoryFaults = 0, NEW s \in Turn, TurnInv(s),
         StageTurn(s) \/ RecordStaged(s) \/ SubmitThrew(s) \/ FinishWorkspaceTurn(s)
         \/ RecordUnstaged(s)
  PROVE  TurnGood(s)
<1> s \in Fiber /\ s # None
  BY FibersAreDistinct DEF Fiber
<1> None \notin Terminal \cup {"accepted", "running"}
  BY NoneIsNoRecord DEF Recorded, Unfinished
<1> USE DEF IInv, FiberInv, FiberTypes, DataTypes, MemoryTypes, CallTypes, DiskTypes,
        PaneTypes, TurnGood, Alone, TurnInv, Placed, Earned, Effect, Same, Suspended,
        unchangedByTurns, unchangedByEntries, DeleteEntry, diskVars, tmuxVars, marks, faultVars, Goto, PersistSession, RecordWritten,
        RecordFails, Terminal, Unwritten, Admitted, Withdrawn, Typing, InAgent, Ending, Net,
        Failing
<1>1. CASE StageTurn(s)
  BY <1>1, TakenSame DEF StageTurn, GiveUpStaging, SetPlan, Plan
<1>2. CASE RecordStaged(s)
  BY <1>2, TakenSame DEF RecordStaged
<1>3. CASE SubmitThrew(s)
  BY <1>3, TakenSame DEF SubmitThrew, GiveUpStaging, SetPlan, Plan
<1>4. CASE FinishWorkspaceTurn(s)
  <2>1. /\ history' = IF history[s] # None THEN history
                      ELSE [history EXCEPT ![s] = plan[s].fate]
    <3>1. FinishTurn(s, plan[s].fate) /\ plan[s].fate # None
      BY <1>4, NoneIsNoRecord DEF FinishWorkspaceTurn, Plan
    <3> QED BY <3>1, FinishRecords
  <2>2. plan[s].fate \in Recorded /\ plan[s].fate # None
    BY NoneIsNoRecord DEF Plan
  <2>3. history'[s] # None /\ (history[s] # None => history'[s] = history[s])
        /\ (history[s] = None => history'[s] = plan[s].fate)
    BY <2>1, <2>2
  <2>4. plan' = [plan EXCEPT ![s].fate = history'[s]]
    <3>1. FinishTurn(s, plan[s].fate) /\ plan' = [plan EXCEPT ![s].fate = FinishedAs(s, plan[s].fate)]
      BY <1>4 DEF FinishWorkspaceTurn
    <3> QED BY <3>1, <2>2, FinishRecords
  <2>5. plan'[s].fate = history'[s]
    BY <2>4 DEF Plan
  <2>6. \A t \in Turn \ {s} : history'[t] = history[t] /\ plan'[t] = plan[t]
    BY <2>1, <2>4
  <2>7. PICK l \in {"unstagedRec", "unsentRec", "recording", "failedRec", "netRec"} :
          /\ Goto(s, l)
          /\ pc[s] = "unstaging" <=> l = "unstagedRec"
          /\ pc[s] = "unsending" <=> l = "unsentRec"
          /\ pc[s] = "finishing" <=> l = "recording"
          /\ pc[s] = "failing" <=> l = "failedRec"
          /\ pc[s] = "netTurn" <=> l = "netRec"
    <3>1. pc[s] \in {"unstaging", "unsending", "finishing", "failing", "netTurn"}
      BY <1>4 DEF FinishWorkspaceTurn, HistoryAwait
    <3>2. Goto(s, HistoryAwait[pc[s]])
      BY <1>4 DEF FinishWorkspaceTurn
    <3> HIDE DEF Goto
    <3> QED BY <3>1, <3>2 DEF HistoryAwait
  <2>8. Alone(s) /\ Effect(s) /\ UNCHANGED target
    BY <1>4, <2>6, <2>7 DEF FinishWorkspaceTurn
  <2>9. Earned(s)'
    BY <1>4, <2>3, <2>5, <2>7 DEF FinishWorkspaceTurn, HistoryAwait
  <2>10. Placed(s) => Placed(s)'
    BY <1>4, <2>3, <2>5, <2>7 DEF FinishWorkspaceTurn, HistoryAwait
  <2> QED BY <2>8, <2>9, <2>10, TakenSame
<1>5. CASE RecordUnstaged(s)
  BY <1>5, TakenSame DEF RecordUnstaged
<1> QED BY <1>1, <1>2, <1>3, <1>4, <1>5

LEMMA ExecutionGood ==
  ASSUME IInv, NEW s \in Turn, TurnInv(s),
         \/ AwaitDriver(s) \/ BeginRunning(s) \/ RecordStarted(s) \/ RecordNet(s)
         \/ PastePrompt(s) \/ PressEnter(s) \/ ConfirmSubmission(s)
         \/ WatchRejects(s) \/ ArtifactTerminal(s) \/ CheckOwner(s) \/ RecordFinished(s)
  PROVE  TurnGood(s)
<1> s \in Fiber /\ s # None
  BY FibersAreDistinct DEF Fiber
<1> None \notin Terminal \cup {"accepted", "running"}
  BY NoneIsNoRecord DEF Recorded, Unfinished
<1> USE DEF IInv, FiberInv, FiberTypes, DataTypes, MemoryTypes, CallTypes, DiskTypes,
        PaneTypes, TurnGood, Alone, TurnInv, Placed, Earned, Effect, Same, Suspended,
        unchangedByTurns, unchangedByEntries, DeleteEntry, diskVars, tmuxVars, marks, faultVars, Goto, PersistSession, RecordWritten,
        RecordFails, Terminal, Unwritten, Admitted, Withdrawn, Typing, InAgent, Ending, Net,
        Failing
<1>1. CASE AwaitDriver(s)
  BY <1>1, TakenSame DEF AwaitDriver, FailUnexpectedly, SetPlan, Plan
<1>2. CASE BeginRunning(s)
  BY <1>2, TakenSame DEF BeginRunning
<1>3. CASE RecordStarted(s)
  BY <1>3, TakenSame DEF RecordStarted, FailUnexpectedly, SetPlan, Plan
<1>4. CASE RecordNet(s)
  BY <1>4, TakenSame DEF RecordNet
<1>5. CASE PastePrompt(s)
  BY <1>5, TakenSame DEF PastePrompt
<1>6. CASE PressEnter(s)
  BY <1>6, TakenSame DEF PressEnter
<1>7. CASE ConfirmSubmission(s)
  BY <1>7, TakenSame DEF ConfirmSubmission
<1>8. CASE WatchRejects(s)
  BY <1>8, TakenSame DEF WatchRejects
<1>9. CASE ArtifactTerminal(s)
  BY <1>9, TakenSame DEF ArtifactTerminal, SetPlan, Plan
<1>10. CASE CheckOwner(s)
  BY <1>10, TakenSame DEF CheckOwner
<1>11. CASE RecordFinished(s)
  BY <1>11, TakenSame DEF RecordFinished
<1> QED BY <1>1, <1>2, <1>3, <1>4, <1>5, <1>6, <1>7, <1>8, <1>9, <1>10, <1>11

LEMMA FailureGood ==
  ASSUME IInv, NEW s \in Turn, TurnInv(s),
         Caught(s) \/ Expired(s) \/ SettleTimedOutDriver(s) \/ RecordFailed(s) \/ Finally(s)
  PROVE  TurnGood(s)
<1> s \in Fiber /\ s # None
  BY FibersAreDistinct DEF Fiber
<1> None \notin Terminal \cup {"accepted", "running"}
  BY NoneIsNoRecord DEF Recorded, Unfinished
<1> USE DEF IInv, FiberInv, FiberTypes, DataTypes, MemoryTypes, CallTypes, DiskTypes,
        PaneTypes, TurnGood, Alone, TurnInv, Placed, Earned, Effect, Same, Suspended,
        unchangedByTurns, unchangedByEntries, DeleteEntry, diskVars, tmuxVars, marks, faultVars, Goto, PersistSession, RecordWritten,
        RecordFails, Terminal, Unwritten, Admitted, Withdrawn, Typing, InAgent, Ending, Net,
        Failing
<1>1. CASE Caught(s)
  BY <1>1, TakenSame DEF Caught, PlanFailure, SetPlan, Plan
<1>2. CASE Expired(s)
  BY <1>2, TakenSame DEF Expired, PlanFailure, SetPlan, Plan
<1>3. CASE SettleTimedOutDriver(s)
  BY <1>3, TakenSame DEF SettleTimedOutDriver, SetPlan, Plan
<1>4. CASE RecordFailed(s)
  BY <1>4, TakenSame DEF RecordFailed
<1>5. CASE Finally(s)
  BY <1>5, TakenSame DEF Finally
<1> QED BY <1>1, <1>2, <1>3, <1>4, <1>5

-----------------------------------------------------------------------------
(* The steps of SubmittedTurn. *)
Lives == [s \in Turn |-> Life(s)]

LifeOf(s) ==
  IF diskRecord[s] \in Terminal THEN diskRecord[s]
  ELSE IF s \in handed THEN "handed" ELSE IF diskRecord[s] = None THEN "unknown" ELSE diskRecord[s]

LEMMA LifeCases ==
  ASSUME NEW s \in Turn
  PROVE  /\ Life(s) = IF TakenByClose(s) THEN "taken" ELSE LifeOf(s)
         /\ Life(s)' = IF TakenByClose(s)' THEN "taken" ELSE LifeOf(s)'
BY DEF Life, LifeOf

(* A life that moves as SubmittedTurn allows, while all others stay. *)
LEMMA OneLife ==
  ASSUME NEW s \in Turn, \A t \in Turn \ {s} : Life(t)' = Life(t),
         \/ Life(s)' = Life(s)
         \/ Life(s) = "unknown" /\ Life(s)' = "accepted"
         \/ Life(s) = "accepted" /\ Life(s)' = "running"
         \/ Life(s) = "running" /\ Life(s)' = "handed"
         \/ Life(s) = "handed" /\ Life(s)' = "completed"
         \/ /\ Life(s) \in {"unknown", "accepted", "running", "handed"}
            /\ Life(s)' \in {"failed", "interrupted", "taken"}
  PROVE  [Promise!Next]_Lives
<1>1. Lives' = [Lives EXCEPT ![s] = Life(s)'] /\ Lives[s] = Life(s)
  BY DEF Lives
<1>2. CASE Life(s)' = Life(s)
  BY <1>2 DEF Lives
<1>3. CASE Life(s) = "unknown" /\ Life(s)' = "accepted"
  BY <1>1, <1>3 DEF Lives, Promise!Next, Promise!Accept, Promise!Step
<1>4. CASE Life(s) = "accepted" /\ Life(s)' = "running"
  BY <1>1, <1>4 DEF Lives, Promise!Next, Promise!Start, Promise!Step
<1>5. CASE Life(s) = "running" /\ Life(s)' = "handed"
  BY <1>1, <1>5 DEF Lives, Promise!Next, Promise!HandOver, Promise!Step
<1>6. CASE Life(s) = "handed" /\ Life(s)' = "completed"
  BY <1>1, <1>6 DEF Lives, Promise!Next, Promise!Complete, Promise!Step
<1>7. CASE /\ Life(s) \in {"unknown", "accepted", "running", "handed"}
           /\ Life(s)' \in {"failed", "interrupted", "taken"}
  BY <1>1, <1>7 DEF Lives, Promise!Next, Promise!GiveUp, Promise!Take, Promise!Step,
     Promise!Open, Promise!Verdict
<1> QED BY <1>2, <1>3, <1>4, <1>5, <1>6, <1>7

LEMMA LifeStays ==
  ASSUME NEW s \in Turn, TakenByClose(s)' <=> TakenByClose(s),
         TakenByClose(s) \/ (diskRecord'[s] = diskRecord[s] /\ (s \in handed' <=> s \in handed))
  PROVE  Life(s)' = Life(s)
BY LifeCases DEF LifeOf

(* An effect on the record and the prompt of an untaken turn. *)
LEMMA EffectIsPromised ==
  ASSUME DiskTypes, NEW s \in Turn, UNCHANGED target,
         \A t \in Turn \ {s} : Same(t), TakenByClose(s) \/ Effect(s)
  PROVE  [Promise!Next]_Lives
<1>1. \A t \in Turn \ {s} : Life(t)' = Life(t)
  BY TakenSame, LifeStays DEF Same
<1>2. CASE TakenByClose(s)
  BY <1>1, <1>2, TakenSame, LifeStays, OneLife
<1>3. CASE ~TakenByClose(s)
  <2>1. Life(s) = LifeOf(s) /\ Life(s)' = LifeOf(s)'
    BY <1>3, TakenSame, LifeCases
  <2>2. None \notin Terminal \cup {"accepted", "running"}
    BY NoneIsNoRecord DEF Recorded, Unfinished
  <2>3. diskRecord[s] \in {"accepted", "running", None} \cup Terminal
    BY DEF DiskTypes, Recorded, Unfinished
  <2> QED BY <1>1, <1>3, <2>1, <2>2, <2>3, OneLife DEF Effect, LifeOf, Terminal
<1> QED BY <1>2, <1>3

(* A step that changes no life. *)
LEMMA NothingIsPromised ==
  ASSUME \A s \in Turn : Life(s)' = Life(s)
  PROVE  [Promise!Next]_Lives
BY DEF Lives

-----------------------------------------------------------------------------
(* Whoever takes a step, the daemon is serving. *)
LEMMA TurnIsAwake ==
  ASSUME Quiet, NEW s \in Turn, TurnStep(s)
  PROVE  up = "serving"
<1> s \in Fiber
  BY DEF Fiber
<1>1. CASE Submit(s)
  BY <1>1 DEF Submit, JoinChain
<1>2. CASE ~Submit(s)
  <2>1. pc[s] \notin Gone
    BY <1>2 DEF TurnStep, OwnStep, Admit, ProbeDriver, RecordAccepted, AdmissionThrew,
       RecordRejected, StageTurn, RecordStaged, SubmitThrew, FinishWorkspaceTurn, HistoryAwait,
       RecordUnstaged, AwaitDriver, BeginRunning, RecordStarted, RecordNet, PastePrompt,
       PressEnter, ConfirmSubmission, WatchRejects, ArtifactTerminal, CheckOwner, RecordFinished,
       Caught, Expired, SettleTimedOutDriver, RecordFailed, Finally, Suspended, Gone
  <2> QED BY <2>1 DEF Quiet
<1> QED BY <1>1, <1>2

(* Only one operation of a key runs. *)
LEMMA OneRuns ==
  ASSUME IInv, NEW f \in Fiber, NEW g \in Fiber, pc[f] \in Running, pc[g] \in Running
  PROVE  f = g
BY DEF IInv, FiberInv, HeadRuns, HoldsChain

LEMMA TurnStepPromised ==
  ASSUME IInv, HandoverInv, MaxHistoryFaults = 0, NEW s \in Turn, TurnStep(s)
  PROVE  HandoverInv' /\ [Promise!Next]_Lives
<1> s \in Fiber
  BY DEF Fiber
<1>1. TurnInv(s)
  BY DEF HandoverInv
<1>2. TurnGood(s)
  BY <1>1, AdmissionGood, StagingGood, ExecutionGood, FailureGood DEF TurnStep, OwnStep
<1>3. Alone(s) /\ UNCHANGED target
  BY <1>2 DEF TurnGood, Alone
<1>4. [Promise!Next]_Lives
  BY <1>2, <1>3, EffectIsPromised DEF TurnGood, Alone, IInv, DataTypes
<1>5. \A t \in Turn : TurnInv(t)'
  <2> SUFFICES ASSUME NEW t \in Turn, t # s PROVE TurnInv(t)'
    BY <1>2 DEF TurnGood
  <2>1. /\ TurnInv(t) /\ Same(t) /\ pc'[t] = pc[t]
        /\ active' = t => active = t
    BY <1>3, FibersAreDistinct DEF Alone, HandoverInv, Fiber
  <2> QED BY <1>3, <2>1, TakenSame, UntouchedKeeps
<1>6. \A c \in Control : CloseInv(c)'
  <2> SUFFICES ASSUME NEW c \in Control PROVE CloseInv(c)'
    OBVIOUS
  <2>1. CloseInv(c) /\ c # s /\ c \in Fiber
    BY FibersAreDistinct DEF HandoverInv, Fiber
  <2>2. pc'[c] = pc[c] /\ UNCHANGED <<op, target>>
    BY <1>3, <2>1 DEF Alone
  <2>3. CASE active' \in {active, None}
    BY <2>1, <2>2, <2>3 DEF CloseInv
  <2>4. CASE pc[s] = "probing"
    <3>1. pc[c] \notin Closing
      BY <2>1, <2>4, OneRuns DEF Closing, Running, LockedAwait
    <3> QED BY <2>1, <2>2, <3>1 DEF CloseInv
  <2> QED BY <1>3, <2>3, <2>4 DEF Alone
<1>7. up' = "serving"
  BY <1>3, TurnIsAwake DEF HandoverInv, Alone
<1> QED BY <1>4, <1>5, <1>6, <1>7 DEF HandoverInv, Quiet, BootInv

-----------------------------------------------------------------------------
(* A fiber that is no turn, and touches none. *)
LEMMA BystanderKeeps ==
  ASSUME HandoverInv, up = "serving", NEW f \in Fiber \ Turn,
         UNCHANGED <<up, active, diskRecord, history, plan, record, handed>>,
         \A s \in Turn : TakenByClose(s)' <=> TakenByClose(s),
         \A g \in Fiber \ {f} : pc'[g] = pc[g],
         \A c \in Control \ {f} : target'[c] = target[c] /\ op'[c] = op[c],
         f \in Control => CloseInv(f)'
  PROVE  HandoverInv' /\ [Promise!Next]_Lives
<1>1. \A s \in Turn : TurnInv(s)'
  <2> SUFFICES ASSUME NEW s \in Turn PROVE TurnInv(s)'
    OBVIOUS
  <2>1. Same(s) /\ pc'[s] = pc[s] /\ TurnInv(s)
    BY DEF Same, HandoverInv, Fiber
  <2> QED BY <2>1, UntouchedKeeps
<1>2. \A c \in Control : CloseInv(c)'
  <2> SUFFICES ASSUME NEW c \in Control, c # f PROVE CloseInv(c)'
    OBVIOUS
  <2>1. CloseInv(c) /\ pc'[c] = pc[c] /\ target'[c] = target[c] /\ op'[c] = op[c]
    BY DEF HandoverInv, Fiber
  <2> QED BY <2>1 DEF CloseInv
<1>3. [Promise!Next]_Lives
  BY LifeStays, NothingIsPromised
<1> QED BY <1>1, <1>2, <1>3 DEF HandoverInv, Quiet, BootInv

LEMMA InterruptPromised ==
  ASSUME IInv, HandoverInv, NEW f \in Interrupt, InterruptStep(f)
  PROVE  HandoverInv' /\ [Promise!Next]_Lives
<1>1. f \in Fiber \ Turn /\ f \notin Control
  BY FibersAreDistinct DEF Fiber
<1>2. up = "serving"
  BY <1>1 DEF HandoverInv, Quiet, InterruptStep, CallInterrupt, SendEscape, Gone
<1>3. /\ UNCHANGED <<up, active, diskRecord, history, plan, record, handed, op>>
      /\ target' = target \/ \E s \in Turn \cup {None} : target' = [target EXCEPT ![f] = s]
      /\ \E l \in Await : Goto(f, l)
  <2>1. CASE CallInterrupt(f)
    <3>1. active \in Turn \cup {None}
      BY DEF IInv, DataTypes, MemoryTypes
    <3>2. \E l \in {"intQuiet", "intWriting", "done"} : Goto(f, l)
      BY <2>1 DEF CallInterrupt, MarkInterrupted, PersistSession
    <3> QED BY <2>1, <3>1, <3>2, Labels DEF CallInterrupt, MarkInterrupted, diskVars, marks, Await, Gone
  <2>2. CASE SendEscape(f)
    BY <1>1, <2>2 DEF SendEscape, diskVars, marks, Await, Gone
  <2> QED BY <2>1, <2>2 DEF InterruptStep
<1>4. \A g \in Fiber \ {f} : pc'[g] = pc[g]
  BY <1>3 DEF Goto, IInv, FiberInv, FiberTypes
<1>5. \A c \in Control : target'[c] = target[c]
  BY <1>1, <1>3 DEF IInv, DataTypes, CallTypes
<1>6. \A s \in Turn : TakenByClose(s)' <=> TakenByClose(s)
  BY <1>5 DEF TakenByClose
<1> QED BY <1>1, <1>2, <1>3, <1>4, <1>5, <1>6, BystanderKeeps

LEMMA LookupPromised ==
  ASSUME IInv, HandoverInv, NEW g \in Lookup, LookupStep(g)
  PROVE  HandoverInv' /\ [Promise!Next]_Lives
<1>1. g \in Fiber \ Turn /\ g \notin Control
  BY FibersAreDistinct DEF Fiber
<1>2. up = "serving"
  BY <1>1 DEF HandoverInv, Quiet, LookupStep, CallGet, LookAtDriver, Gone
<1>3. /\ UNCHANGED <<up, active, diskRecord, history, plan, record, handed, op, target>>
      /\ \E l \in {"looking", "getWriting", "done"} : Goto(g, l)
  BY DEF LookupStep, CallGet, LookAtDriver, PersistSession, diskVars, marks
<1>4. \A f \in Fiber \ {g} : pc'[f] = pc[f]
  BY <1>3 DEF Goto, IInv, FiberInv, FiberTypes
<1> QED BY <1>1, <1>2, <1>3, <1>4, TakenSame, BystanderKeeps

-----------------------------------------------------------------------------
(* The end of a write of session.json. *)
LEMMA AfterTable ==
  ASSUME NEW w \in Writing, NEW l \in {AfterWrite[w], AfterFault[w]}
  PROVE  \/ w = "accepted" /\ l \in {"staging", "admitThrew"}
         \/ w = "submitted" /\ l \in {"exec", "submitThrew"}
         \/ w = "bound" /\ l \in {"watching", "caught"}
         \/ w = "released" /\ l \in {"finally", "caught"}
         \/ w = "closeIntr" /\ l \in {"closeKey", "done"}
         \/ w = "closeQuiet" /\ l \in {"closePoll", "done"}
         \/ l \in {"done", "finally", "intKey", "launching", "restoring"}
<1>1. \/ w = "accepted" /\ AfterWrite[w] = "staging"
      \/ w = "submitted" /\ AfterWrite[w] = "exec"
      \/ w = "bound" /\ AfterWrite[w] = "watching"
      \/ w = "released" /\ AfterWrite[w] = "finally"
      \/ w = "closeIntr" /\ AfterWrite[w] = "closeKey"
      \/ w = "closeQuiet" /\ AfterWrite[w] = "closePoll"
      \/ AfterWrite[w] \in {"done", "finally", "intKey", "launching"}
  BY Labels DEF AfterWrite
<1>2. \/ w = "accepted" /\ AfterFault[w] = "admitThrew"
      \/ w = "submitted" /\ AfterFault[w] = "submitThrew"
      \/ w \in {"bound", "released"} /\ AfterFault[w] = "caught"
      \/ AfterFault[w] \in {"done", "restoring"}
      \/ /\ w \notin {"accepted", "submitted", "bound", "released", "closeIntr", "closeQuiet"}
         /\ AfterFault[w] = AfterWrite[w]
  BY Labels DEF AfterFault, Writing
<1> QED BY <1>1, <1>2

LEMMA WritePromised ==
  ASSUME IInv, HandoverInv, NEW f \in Fiber, WriteStep(f)
  PROVE  HandoverInv' /\ [Promise!Next]_Lives
<1>1. up = "serving" /\ UNCHANGED <<up, active, diskRecord, history, plan, record, handed, op, target>>
  <2>1. Called # NoImage
    BY DEF Called, NoImage
  <2> QED BY <2>1 DEF WriteStep, Serialize, SessionWritten, SessionWriteFails, HandoverInv, Quiet,
             memoryVars, diskVars, marks
<1>2. \/ pc' = pc
      \/ pc[f] \in Writing /\ \E l \in {AfterWrite[pc[f]], AfterFault[pc[f]]} : Goto(f, l)
  BY DEF WriteStep, Serialize, SessionWritten, SessionWriteFails, IInv, FiberInv, WritersWait
<1>3. PICK l : /\ pc' = [pc EXCEPT ![f] = l]
               /\ l = pc[f] \/ (pc[f] \in Writing /\ l \in {AfterWrite[pc[f]], AfterFault[pc[f]]})
  <2>1. pc \in [Fiber -> Await]
    BY DEF IInv, FiberInv, FiberTypes
  <2> QED BY <1>2, <2>1 DEF Goto
<1>4. \A g \in Fiber : pc'[g] = IF g = f THEN l ELSE pc[g]
  BY <1>3 DEF IInv, FiberInv, FiberTypes
<1>5. \A s \in Turn : (TakenByClose(s)' <=> TakenByClose(s)) /\ Same(s) /\ TurnInv(s)
  BY <1>1, TakenSame DEF Same, HandoverInv
<1>6. \A s \in Turn : TurnInv(s)'
  <2> SUFFICES ASSUME NEW s \in Turn PROVE TurnInv(s)'
    OBVIOUS
  <2>1. CASE s # f \/ l = pc[f]
    BY <1>1, <1>4, <1>5, <2>1, UntouchedKeeps DEF Fiber
  <2>2. CASE s = f /\ l # pc[f]
    <3>1. Earned(s)'
      BY <1>1, <1>3, <1>4, <1>5, <2>2, AfterTable DEF TurnInv, Earned, InAgent, Net
    <3>2. Placed(s) => Placed(s)'
      BY <1>1, <1>3, <1>4, <1>5, <2>2, AfterTable DEF Placed, Unwritten, Admitted, Withdrawn,
         Typing, InAgent, Ending, Failing, Net, Terminal
    <3> QED BY <1>5, <3>1, <3>2 DEF TurnInv
  <2> QED BY <2>1, <2>2
<1>7. \A c \in Control : CloseInv(c)'
  <2> SUFFICES ASSUME NEW c \in Control PROVE CloseInv(c)'
    OBVIOUS
  <2>1. c \in Fiber /\ CloseInv(c)
    BY DEF HandoverInv, Fiber
  <2>2. pc'[c] \in Closing \cup {"idle", "queued", "checking"} =>
          \/ pc'[c] = pc[c]
          \/ pc[c] \in Closing /\ pc'[c] \in Closing
    BY <1>3, <1>4, <2>1, AfterTable DEF Closing
  <2> QED BY <1>1, <2>1, <2>2 DEF CloseInv, Closing
<1>8. [Promise!Next]_Lives
  BY <1>5, LifeStays, NothingIsPromised DEF Same
<1> QED BY <1>1, <1>6, <1>7, <1>8 DEF HandoverInv, Quiet, BootInv

-----------------------------------------------------------------------------
(* The control calls.  All but close leave the turns alone. *)
Withholds(c) ==
  \/ CallControl(c) \/ BeginControl(c) \/ LaunchChecks(c) \/ Respawn(c) \/ DriverStarts(c)
  \/ RestorePrevious(c) \/ AwaitTurnEnd(c) \/ RecheckAttached(c) \/ KillPane(c) \/ SendEscape(c)
  \/ CheckAttached(c) /\ target' = target
  \/ AfterKill(c) /\ target' = target /\ record' = record

LEMMA ControlIsAwake ==
  ASSUME Quiet, NEW c \in Control, ControlStep(c) \/ SendEscape(c)
  PROVE  up = "serving"
<1> c \in Fiber
  BY DEF Fiber
<1>1. CASE CallControl(c)
  BY <1>1 DEF CallControl, JoinChain
<1>2. CASE ~CallControl(c)
  BY <1>2 DEF ControlStep, SendEscape, BeginControl, CheckAttached, LaunchChecks, Respawn,
     DriverStarts, RestorePrevious, AwaitTurnEnd, RecheckAttached, KillPane, AfterKill,
     CloseFinishesTurn, CloseRecordsTurn, Quiet, Gone
<1> QED BY <1>1, <1>2

(* Where a call goes that interrupts no turn. *)
LEMMA WithholdsMoves ==
  ASSUME IInv, NEW c \in Control, CloseInv(c), Withholds(c)
  PROVE  /\ UNCHANGED <<up, active, diskRecord, history, plan, record, handed, target>>
         /\ \A g \in Fiber \ {c} : pc'[g] = pc[g]
         /\ \A d \in Control \ {c} : op'[d] = op[d]
         /\ CloseInv(c)'
<1> c \in Fiber
  BY DEF Fiber
<1> USE DEF IInv, FiberInv, FiberTypes, DataTypes, MemoryTypes, CallTypes, diskVars, marks, faultVars,
        Goto, PersistSession, CloseInv, Closing
<1>1. CASE CallControl(c)
  BY <1>1 DEF CallControl, JoinChain
<1>2. CASE BeginControl(c)
  BY <1>2 DEF BeginControl
<1>3. CASE LaunchChecks(c)
  BY <1>3 DEF LaunchChecks
<1>4. CASE Respawn(c)
  BY <1>4 DEF Respawn
<1>5. CASE DriverStarts(c)
  BY <1>5 DEF DriverStarts
<1>6. CASE RestorePrevious(c)
  BY <1>6 DEF RestorePrevious
<1>7. CASE AwaitTurnEnd(c)
  BY <1>7 DEF AwaitTurnEnd
<1>8. CASE RecheckAttached(c)
  BY <1>8 DEF RecheckAttached
<1>9. CASE KillPane(c)
  BY <1>9 DEF KillPane
<1>10. CASE SendEscape(c)
  BY <1>10, FibersAreDistinct DEF SendEscape
<1>11. CASE CheckAttached(c) /\ target' = target
  BY <1>11 DEF CheckAttached, MarkInterrupted
<1>12. CASE AfterKill(c) /\ target' = target /\ record' = record
  BY <1>12 DEF AfterKill
<1> QED BY <1>1, <1>2, <1>3, <1>4, <1>5, <1>6, <1>7, <1>8, <1>9, <1>10, <1>11, <1>12
        DEF Withholds

(* close finds a turn and interrupts it: SubmittedTurn's Take. *)
LEMMA CloseTakes ==
  ASSUME IInv, HandoverInv, up = "serving", NEW c \in Control, CheckAttached(c), target' # target
  PROVE  HandoverInv' /\ [Promise!Next]_Lives
<1> c \in Fiber
  BY DEF Fiber
<1>1. /\ pc[c] = "checking" /\ active # None
      /\ target' = [target EXCEPT ![c] = active]
      /\ \E l \in {"closeQuiet", "closeIntr", "done"} : Goto(c, l)
      /\ UNCHANGED <<up, active, diskRecord, history, plan, record, handed, op>>
  BY DEF CheckAttached, MarkInterrupted, PersistSession, diskVars, marks
<1>2. active \in Turn
  BY <1>1 DEF IInv, DataTypes, MemoryTypes
<1>3. target[c] = None
  BY <1>1 DEF HandoverInv, CloseInv
<1>4. \A d \in Control : target'[d] = IF d = c THEN active ELSE target[d]
  BY <1>1 DEF IInv, DataTypes, CallTypes
<1>5. \A s \in Turn : TakenByClose(s)' <=> TakenByClose(s) \/ s = active
  BY <1>2, <1>3, <1>4, FibersAreDistinct DEF TakenByClose, Fiber
<1>6. \A g \in Fiber \ {c} : pc'[g] = pc[g]
  BY <1>1 DEF Goto, IInv, FiberInv, FiberTypes
<1>7. \A s \in Turn : TurnInv(s)'
  <2> SUFFICES ASSUME NEW s \in Turn PROVE TurnInv(s)'
    OBVIOUS
  <2>1. Same(s) /\ pc'[s] = pc[s] /\ TurnInv(s)
    BY <1>1, <1>6, FibersAreDistinct DEF Same, HandoverInv, Fiber
  <2> QED BY <1>1, <1>5, <2>1, UntouchedKeeps
<1>8. \A d \in Control : CloseInv(d)'
  <2> SUFFICES ASSUME NEW d \in Control PROVE CloseInv(d)'
    OBVIOUS
  <2>1. CASE d = c
    BY <1>1, <1>4, <2>1 DEF CloseInv, Goto, IInv, FiberInv, FiberTypes
  <2>2. CASE d # c
    <3>1. CloseInv(d) /\ pc'[d] = pc[d] /\ target'[d] = target[d]
      BY <1>4, <1>6, <2>2 DEF HandoverInv, Fiber
    <3> QED BY <1>1, <3>1 DEF CloseInv
  <2> QED BY <2>1, <2>2
<1>9. [Promise!Next]_Lives
  <2>1. \A t \in Turn \ {active} : Life(t)' = Life(t)
    BY <1>1, <1>5, LifeStays
  <2>2. CASE TakenByClose(active)
    BY <1>1, <1>2, <1>5, <2>1, <2>2, LifeStays, NothingIsPromised
  <2>3. CASE ~TakenByClose(active)
    <3>1. Life(active) \in {"unknown", "accepted", "running", "handed"}
      <4>1. diskRecord[active] \notin Terminal
        BY <1>2, <2>3 DEF HandoverInv, TurnInv, Placed
      <4>2. diskRecord[active] \in Terminal \cup {"accepted", "running", None}
        BY <1>2 DEF IInv, DataTypes, DiskTypes, Recorded, Unfinished
      <4> QED BY <1>2, <2>3, <4>1, <4>2, LifeCases DEF LifeOf
    <3>2. Life(active)' = "taken"
      <4>1. PICK s \in Turn : s = active
        BY <1>2
      <4>2. Life(s)' = "taken"
        BY <1>5, <4>1, LifeCases
      <4> QED BY <1>1, <4>1, <4>2
    <3> QED BY <1>1, <1>2, <2>1, <3>1, <3>2, OneLife
  <2> QED BY <2>2, <2>3
<1> QED BY <1>1, <1>7, <1>8, <1>9 DEF HandoverInv, Quiet, BootInv

(* What a close writes about its turn concerns nobody else. *)
LEMMA CloserKeeps ==
  ASSUME IInv, HandoverInv, up = "serving", NEW c \in Control,
         UNCHANGED <<up, target, op, handed, plan>>, active' \in {active, None},
         \A s \in Turn : s # target[c] => Same(s),
         \A s \in Turn : s = target[c] => Earned(s)',
         \A g \in Fiber \ {c} : pc'[g] = pc[g],
         pc'[c] \in {"closeTurn", "closeRec", "ctlWriting", "done"}
  PROVE  HandoverInv' /\ [Promise!Next]_Lives
<1>1. \A s \in Turn : (TakenByClose(s)' <=> TakenByClose(s))
                      /\ (s = target[c] => TakenByClose(s))
  BY TakenSame DEF TakenByClose
<1>2. \A s \in Turn : TurnInv(s)'
  <2> SUFFICES ASSUME NEW s \in Turn PROVE TurnInv(s)'
    OBVIOUS
  <2>1. CASE s = target[c]
    BY <1>1, <2>1 DEF TurnInv
  <2>2. CASE s # target[c]
    <3>1. Same(s) /\ TurnInv(s) /\ pc'[s] = pc[s] /\ (active' = s => active = s)
      BY <2>2, FibersAreDistinct DEF HandoverInv, Fiber
    <3> QED BY <1>1, <3>1, UntouchedKeeps
  <2> QED BY <2>1, <2>2
<1>3. \A d \in Control : CloseInv(d)'
  <2> SUFFICES ASSUME NEW d \in Control PROVE CloseInv(d)'
    OBVIOUS
  <2>1. CASE d = c
    BY <2>1 DEF CloseInv, Closing
  <2>2. CASE d # c
    <3>1. CloseInv(d) /\ pc'[d] = pc[d]
      BY <2>2 DEF HandoverInv, Fiber
    <3> QED BY <3>1 DEF CloseInv
  <2> QED BY <2>1, <2>2
<1>4. \A s \in Turn : Life(s)' = Life(s)
  BY <1>1, LifeStays DEF Same
<1>5. [Promise!Next]_Lives
  BY <1>4, NothingIsPromised
<1> QED BY <1>2, <1>3, <1>5 DEF HandoverInv, Quiet, BootInv

LEMMA CloseWrites ==
  ASSUME IInv, HandoverInv, up = "serving", NEW c \in Control,
         (AfterKill(c) /\ ~Withholds(c)) \/ CloseFinishesTurn(c) \/ CloseRecordsTurn(c)
  PROVE  HandoverInv' /\ [Promise!Next]_Lives
<1> c \in Fiber
  BY DEF Fiber
<1> /\ \A s \in Turn : Earned(s) /\ s # None
    /\ CloseInv(c)
  BY FibersAreDistinct DEF HandoverInv, TurnInv, Fiber
<1> DEFINE Moved(l) == pc'[c] = l /\ \A g \in Fiber \ {c} : pc'[g] = pc[g]
<1> USE DEF IInv, FiberInv, FiberTypes, DataTypes, MemoryTypes, CallTypes, DiskTypes
<1>1. CASE AfterKill(c) /\ ~Withholds(c)
  <2>1. /\ pc[c] = "killed" /\ op[c].kind = "close" /\ active # None
        /\ target' = [target EXCEPT ![c] = active]
        /\ record' = [record EXCEPT ![active] = "interrupted"]
        /\ Goto(c, "closeTurn")
        /\ UNCHANGED <<up, op, handed, plan, active, diskRecord, history>>
    BY <1>1 DEF AfterKill, Withholds, diskVars, marks
  <2>2. target[c] = active
    BY <2>1 DEF CloseInv, Closing
  <2>3. target' = target
    BY <2>1, <2>2
  <2>4. Moved("closeTurn")
    BY <2>1 DEF Goto
  <2>5. \A s \in Turn : (s # target[c] => Same(s))
    BY <2>1, <2>2 DEF Same
  <2>6. \A s \in Turn : s = target[c] => Earned(s)'
    BY <2>1, <2>2, <2>4, FibersAreDistinct DEF Earned, Fiber
  <2> QED BY <2>1, <2>3, <2>4, <2>5, <2>6, CloserKeeps
<1>2. CASE CloseFinishesTurn(c)
  <2>1. /\ UNCHANGED <<up, op, target, handed, plan, active, diskRecord>>
        /\ Goto(c, "closeRec")
        /\ \/ history' = history
           \/ history' = [history EXCEPT ![target[c]] = record[target[c]]]
        /\ record' = [record EXCEPT ![target[c]] = FinishedAs(target[c], record[target[c]])]
    BY <1>2 DEF CloseFinishesTurn, FinishTurn, FirstRecord, marks
  <2>2. Moved("closeRec")
    BY <2>1 DEF Goto
  <2>3. \A s \in Turn : s # target[c] => Same(s)
    BY <2>1 DEF Same
  <2>4. \A s \in Turn : s = target[c] => Earned(s)'
    BY <2>1, <2>2, FibersAreDistinct DEF Earned, FinishedAs, Fiber
  <2> QED BY <2>1, <2>2, <2>3, <2>4, CloserKeeps
<1>3. CASE CloseRecordsTurn(c)
  <2>1. /\ UNCHANGED <<up, op, target, handed, plan, record, history>>
        /\ active' \in {active, None}
        /\ \/ diskRecord' = diskRecord
           \/ diskRecord' = [diskRecord EXCEPT ![target[c]] = record[target[c]]]
    BY <1>3 DEF CloseRecordsTurn, RecordWritten, RecordFails, marks
  <2>2. \E l \in {"ctlWriting", "done"} : Moved(l)
    <3>1. \E l \in {"ctlWriting", "done"} : Goto(c, l)
      BY <1>3 DEF CloseRecordsTurn, PersistSession
    <3> QED BY <3>1 DEF Goto
  <2>3. \A s \in Turn : s # target[c] => Same(s)
    BY <2>1 DEF Same
  <2>4. \A s \in Turn : s = target[c] => Earned(s)'
    BY <2>1, <2>2, FibersAreDistinct DEF Earned, Fiber
  <2> QED BY <2>1, <2>2, <2>3, <2>4, CloserKeeps
<1> QED BY <1>1, <1>2, <1>3

LEMMA ControlPromised ==
  ASSUME IInv, HandoverInv, NEW c \in Control, ControlStep(c) \/ SendEscape(c)
  PROVE  HandoverInv' /\ [Promise!Next]_Lives
<1>1. up = "serving" /\ CloseInv(c)
  BY ControlIsAwake DEF HandoverInv
<1>2. CASE Withholds(c)
  <2>1. c \in Fiber \ Turn
    BY FibersAreDistinct DEF Fiber
  <2> QED BY <1>1, <1>2, <2>1, WithholdsMoves, TakenSame, BystanderKeeps
<1>3. CASE CheckAttached(c) /\ target' # target
  BY <1>1, <1>3, CloseTakes
<1>4. CASE (AfterKill(c) /\ ~Withholds(c)) \/ CloseFinishesTurn(c) \/ CloseRecordsTurn(c)
  BY <1>1, <1>4, CloseWrites
<1> QED BY <1>2, <1>3, <1>4 DEF ControlStep, Withholds

-----------------------------------------------------------------------------
(* The pane, the loss of the process, and init. *)
LEMMA PanePromised ==
  ASSUME HandoverInv, NEW i \in Incarnation, PaneStep(i)
  PROVE  HandoverInv' /\ [Promise!Next]_Lives
<1>1. UNCHANGED <<up, cur, session, active, record, pc, op, target, image, plan, diskRecord,
                  history, handed>>
  BY DEF PaneStep, DriverDies, AgentFinishes, Attach, Detach, unchangedByTmux, memoryVars,
     fiberVars, diskVars, marks
<1>2. \A s \in Turn : (TakenByClose(s)' <=> TakenByClose(s)) /\ Same(s)
  BY <1>1, TakenSame DEF Same
<1>3. \A s \in Turn : TurnInv(s)'
  BY <1>1, <1>2, UntouchedKeeps DEF HandoverInv
<1>4. [Promise!Next]_Lives
  BY <1>2, LifeStays, NothingIsPromised DEF Same
<1>5. Quiet' /\ BootInv'
  BY <1>1, TakenSame DEF HandoverInv, Quiet, BootInv, Named
<1>6. \A c \in Control : CloseInv(c)'
  BY <1>1 DEF HandoverInv, CloseInv
<1> QED BY <1>3, <1>4, <1>5, <1>6 DEF HandoverInv

LEMMA CrashPromised ==
  ASSUME IInv, HandoverInv, Crash
  PROVE  HandoverInv' /\ [Promise!Next]_Lives
<1>1. UNCHANGED <<record, op, target, plan, diskRecord, history, handed>>
      /\ active' = None /\ up' = "down"
  BY DEF Crash, diskVars, marks
<1>2. \A f \in Fiber : /\ pc'[f] = pc[f] \/ pc'[f] \in {"lost", "cut"}
                       /\ pc'[f] \in Gone /\ image'[f] = NoImage
  BY DEF Crash, Gone
<1>3. \A s \in Turn : /\ TakenByClose(s)' <=> TakenByClose(s)
                      /\ Same(s) /\ s # None /\ s \in Fiber
  BY <1>1, TakenSame, FibersAreDistinct DEF Same, Fiber
<1>4. \A s \in Turn : TurnInv(s)'
  BY <1>1, <1>2, <1>3, UntouchedKeeps DEF HandoverInv
<1>5. [Promise!Next]_Lives
  BY <1>3, LifeStays, NothingIsPromised DEF Same
<1>6. \A c \in Control : CloseInv(c)'
  <2> SUFFICES ASSUME NEW c \in Control PROVE CloseInv(c)'
    OBVIOUS
  <2>1. CloseInv(c) /\ c \in Fiber
    BY DEF HandoverInv, Fiber
  <2> QED BY <1>1, <1>2, <2>1 DEF CloseInv, Closing
<1> QED BY <1>1, <1>2, <1>4, <1>5, <1>6 DEF HandoverInv, Quiet, BootInv

(* A step of init that writes no record and no history. *)
LEMMA BootKeeps ==
  ASSUME HandoverInv, UNCHANGED <<active, record, fiberVars, diskRecord, history, handed>>,
         BootInv', up # "serving" \/ up' = "serving"
  PROVE  HandoverInv' /\ [Promise!Next]_Lives
<1>1. \A s \in Turn : (TakenByClose(s)' <=> TakenByClose(s)) /\ Same(s)
  BY TakenSame DEF Same, fiberVars
<1>2. \A s \in Turn : TurnInv(s)'
  BY <1>1, UntouchedKeeps DEF HandoverInv, fiberVars
<1>3. [Promise!Next]_Lives
  BY <1>1, LifeStays, NothingIsPromised DEF Same
<1> QED BY <1>2, <1>3 DEF HandoverInv, CloseInv, Quiet, fiberVars

LEMMA BootPromised ==
  ASSUME IInv, HandoverInv, BootStep
  PROVE  HandoverInv' /\ [Promise!Next]_Lives
<1> USE DEF IInv, DataTypes, MemoryTypes, DiskTypes
<1>1. up # "serving" /\ active = None /\ \A s \in Turn : pc[s] \in Gone /\ s # None /\ s \in Fiber
  BY FibersAreDistinct DEF HandoverInv, Quiet, Fiber, BootStep, Boot, BootFinishesTurn,
     BootRecordsTurn, BootSavesSession, Reconcile, Serve
<1>2. CASE Boot
  <2>1. diskSession.active \in Turn \cup {None} /\ diskSession.inc \in Incarnation
    BY DEF SessionFile
  <2>2. Named' = diskSession.active
    BY <1>2, <2>1 DEF Boot, Named
  <2>3. BootInv'
    BY <1>2, <2>1, <2>2 DEF Boot, BootInv, diskVars, marks
  <2> QED BY <1>1, <1>2, <2>3, BootKeeps DEF Boot, diskVars, marks
<1>3. CASE BootFinishesTurn
  <2>1. PICK s \in Turn : s = Named /\ diskRecord[s] \in Unfinished /\ up' = "bootRecord"
    BY <1>3 DEF HandoverInv, BootInv, BootFinishesTurn
  <2>2. /\ UNCHANGED <<cur, session, active, fiberVars, diskRecord, handed>>
        /\ history' = history \/ (history[s] = None /\ history' = [history EXCEPT ![s] = "failed"])
        /\ record'[s] = "failed" \/ (record'[s] = history'[s] /\ history'[s] # None)
        /\ \A t \in Turn \ {s} : record'[t] = record[t]
    <3>1. FinishTurn(s, "failed") /\ record' = [record EXCEPT ![s] = FinishedAs(s, "failed")]
          /\ UNCHANGED <<cur, session, active, fiberVars, diskRecord, handed>>
      BY <1>3, <2>1 DEF BootFinishesTurn, Named, marks
    <3>2. None # "failed"
      BY NoneIsNoRecord DEF Recorded, Terminal
    <3>3. historyFaults' = historyFaults => history'[s] # None
      BY <3>1, <3>2 DEF FinishTurn, FirstRecord, CountTypes
    <3>4. history' = history \/ history' = FirstRecord(s, "failed")
      BY <3>1 DEF FinishTurn
    <3>5. history[s] # None => FirstRecord(s, "failed") = history
      BY DEF FirstRecord
    <3>6. history[s] = None => FirstRecord(s, "failed") = [history EXCEPT ![s] = "failed"]
      BY DEF FirstRecord
    <3>7. FinishedAs(s, "failed") = "failed"
          \/ (FinishedAs(s, "failed") = history'[s] /\ history'[s] # None)
      BY <3>3 DEF FinishedAs
    <3> QED BY <3>1, <3>4, <3>5, <3>6, <3>7
  <2>3. TurnInv(s) /\ (TakenByClose(s)' <=> TakenByClose(s))
    BY <2>1, <2>2, TakenSame DEF HandoverInv, fiberVars
  <2>4. TurnInv(s)' /\ (TakenByClose(s) \/ record'[s] \in Terminal)
    <3>1. Earned(s)' /\ UNCHANGED <<pc, plan>>
      BY <1>1, <2>1, <2>2, <2>3 DEF TurnInv, Earned, fiberVars
    <3>2. Placed(s) => Placed(s)' /\ record'[s] \in Terminal
      BY <1>1, <2>1, <2>2, <3>1 DEF Placed, Terminal, Gone, Net, Failing
    <3> QED BY <2>3, <3>1, <3>2 DEF TurnInv
  <2>5. \A t \in Turn : t # s => Same(t) /\ (TakenByClose(t)' <=> TakenByClose(t))
    BY <2>1, <2>2, TakenSame DEF Same, fiberVars
  <2>6. \A t \in Turn : TurnInv(t)'
    BY <2>2, <2>4, <2>5, UntouchedKeeps DEF HandoverInv, fiberVars
  <2>7. [Promise!Next]_Lives
    BY <2>2, <2>3, <2>5, LifeStays, NothingIsPromised DEF Same
  <2>8. BootInv'
    <3>1. Named' = s
      BY <2>1, <2>2 DEF Named
    <3>2. TakenByClose(Named)' <=> TakenByClose(s)
      BY <2>2, <3>1 DEF TakenByClose, fiberVars
    <3> QED BY <2>1, <2>2, <2>4, <3>1, <3>2 DEF BootInv
  <2> QED BY <1>1, <2>2, <2>6, <2>7, <2>8 DEF HandoverInv, CloseInv, Quiet, fiberVars
<1>4. CASE BootRecordsTurn
  <2>1. PICK s \in Turn : /\ s = Named /\ diskRecord[s] \in Unfinished /\ TurnInv(s)
                          /\ TakenByClose(s) \/ record[s] \in Terminal
    BY <1>4 DEF HandoverInv, BootInv, BootRecordsTurn
  <2>2. /\ UNCHANGED <<cur, session, active, record, fiberVars, history, handed>>
        /\ diskRecord' = [diskRecord EXCEPT ![s] = record[s]] /\ up' = "bootSession"
    BY <1>4, <2>1 DEF BootRecordsTurn, RecordWritten, Named, marks
  <2>3. None \notin Terminal \cup Unfinished /\ Unfinished \cap Terminal = {}
    BY NoneIsNoRecord DEF Recorded, Unfinished, Terminal
  <2>4. TakenByClose(s) \/ Effect(s)
    BY <2>1, <2>2, <2>3 DEF Effect, TurnInv, Earned
  <2>5. \A t \in Turn : t # s => Same(t)
    BY <2>2 DEF Same, fiberVars
  <2>6. [Promise!Next]_Lives
    BY <2>1, <2>2, <2>4, <2>5, EffectIsPromised DEF fiberVars
  <2>7. TurnInv(s)'
    <3>1. Earned(s)' /\ UNCHANGED <<pc, plan>> /\ (TakenByClose(s)' <=> TakenByClose(s))
      BY <2>1, <2>2, TakenSame DEF TurnInv, Earned, fiberVars
    <3>2. Placed(s) => Placed(s)'
      BY <1>1, <2>1, <2>2, <2>3, <3>1 DEF Placed, Gone, Unwritten, Admitted, Withdrawn, Typing,
         InAgent, Ending, Net, Failing
    <3> QED BY <2>1, <3>1, <3>2 DEF TurnInv
  <2>8. \A t \in Turn : TurnInv(t)'
    BY <2>2, <2>5, <2>7, TakenSame, UntouchedKeeps DEF HandoverInv, fiberVars
  <2> QED BY <1>1, <2>2, <2>6, <2>8 DEF HandoverInv, CloseInv, Quiet, BootInv, fiberVars
<1>5. CASE BootSavesSession \/ (\E i \in Incarnation : Reconcile(i)) \/ Serve
  <2>1. /\ up' \in {"reconciling", "serving"}
        /\ UNCHANGED <<active, record, fiberVars, diskRecord, history, handed>>
    BY <1>5 DEF BootSavesSession, Reconcile, Serve, unchangedByTmux, memoryVars, diskVars, marks
  <2> QED BY <1>1, <2>1, BootKeeps DEF BootInv
<1> QED BY <1>2, <1>3, <1>4, <1>5 DEF BootStep

-----------------------------------------------------------------------------
(* The invariant and the refinement. *)
LEMMA InitHandover == Init => HandoverInv /\ Promise!Init
<1> SUFFICES ASSUME Init PROVE HandoverInv /\ Promise!Init
  OBVIOUS
<1>1. \A s \in Turn : s # None /\ s \in Fiber /\ None \notin Terminal
  BY FibersAreDistinct, NoneIsNoRecord DEF Fiber, Recorded
<1>2. \A s \in Turn : TurnInv(s)
  BY <1>1 DEF Init, TurnInv, Placed, Earned, Unwritten, Admitted, Withdrawn, Typing, InAgent,
     Ending, Net, Failing, Terminal
<1>3. \A c \in Control : CloseInv(c)
  BY DEF Init, CloseInv, Closing, Fiber
<1>4. \A s \in Turn : Life(s) = "unknown"
  BY <1>1, NoneIsNoRecord, LifeCases DEF Init, TakenByClose, LifeOf, Recorded
<1>5. Promise!Init
  BY <1>4 DEF Promise!Init
<1> QED BY <1>2, <1>3, <1>5 DEF HandoverInv, Quiet, BootInv, Init

LEMMA StepHandover ==
  ASSUME MaxHistoryFaults = 0, IInv, HandoverInv, [Next]_vars
  PROVE  HandoverInv' /\ [Promise!Next]_Lives
<1>1. CASE \E s \in Turn : TurnStep(s)
  BY <1>1, TurnStepPromised
<1>2. CASE \E f \in Interrupt : InterruptStep(f)
  BY <1>2, InterruptPromised
<1>3. CASE \E c \in Control : ControlStep(c) \/ SendEscape(c)
  BY <1>3, ControlPromised
<1>4. CASE \E g \in Lookup : LookupStep(g)
  BY <1>4, LookupPromised
<1>5. CASE \E f \in Fiber : WriteStep(f)
  BY <1>5, WritePromised
<1>6. CASE \E i \in Incarnation : PaneStep(i)
  BY <1>6, PanePromised
<1>7. CASE Crash
  BY <1>7, CrashPromised
<1>8. CASE BootStep
  BY <1>8, BootPromised
<1>9. CASE UNCHANGED vars
  <2>1. UNCHANGED <<up, cur, session, active, record, pc, op, target, image, plan, diskRecord,
                    history, handed>>
    BY <1>9 DEF vars, memoryVars, fiberVars, diskVars, marks
  <2>2. \A s \in Turn : (TakenByClose(s)' <=> TakenByClose(s)) /\ Same(s)
    BY <2>1, TakenSame DEF Same
  <2>3. \A s \in Turn : TurnInv(s)'
    BY <2>1, <2>2, UntouchedKeeps DEF HandoverInv
  <2>4. [Promise!Next]_Lives
    BY <2>2, LifeStays, NothingIsPromised DEF Same
  <2>5. Quiet' /\ BootInv'
    BY <2>1, TakenSame DEF HandoverInv, Quiet, BootInv, Named
  <2> QED BY <2>1, <2>3, <2>4, <2>5 DEF HandoverInv, CloseInv
<1> QED BY <1>1, <1>2, <1>3, <1>4, <1>5, <1>6, <1>7, <1>8, <1>9 DEF Next

(* For any number of turns, interrupts, control calls, lookups, incarnations,  *)
(* lost processes and failed writes, the submission records and the panes keep  *)
(* SubmittedTurn's promise, as long as no call of finishTurn fails.             *)
THEOREM TurnsKeepTheirPromise ==
  ASSUME MaxHistoryFaults = 0
  PROVE  Spec => ImplementsSubmittedTurn
<1>1. IInv /\ HandoverInv /\ [Next]_vars => HandoverInv' /\ [Promise!Next]_Lives
  BY StepHandover
<1>2. [Promise!Next]_Lives => [Promise!Next]_[s \in Turn |-> Life(s)]
  BY DEF Lives
<1> QED BY InvHolds, InitHandover, <1>1, <1>2, PTL DEF Spec, ImplementsSubmittedTurn, Promise!Spec

-----------------------------------------------------------------------------
(* A turn has one verdict. *)
(* Before a turn is admitted, while it is, until its prompt is typed, and where *)
(* finishTurn has told it its fate.                                             *)
Waiting == {"idle", "queued", "probing"}
Locked  == {"accepting", "accepted", "admitThrew", "rejecting"}
Early   == {"staging", "staged", "submitted", "exec", "baseline", "starting"}
Told    == {"unstagedRec", "unsentRec", "recording", "failedRec", "netRec"}

(* A verdict agrees with the history of the turn.  A close that overtakes the   *)
(* start of the turn gives the history the word running; the turn is then an    *)
(* interrupted one.                                                             *)
Agrees(s, fate) ==
  history[s] # None /\ fate \in Terminal =>
    fate = history[s] \/ (history[s] \notin Terminal /\ fate = "interrupted")

(* A close that overtakes the start of the turn may find its word saved by the  *)
(* turn itself, before the history has it.                                      *)
Overrun(s) ==
  /\ interrupted[s] /\ record[s] = "interrupted" /\ diskRecord[s] = "interrupted"
  /\ pc[s] \in {"pasting", "caught", "failing", "cut", "lost"}
  /\ pc[s] = "failing" => plan[s].fate = "interrupted"

(* A close is about to finalize the turn. *)
Closed(s) == \E c \in Control : pc[c] = "closeTurn" /\ target[c] = s

TurnVerdict(s) ==
  /\ pc[s] \in Waiting => active # s /\ ~TakenByClose(s)
  /\ pc[s] \in Waiting \cup Locked => history[s] = None
  /\ pc[s] \in Early /\ history[s] # None =>
       interrupted[s] /\ history[s] \in {"interrupted", "running"}
  /\ pc[s] \in Told => history[s] # None /\ plan[s].fate = history[s]
  /\ pc[s] \in Net => active # s /\ Agrees(s, record[s])
  /\ pc[s] = "netTurn" /\ history[s] = None => plan[s].fate = record[s]
  /\ Agrees(s, diskRecord[s])
  /\ pc[s] = "starting" =>
       record[s] = "running" \/ (record[s] = "interrupted" /\ interrupted[s])
  /\ diskRecord[s] \in Terminal /\ history[s] = None =>
       (pc[s] \in {"rejected", "done", "lost"} /\ active # s /\ ~Closed(s)) \/ Overrun(s)

(* What close has put into the turn's object when it has killed its pane, and    *)
(* when the history has answered.                                               *)
CloseVerdict(c) ==
  /\ pc[c] \in {"closeTurn", "closeRec"} => target[c] \in Turn
  /\ pc[c] = "closeTurn" /\ history[target[c]] = None =>
       interrupted[target[c]] /\ record[target[c]] \in {"interrupted", "running"}
  /\ pc[c] = "closeRec" => history[target[c]] # None /\ Agrees(target[c], record[target[c]])

BootVerdict == up = "bootRecord" => history[Named] # None /\ record[Named] = history[Named]

VerdictInv ==
  /\ \A s \in Turn : TurnVerdict(s)
  /\ \A c \in Control : CloseVerdict(c)
  /\ BootVerdict

-----------------------------------------------------------------------------
NoFlip(s) ==
  diskRecord[s] \in Terminal /\ diskRecord'[s] \in Terminal => diskRecord'[s] = diskRecord[s]

(* What a step of turn s leaves to a close that finalizes the turn. *)
LeavesToClose(s) ==
  /\ interrupted' = interrupted
  /\ history[s] # None =>
       history'[s] = history[s] /\ (Agrees(s, record[s]) => Agrees(s, record[s])')
  /\ history'[s] = None /\ pc[s] \notin Waiting \cup Locked
     /\ interrupted[s] /\ record[s] \in {"interrupted", "running"} =>
       record'[s] \in {"interrupted", "running"}

VerdictGood(s) == TurnVerdict(s)' /\ LeavesToClose(s) /\ NoFlip(s)

LEMMA AdmissionVerdict ==
  ASSUME IInv, NEW s \in Turn, TurnVerdict(s),
         Closed(s)' => Closed(s), pc[s] \in Locked => ~Closed(s),
         Submit(s) \/ Admit(s) \/ ProbeDriver(s) \/ RecordAccepted(s) \/ AdmissionThrew(s)
         \/ RecordRejected(s)
  PROVE  VerdictGood(s)
<1> s \in Fiber /\ s # None
  BY FibersAreDistinct DEF Fiber
<1> None \notin Terminal \cup {"accepted", "running"}
  BY NoneIsNoRecord DEF Recorded, Unfinished
<1> USE DEF IInv, FiberInv, FiberTypes, DataTypes, MemoryTypes, CallTypes, DiskTypes,
        VerdictGood, TurnVerdict, Overrun, Agrees, LeavesToClose, NoFlip, Suspended,
        unchangedByTurns, unchangedByEntries, DeleteEntry, diskVars, tmuxVars, marks, faultVars, Goto, PersistSession, RecordWritten,
        RecordFails, Terminal, Waiting, Locked, Early, Told, Net
<1>1. CASE Submit(s)
  BY <1>1, TakenSame DEF Submit, JoinChain
<1>2. CASE Admit(s)
  BY <1>2, TakenSame DEF Admit
<1>3. CASE ProbeDriver(s)
  BY <1>3, TakenSame DEF ProbeDriver
<1>4. CASE RecordAccepted(s)
  BY <1>4, TakenSame DEF RecordAccepted
<1>5. CASE AdmissionThrew(s)
  BY <1>5, TakenSame DEF AdmissionThrew
<1>6. CASE RecordRejected(s)
  BY <1>6, TakenSame DEF RecordRejected
<1> QED BY <1>1, <1>2, <1>3, <1>4, <1>5, <1>6

LEMMA StagingVerdict ==
  ASSUME IInv, MaxHistoryFaults = 0, NEW s \in Turn, TurnVerdict(s),
         Closed(s)' => Closed(s), pc[s] \in Locked => ~Closed(s),
         StageTurn(s) \/ RecordStaged(s) \/ SubmitThrew(s) \/ FinishWorkspaceTurn(s)
         \/ RecordUnstaged(s)
  PROVE  VerdictGood(s)
<1> s \in Fiber /\ s # None
  BY FibersAreDistinct DEF Fiber
<1> None \notin Terminal \cup {"accepted", "running"}
  BY NoneIsNoRecord DEF Recorded, Unfinished
<1> USE DEF IInv, FiberInv, FiberTypes, DataTypes, MemoryTypes, CallTypes, DiskTypes,
        VerdictGood, TurnVerdict, Overrun, Agrees, LeavesToClose, NoFlip, Suspended,
        unchangedByTurns, unchangedByEntries, DeleteEntry, diskVars, tmuxVars, marks, faultVars, Goto, PersistSession, RecordWritten,
        RecordFails, Terminal, Waiting, Locked, Early, Told, Net
<1>1. CASE StageTurn(s)
  BY <1>1, TakenSame DEF StageTurn, GiveUpStaging, SetPlan, Plan
<1>2. CASE RecordStaged(s)
  BY <1>2, TakenSame DEF RecordStaged
<1>3. CASE SubmitThrew(s)
  BY <1>3, TakenSame DEF SubmitThrew, GiveUpStaging, SetPlan, Plan
<1>4. CASE FinishWorkspaceTurn(s)
  <2>1. /\ history' = IF history[s] # None THEN history
                      ELSE [history EXCEPT ![s] = plan[s].fate]
    <3>1. FinishTurn(s, plan[s].fate) /\ plan[s].fate # None
      BY <1>4, NoneIsNoRecord DEF FinishWorkspaceTurn, Plan
    <3> QED BY <3>1, FinishRecords
  <2>2. plan[s].fate \in Recorded /\ plan[s].fate # None
    BY NoneIsNoRecord DEF Plan
  <2>3. history'[s] # None /\ (history[s] # None => history'[s] = history[s])
        /\ (history[s] = None => history'[s] = plan[s].fate)
    BY <2>1, <2>2
  <2>4. plan' = [plan EXCEPT ![s].fate = history'[s]]
    <3>1. FinishTurn(s, plan[s].fate) /\ plan' = [plan EXCEPT ![s].fate = FinishedAs(s, plan[s].fate)]
      BY <1>4 DEF FinishWorkspaceTurn
    <3> QED BY <3>1, <2>2, FinishRecords
  <2>5. plan'[s].fate = history'[s]
    BY <2>4 DEF Plan
  <2>6. pc'[s] \in Told /\ (pc'[s] = "netRec" <=> pc[s] = "netTurn")
        /\ pc[s] \in {"unstaging", "unsending", "finishing", "failing", "netTurn"}
    BY <1>4 DEF FinishWorkspaceTurn, HistoryAwait
  <2>7. UNCHANGED <<active, record, interrupted, diskRecord, target>>
    BY <1>4 DEF FinishWorkspaceTurn
  <2> HIDE DEF Goto, PersistSession
  <2> QED BY <2>3, <2>5, <2>6, <2>7, TakenSame
<1>5. CASE RecordUnstaged(s)
  BY <1>5, TakenSame DEF RecordUnstaged
<1> QED BY <1>1, <1>2, <1>3, <1>4, <1>5

LEMMA ExecutionVerdict ==
  ASSUME IInv, NEW s \in Turn, TurnVerdict(s),
         Closed(s)' => Closed(s), pc[s] \in Locked => ~Closed(s),
         \/ AwaitDriver(s) \/ BeginRunning(s) \/ RecordStarted(s) \/ RecordNet(s)
         \/ PastePrompt(s) \/ PressEnter(s) \/ ConfirmSubmission(s)
         \/ WatchRejects(s) \/ ArtifactTerminal(s) \/ CheckOwner(s) \/ RecordFinished(s)
  PROVE  VerdictGood(s)
<1> s \in Fiber /\ s # None
  BY FibersAreDistinct DEF Fiber
<1> None \notin Terminal \cup {"accepted", "running"}
  BY NoneIsNoRecord DEF Recorded, Unfinished
<1> USE DEF IInv, FiberInv, FiberTypes, DataTypes, MemoryTypes, CallTypes, DiskTypes,
        VerdictGood, TurnVerdict, Overrun, Agrees, LeavesToClose, NoFlip, Suspended,
        unchangedByTurns, unchangedByEntries, DeleteEntry, diskVars, tmuxVars, marks, faultVars, Goto, PersistSession, RecordWritten,
        RecordFails, Terminal, Waiting, Locked, Early, Told, Net
<1>1. CASE AwaitDriver(s)
  BY <1>1, TakenSame DEF AwaitDriver, FailUnexpectedly, SetPlan, Plan
<1>2. CASE BeginRunning(s)
  BY <1>2, TakenSame DEF BeginRunning
<1>3. CASE RecordStarted(s)
  BY <1>3, TakenSame DEF RecordStarted, FailUnexpectedly, SetPlan, Plan
<1>4. CASE RecordNet(s)
  BY <1>4, TakenSame DEF RecordNet
<1>5. CASE PastePrompt(s)
  BY <1>5, TakenSame DEF PastePrompt
<1>6. CASE PressEnter(s)
  BY <1>6, TakenSame DEF PressEnter
<1>7. CASE ConfirmSubmission(s)
  BY <1>7, TakenSame DEF ConfirmSubmission
<1>8. CASE WatchRejects(s)
  BY <1>8, TakenSame DEF WatchRejects
<1>9. CASE ArtifactTerminal(s)
  BY <1>9, TakenSame DEF ArtifactTerminal, SetPlan, Plan
<1>10. CASE CheckOwner(s)
  BY <1>10, TakenSame DEF CheckOwner
<1>11. CASE RecordFinished(s)
  BY <1>11, TakenSame DEF RecordFinished
<1> QED BY <1>1, <1>2, <1>3, <1>4, <1>5, <1>6, <1>7, <1>8, <1>9, <1>10, <1>11

LEMMA FailureVerdict ==
  ASSUME IInv, NEW s \in Turn, TurnVerdict(s),
         Closed(s)' => Closed(s), pc[s] \in Locked => ~Closed(s),
         Caught(s) \/ Expired(s) \/ SettleTimedOutDriver(s) \/ RecordFailed(s) \/ Finally(s)
  PROVE  VerdictGood(s)
<1> s \in Fiber /\ s # None
  BY FibersAreDistinct DEF Fiber
<1> None \notin Terminal \cup {"accepted", "running"}
  BY NoneIsNoRecord DEF Recorded, Unfinished
<1> USE DEF IInv, FiberInv, FiberTypes, DataTypes, MemoryTypes, CallTypes, DiskTypes,
        VerdictGood, TurnVerdict, Overrun, Agrees, LeavesToClose, NoFlip, Suspended,
        unchangedByTurns, unchangedByEntries, DeleteEntry, diskVars, tmuxVars, marks, faultVars, Goto, PersistSession, RecordWritten,
        RecordFails, Terminal, Waiting, Locked, Early, Told, Net
<1>1. CASE Caught(s)
  BY <1>1, TakenSame DEF Caught, PlanFailure, SetPlan, Plan
<1>2. CASE Expired(s)
  BY <1>2, TakenSame DEF Expired, PlanFailure, SetPlan, Plan
<1>3. CASE SettleTimedOutDriver(s)
  BY <1>3, TakenSame DEF SettleTimedOutDriver, SetPlan, Plan
<1>4. CASE RecordFailed(s)
  BY <1>4, TakenSame DEF RecordFailed
<1>5. CASE Finally(s)
  BY <1>5, TakenSame DEF Finally
<1> QED BY <1>1, <1>2, <1>3, <1>4, <1>5

-----------------------------------------------------------------------------
(* A turn whose record, history and plan an action leaves alone. *)
LEMMA UntouchedVerdict ==
  ASSUME NEW s \in Turn, TurnVerdict(s), active # None => s # None,
         diskRecord'[s] = diskRecord[s], history'[s] = history[s], plan'[s] = plan[s],
         record'[s] = record[s] \/ (active = s /\ record'[s] = "interrupted" /\ interrupted'[s]),
         interrupted[s] => interrupted'[s],
         active' = s => active = s,
         TakenByClose(s)' => TakenByClose(s) \/ active = s,
         Closed(s)' => Closed(s) \/ active = s,
         \/ pc'[s] = pc[s]
         \/ pc[s] = "idle" /\ pc'[s] = "queued"
         \/ pc'[s] = "lost"
         \/ pc'[s] = "cut" /\ pc[s] \notin {"rejected", "done", "lost"}
  PROVE  TurnVerdict(s)' /\ NoFlip(s)
BY DEF TurnVerdict, Overrun, Agrees, NoFlip, Waiting, Locked, Early, Told, Net

(* The step of a turn, for the other turns and for the closes. *)
LEMMA TurnStepVerdict ==
  ASSUME IInv, HandoverInv, VerdictInv, MaxHistoryFaults = 0, NEW s \in Turn, TurnStep(s)
  PROVE  VerdictInv' /\ \A t \in Turn : NoFlip(t)
<1> s \in Fiber
  BY DEF Fiber
<1>1. TurnInv(s) /\ TurnVerdict(s)
  BY DEF HandoverInv, VerdictInv
<1>2. Alone(s) /\ UNCHANGED <<up, target>>
  BY <1>1, AdmissionGood, StagingGood, ExecutionGood, FailureGood DEF TurnStep, OwnStep,
     TurnGood, Alone
<1>3. \A c \in Control : c \in Fiber /\ c # s /\ pc'[c] = pc[c]
  BY <1>2, FibersAreDistinct DEF Alone, Fiber
<1>4. \A t \in Turn : Closed(t)' <=> Closed(t)
  BY <1>2, <1>3 DEF Closed
<1>5. pc[s] \in Locked => ~Closed(s)
  BY <1>3, OneRuns DEF Closed, Locked, Running, LockedAwait
<1>6. VerdictGood(s)
  BY <1>1, <1>4, <1>5, AdmissionVerdict, StagingVerdict, ExecutionVerdict, FailureVerdict
     DEF TurnStep, OwnStep
<1>7. \A t \in Turn : TurnVerdict(t)' /\ NoFlip(t)
  <2> SUFFICES ASSUME NEW t \in Turn, t # s PROVE TurnVerdict(t)' /\ NoFlip(t)
    BY <1>6 DEF VerdictGood
  <2>1. TurnVerdict(t) /\ Same(t) /\ t \in Fiber /\ t # None /\ pc'[t] = pc[t]
        /\ (active' = t => active = t)
    BY <1>2, FibersAreDistinct DEF VerdictInv, Alone, Fiber
  <2> QED BY <1>2, <1>4, <1>6, <2>1, TakenSame, UntouchedVerdict DEF Same, VerdictGood,
          LeavesToClose
<1>8. \A c \in Control : CloseVerdict(c)'
  <2> SUFFICES ASSUME NEW c \in Control, pc[c] \in {"closeTurn", "closeRec"}
               PROVE  CloseVerdict(c)'
    BY <1>3 DEF CloseVerdict
  <2>1. CloseVerdict(c) /\ target[c] \in Turn /\ target'[c] = target[c] /\ pc'[c] = pc[c]
    BY <1>2, <1>3 DEF VerdictInv, CloseVerdict
  <2>2. CASE target[c] # s
    BY <1>2, <1>6, <2>1, <2>2 DEF CloseVerdict, Agrees, Alone, Same, VerdictGood, LeavesToClose
  <2>3. CASE target[c] = s
    <3>1. TakenByClose(s)
      BY <2>3 DEF TakenByClose
    <3>2. pc[s] \notin Waiting
      BY <1>1, <3>1 DEF TurnVerdict
    <3>3. pc[s] \notin Locked
      BY <1>3, OneRuns DEF Locked, Running, LockedAwait
    <3>4. history[s] = None \/ (history[s] # None /\ history'[s] = history[s])
      BY <1>6 DEF VerdictGood, LeavesToClose
    <3> QED BY <1>6, <2>1, <2>3, <3>2, <3>3, <3>4 DEF CloseVerdict, VerdictGood, LeavesToClose,
            Agrees
  <2> QED BY <2>2, <2>3
<1>9. up' = "serving"
  BY <1>2, TurnIsAwake DEF HandoverInv
<1> QED BY <1>7, <1>8, <1>9 DEF VerdictInv, BootVerdict

-----------------------------------------------------------------------------
(* A call that leaves every record and history alone. *)
LEMMA BystanderVerdict ==
  ASSUME VerdictInv, up' = "serving", NEW f \in Fiber \ Turn,
         UNCHANGED <<active, diskRecord, history, plan, record>>,
         \A s \in Turn : interrupted[s] => interrupted'[s],
         \A g \in Fiber \ {f} : pc'[g] = pc[g],
         \A c \in Control \ {f} : target'[c] = target[c],
         f \in Control => /\ target'[f] \in {target[f], active}
                          /\ pc'[f] \notin {"closeTurn", "closeRec"}
  PROVE  VerdictInv' /\ \A s \in Turn : NoFlip(s)
<1>1. \A s \in Turn : TurnVerdict(s)' /\ NoFlip(s)
  <2> SUFFICES ASSUME NEW s \in Turn PROVE TurnVerdict(s)' /\ NoFlip(s)
    OBVIOUS
  <2>1. s \in Fiber /\ s # None /\ pc'[s] = pc[s] /\ TurnVerdict(s)
    BY FibersAreDistinct DEF VerdictInv, Fiber
  <2>2. TakenByClose(s)' => TakenByClose(s) \/ active = s
    BY DEF TakenByClose
  <2>3. Closed(s)' => Closed(s)
    BY DEF Closed, Fiber
  <2> QED BY <2>1, <2>2, <2>3, UntouchedVerdict
<1>2. \A c \in Control : CloseVerdict(c)'
  <2> SUFFICES ASSUME NEW c \in Control, c # f PROVE CloseVerdict(c)'
    BY DEF CloseVerdict
  <2>1. CloseVerdict(c) /\ pc'[c] = pc[c] /\ target'[c] = target[c]
    BY DEF VerdictInv, Fiber
  <2> QED BY <2>1 DEF CloseVerdict, Agrees
<1> QED BY <1>1, <1>2 DEF VerdictInv, BootVerdict

LEMMA InterruptVerdict ==
  ASSUME IInv, HandoverInv, VerdictInv, NEW f \in Interrupt, InterruptStep(f)
  PROVE  VerdictInv' /\ \A s \in Turn : NoFlip(s)
<1>1. f \in Fiber \ Turn /\ f \notin Control
  BY FibersAreDistinct DEF Fiber
<1>2. up = "serving"
  BY <1>1 DEF HandoverInv, Quiet, InterruptStep, CallInterrupt, SendEscape, Gone
<1>3. /\ UNCHANGED <<up, active, diskRecord, history, plan, record>>
      /\ target' = target \/ \E s \in Turn \cup {None} : target' = [target EXCEPT ![f] = s]
      /\ interrupted' \in {interrupted, [interrupted EXCEPT ![active] = TRUE]}
      /\ \E l \in Await : Goto(f, l)
  <2>1. CASE CallInterrupt(f)
    <3>1. active \in Turn \cup {None}
      BY DEF IInv, DataTypes, MemoryTypes
    <3>2. \E l \in {"intQuiet", "intWriting", "done"} : Goto(f, l)
      BY <2>1 DEF CallInterrupt, MarkInterrupted, PersistSession
    <3> QED BY <2>1, <3>1, <3>2, Labels DEF CallInterrupt, MarkInterrupted, diskVars, Await, Gone
  <2>2. CASE SendEscape(f)
    BY <1>1, <2>2 DEF SendEscape, diskVars, Await, Gone
  <2> QED BY <2>1, <2>2 DEF InterruptStep
<1>4. \A g \in Fiber \ {f} : pc'[g] = pc[g]
  BY <1>3 DEF Goto, IInv, FiberInv, FiberTypes
<1>5. \A c \in Control : target'[c] = target[c]
  BY <1>1, <1>3 DEF IInv, DataTypes, CallTypes
<1>6. \A s \in Turn : interrupted[s] => interrupted'[s]
  BY <1>3 DEF IInv, DataTypes, MemoryTypes
<1> QED BY <1>1, <1>2, <1>3, <1>4, <1>5, <1>6, BystanderVerdict

LEMMA LookupVerdict ==
  ASSUME IInv, HandoverInv, VerdictInv, NEW g \in Lookup, LookupStep(g)
  PROVE  VerdictInv' /\ \A s \in Turn : NoFlip(s)
<1>1. g \in Fiber \ Turn /\ g \notin Control
  BY FibersAreDistinct DEF Fiber
<1>2. up = "serving"
  BY <1>1 DEF HandoverInv, Quiet, LookupStep, CallGet, LookAtDriver, Gone
<1>3. /\ UNCHANGED <<up, active, diskRecord, history, plan, record, interrupted, target>>
      /\ \E l \in {"looking", "getWriting", "done"} : Goto(g, l)
  BY DEF LookupStep, CallGet, LookAtDriver, PersistSession, diskVars
<1>4. \A f \in Fiber \ {g} : pc'[f] = pc[f]
  BY <1>3 DEF Goto, IInv, FiberInv, FiberTypes
<1> QED BY <1>1, <1>2, <1>3, <1>4, BystanderVerdict

LEMMA WriteVerdict ==
  ASSUME IInv, HandoverInv, VerdictInv, NEW f \in Fiber, WriteStep(f)
  PROVE  VerdictInv' /\ \A s \in Turn : NoFlip(s)
<1>1. up = "serving"
      /\ UNCHANGED <<up, active, diskRecord, history, plan, record, interrupted, target>>
  <2>1. Called # NoImage
    BY DEF Called, NoImage
  <2> QED BY <2>1 DEF WriteStep, Serialize, SessionWritten, SessionWriteFails, HandoverInv, Quiet,
             memoryVars, diskVars
<1>2. \/ pc' = pc
      \/ pc[f] \in Writing /\ \E l \in {AfterWrite[pc[f]], AfterFault[pc[f]]} : Goto(f, l)
  BY DEF WriteStep, Serialize, SessionWritten, SessionWriteFails, IInv, FiberInv, WritersWait
<1>3. PICK l : /\ \A g \in Fiber : pc'[g] = IF g = f THEN l ELSE pc[g]
               /\ l = pc[f] \/ (pc[f] \in Writing /\ l \in {AfterWrite[pc[f]], AfterFault[pc[f]]})
  <2>1. pc \in [Fiber -> Await]
    BY DEF IInv, FiberInv, FiberTypes
  <2> QED BY <1>2, <2>1 DEF Goto
<1>4. AfterWrite["rejected"] = "done" /\ AfterFault["rejected"] = "done"
  BY DEF AfterWrite, AfterFault
<1>5. \/ l = pc[f]
      \/ pc[f] \notin {"done", "lost"} /\ l = "done"
      \/ pc[f] = "accepted" /\ l \in {"staging", "admitThrew"}
      \/ pc[f] = "submitted" /\ l = "exec"
      \/ /\ l \notin {"closeTurn", "closeRec", "rejected", "lost"}
         /\ l \notin Waiting \cup Locked \cup Early \cup Told \cup Net
         /\ pc[f] \notin {"rejected", "done", "lost"}
  BY <1>3, <1>4, AfterTable, Labels DEF Waiting, Locked, Early, Told, Net
<1>6. \A c \in Control : pc'[c] \in {"closeTurn", "closeRec"} => pc'[c] = pc[c]
  BY <1>3, <1>5 DEF Fiber
<1>7. \A s \in Turn : TurnVerdict(s)' /\ NoFlip(s)
  <2> SUFFICES ASSUME NEW s \in Turn PROVE TurnVerdict(s)' /\ NoFlip(s)
    OBVIOUS
  <2>1. TurnVerdict(s) /\ s \in Fiber /\ s # None
    BY FibersAreDistinct DEF VerdictInv, Fiber
  <2>2. (TakenByClose(s)' <=> TakenByClose(s)) /\ (Closed(s)' => Closed(s))
    BY <1>1, <1>6, TakenSame DEF Closed
  <2>3. CASE pc'[s] = pc[s]
    BY <1>1, <2>1, <2>2, <2>3, UntouchedVerdict
  <2>4. CASE pc'[s] # pc[s]
    <3>1. pc[s] \notin {"done", "lost"} /\ pc'[s] = l /\ s = f
      BY <1>3, <1>5, <2>1, <2>4
    <3>2. pc[s] \notin {"pasting", "caught", "failing", "cut"}
      BY <1>3, <2>4, <3>1, Labels DEF Writing
    <3> QED BY <1>1, <1>5, <2>1, <2>2, <2>4, <3>1, <3>2 DEF TurnVerdict, Overrun, NoFlip, Agrees,
            Waiting, Locked, Early, Told, Net
  <2> QED BY <2>3, <2>4
<1>8. \A c \in Control : CloseVerdict(c)'
  BY <1>1, <1>6 DEF VerdictInv, CloseVerdict, Agrees
<1> QED BY <1>1, <1>7, <1>8 DEF VerdictInv, BootVerdict

-----------------------------------------------------------------------------
(* The control calls.  A close that finds a turn when its pane is gone writes   *)
(* the turn's verdict; everything else leaves the verdicts alone.               *)
Finalizes(c) == (AfterKill(c) /\ active # None /\ op[c].kind = "close")
                \/ CloseFinishesTurn(c) \/ CloseRecordsTurn(c)

LEMMA ControlLeaves ==
  ASSUME IInv, NEW c \in Control, ControlStep(c) \/ SendEscape(c), ~Finalizes(c)
  PROVE  /\ UNCHANGED <<up, active, diskRecord, history, plan, record>>
         /\ target' \in {target, [target EXCEPT ![c] = active]}
         /\ interrupted' \in {interrupted, [interrupted EXCEPT ![active] = TRUE]}
         /\ \A g \in Fiber \ {c} : pc'[g] = pc[g]
         /\ pc'[c] \notin {"closeTurn", "closeRec"}
<1> c \in Fiber
  BY DEF Fiber
<1> USE DEF IInv, FiberInv, FiberTypes, diskVars, faultVars, Goto, PersistSession
<1>1. CASE CallControl(c)
  BY <1>1 DEF CallControl, JoinChain
<1>2. CASE BeginControl(c)
  BY <1>2 DEF BeginControl
<1>3. CASE CheckAttached(c)
  BY <1>3 DEF CheckAttached, MarkInterrupted
<1>4. CASE LaunchChecks(c)
  BY <1>4 DEF LaunchChecks
<1>5. CASE Respawn(c)
  BY <1>5 DEF Respawn
<1>6. CASE DriverStarts(c)
  BY <1>6 DEF DriverStarts
<1>7. CASE RestorePrevious(c)
  BY <1>7 DEF RestorePrevious
<1>8. CASE AwaitTurnEnd(c)
  BY <1>8 DEF AwaitTurnEnd
<1>9. CASE RecheckAttached(c)
  BY <1>9 DEF RecheckAttached
<1>10. CASE KillPane(c)
  BY <1>10 DEF KillPane
<1>11. CASE AfterKill(c)
  BY <1>11 DEF AfterKill, Finalizes
<1>12. CASE SendEscape(c)
  BY <1>12, FibersAreDistinct DEF SendEscape
<1> QED BY <1>1, <1>2, <1>3, <1>4, <1>5, <1>6, <1>7, <1>8, <1>9, <1>10, <1>11, <1>12
        DEF ControlStep, Finalizes

(* While a close finalizes a turn no other does. *)
LEMMA OneFinalizes ==
  ASSUME IInv, NEW c \in Control, pc[c] \in {"killed", "closeTurn", "closeRec"},
         NEW d \in Control, d # c
  PROVE  pc[d] \notin {"closeTurn", "closeRec"}
BY OneRuns DEF Fiber, Running, LockedAwait

LEMMA CloseMarks ==
  ASSUME IInv, HandoverInv, VerdictInv, up = "serving", NEW c \in Control,
         AfterKill(c), active # None, op[c].kind = "close"
  PROVE  VerdictInv' /\ \A s \in Turn : NoFlip(s)
<1> c \in Fiber /\ active \in Turn
  BY DEF Fiber, IInv, DataTypes, MemoryTypes
<1>1. /\ pc[c] = "killed"
      /\ target' = [target EXCEPT ![c] = active]
      /\ record' = [record EXCEPT ![active] = "interrupted"]
      /\ interrupted' = [interrupted EXCEPT ![active] = TRUE]
      /\ Goto(c, "closeTurn")
      /\ UNCHANGED <<up, plan, active, diskRecord, history>>
  BY DEF AfterKill, diskVars
<1>2. pc'[c] = "closeTurn" /\ \A g \in Fiber \ {c} : pc'[g] = pc[g]
  BY <1>1 DEF Goto, IInv, FiberInv, FiberTypes
<1>3. target'[c] = active /\ \A d \in Control \ {c} : target'[d] = target[d]
  BY <1>1 DEF IInv, DataTypes, CallTypes
<1>4. record'[active] = "interrupted" /\ interrupted'[active]
      /\ \A s \in Turn \ {active} : record'[s] = record[s] /\ interrupted'[s] = interrupted[s]
  BY <1>1 DEF IInv, DataTypes, MemoryTypes
<1>5. \A s \in Turn : TurnVerdict(s)' /\ NoFlip(s)
  <2> SUFFICES ASSUME NEW s \in Turn PROVE TurnVerdict(s)' /\ NoFlip(s)
    OBVIOUS
  <2>1. TurnVerdict(s) /\ s # None /\ pc'[s] = pc[s]
    BY <1>2, FibersAreDistinct DEF VerdictInv, Fiber
  <2>2. TakenByClose(s)' => TakenByClose(s) \/ active = s
    BY <1>3 DEF TakenByClose
  <2>3. Closed(s)' => Closed(s) \/ active = s
    BY <1>2, <1>3 DEF Closed, Fiber
  <2> QED BY <1>1, <1>4, <2>1, <2>2, <2>3, UntouchedVerdict
<1>6. \A d \in Control : CloseVerdict(d)'
  <2>1. CloseVerdict(c)'
    BY <1>1, <1>2, <1>3, <1>4 DEF CloseVerdict
  <2>2. \A d \in Control \ {c} : pc'[d] \notin {"closeTurn", "closeRec"}
    BY <1>1, <1>2, OneFinalizes DEF Fiber
  <2> QED BY <2>1, <2>2 DEF CloseVerdict
<1> QED BY <1>1, <1>5, <1>6 DEF VerdictInv, BootVerdict

LEMMA CloseSettles ==
  ASSUME IInv, HandoverInv, VerdictInv, MaxHistoryFaults = 0, up = "serving", NEW c \in Control,
         CloseFinishesTurn(c)
  PROVE  VerdictInv' /\ \A s \in Turn : NoFlip(s)
<1> c \in Fiber /\ pc[c] = "closeTurn"
  BY DEF Fiber, CloseFinishesTurn
<1>1. PICK s \in Turn : target[c] = s
  BY DEF VerdictInv, CloseVerdict
<1>3. record[s] \in Recorded /\ record[s] # None
  BY NoneIsNoRecord DEF IInv, DataTypes, MemoryTypes
<1>2. /\ history' = IF history[s] # None THEN history ELSE [history EXCEPT ![s] = record[s]]
      /\ history'[s] # None
      /\ record' = [record EXCEPT ![s] = history'[s]]
      /\ Goto(c, "closeRec")
      /\ UNCHANGED <<up, active, interrupted, plan, target, diskRecord>>
  <2>1. FinishTurn(s, record[s]) /\ record' = [record EXCEPT ![s] = FinishedAs(s, record[s])]
        /\ Goto(c, "closeRec")
        /\ UNCHANGED <<up, active, interrupted, plan, target, diskRecord>>
    BY <1>1 DEF CloseFinishesTurn
  <2>2. DiskTypes /\ CountTypes
    BY DEF IInv, DataTypes
  <2> QED BY <1>3, <2>1, <2>2, FinishRecords
<1>4. /\ history'[s] = IF history[s] # None THEN history[s] ELSE record[s]
      /\ history'[s] # None /\ record'[s] = history'[s]
      /\ \A t \in Turn \ {s} : history'[t] = history[t] /\ record'[t] = record[t]
  BY <1>2, <1>3 DEF IInv, DataTypes, MemoryTypes, DiskTypes
<1>5. pc'[c] = "closeRec" /\ \A g \in Fiber \ {c} : pc'[g] = pc[g]
  BY <1>2 DEF Goto, IInv, FiberInv, FiberTypes
<1>6. \A t \in Turn : TurnVerdict(t)' /\ NoFlip(t)
  <2> SUFFICES ASSUME NEW t \in Turn PROVE TurnVerdict(t)' /\ NoFlip(t)
    OBVIOUS
  <2>1. TurnVerdict(t) /\ t # None /\ pc'[t] = pc[t] /\ t \in Fiber
    BY <1>5, FibersAreDistinct DEF VerdictInv, Fiber
  <2>2. (TakenByClose(t)' <=> TakenByClose(t)) /\ (Closed(t)' => Closed(t))
    BY <1>2, <1>5, TakenSame DEF Closed, Fiber
  <2>3. CASE t # s
    BY <1>2, <1>4, <2>1, <2>2, <2>3, UntouchedVerdict
  <2>4. CASE t = s
    <3>1. TakenByClose(s) /\ Closed(s)
      BY <1>1 DEF TakenByClose, Closed
    <3>2. pc[s] \notin Waiting \cup Locked
      BY <2>1, <2>4, <3>1, OneRuns DEF TurnVerdict, Locked, Running, LockedAwait
    <3>3. history[s] = None =>
            /\ interrupted[s] /\ record[s] \in {"interrupted", "running"}
            /\ diskRecord[s] \in Terminal => diskRecord[s] = record[s]
      BY <1>1, <2>1, <2>4, <3>1 DEF VerdictInv, CloseVerdict, TurnVerdict, Overrun
    <3>4. pc[s] = "starting" /\ history[s] # None => history[s] \in {"interrupted", "running"}
                                                     /\ interrupted[s]
      BY <2>1, <2>4 DEF TurnVerdict, Early
    <3> QED BY <1>2, <1>4, <2>1, <2>2, <2>4, <3>2, <3>3, <3>4
            DEF TurnVerdict, Overrun, NoFlip, Agrees, Terminal
  <2> QED BY <2>3, <2>4
<1>7. \A d \in Control : CloseVerdict(d)'
  <2>1. CloseVerdict(c)'
    BY <1>1, <1>2, <1>4, <1>5 DEF CloseVerdict, Agrees
  <2>2. \A d \in Control \ {c} : pc'[d] \notin {"closeTurn", "closeRec"}
    BY <1>5, OneFinalizes DEF Fiber
  <2> QED BY <2>1, <2>2 DEF CloseVerdict
<1> QED BY <1>2, <1>6, <1>7 DEF VerdictInv, BootVerdict

LEMMA CloseRecords ==
  ASSUME IInv, HandoverInv, VerdictInv, up = "serving", NEW c \in Control, CloseRecordsTurn(c)
  PROVE  VerdictInv' /\ \A s \in Turn : NoFlip(s)
<1> c \in Fiber /\ pc[c] = "closeRec"
  BY DEF Fiber, CloseRecordsTurn
<1>1. PICK s \in Turn : target[c] = s
  BY DEF VerdictInv, CloseVerdict
<1>2. /\ diskRecord' \in {diskRecord, [diskRecord EXCEPT ![s] = record[s]]}
      /\ active' \in {active, None}
      /\ UNCHANGED <<up, record, interrupted, plan, target, history>>
      /\ \E l \in {"ctlWriting", "done"} : Goto(c, l)
  BY <1>1 DEF CloseRecordsTurn, RecordWritten, RecordFails, PersistSession
<1>3. /\ pc'[c] \notin {"closeTurn", "closeRec"}
      /\ \A g \in Fiber \ {c} : pc'[g] = pc[g]
  BY <1>2 DEF Goto, IInv, FiberInv, FiberTypes
<1>4. diskRecord'[s] \in {diskRecord[s], record[s]}
      /\ \A t \in Turn \ {s} : diskRecord'[t] = diskRecord[t]
  BY <1>2 DEF IInv, DataTypes, DiskTypes
<1>5. history[s] # None /\ Agrees(s, record[s])
  BY <1>1 DEF VerdictInv, CloseVerdict
<1>6. \A t \in Turn : TurnVerdict(t)' /\ NoFlip(t)
  <2> SUFFICES ASSUME NEW t \in Turn PROVE TurnVerdict(t)' /\ NoFlip(t)
    OBVIOUS
  <2>1. TurnVerdict(t) /\ t # None /\ pc'[t] = pc[t] /\ (active' = t => active = t)
    BY <1>2, <1>3, FibersAreDistinct DEF VerdictInv, Fiber
  <2>2. (TakenByClose(t)' <=> TakenByClose(t)) /\ (Closed(t)' => Closed(t))
    BY <1>2, <1>3, TakenSame DEF Closed, Fiber
  <2>3. CASE t # s
    BY <1>2, <1>4, <2>1, <2>2, <2>3, UntouchedVerdict
  <2>4. CASE t = s
    BY <1>2, <1>4, <1>5, <2>1, <2>2, <2>4 DEF TurnVerdict, NoFlip, Agrees, Waiting, Locked
  <2> QED BY <2>3, <2>4
<1>7. \A d \in Control : CloseVerdict(d)'
  BY <1>3, OneFinalizes DEF CloseVerdict, Fiber
<1> QED BY <1>2, <1>6, <1>7 DEF VerdictInv, BootVerdict

LEMMA ControlVerdict ==
  ASSUME IInv, HandoverInv, VerdictInv, MaxHistoryFaults = 0, NEW c \in Control,
         ControlStep(c) \/ SendEscape(c)
  PROVE  VerdictInv' /\ \A s \in Turn : NoFlip(s)
<1>1. up = "serving"
  BY ControlIsAwake DEF HandoverInv
<1>2. CASE Finalizes(c)
  BY <1>1, <1>2, CloseMarks, CloseSettles, CloseRecords DEF Finalizes
<1>3. CASE ~Finalizes(c)
  <2>1. c \in Fiber \ Turn
    BY FibersAreDistinct DEF Fiber
  <2>2. (\A s \in Turn : interrupted[s] => interrupted'[s])
        /\ target'[c] \in {target[c], active}
        /\ \A d \in Control \ {c} : target'[d] = target[d]
    BY <1>3, ControlLeaves DEF IInv, DataTypes, MemoryTypes, CallTypes
  <2> QED BY <1>1, <1>3, <2>1, <2>2, ControlLeaves, BystanderVerdict
<1> QED BY <1>2, <1>3

-----------------------------------------------------------------------------
(* The pane, the loss of the process, and init. *)
LEMMA CrashVerdict ==
  ASSUME IInv, HandoverInv, VerdictInv, Crash
  PROVE  VerdictInv' /\ \A s \in Turn : NoFlip(s)
<1>1. UNCHANGED <<record, interrupted, target, plan, diskRecord, history>>
      /\ active' = None /\ up' = "down"
  BY DEF Crash, diskVars
<1>2. \A f \in Fiber : /\ pc'[f] \notin {"closeTurn", "closeRec"}
                       /\ \/ pc'[f] = pc[f] \/ pc'[f] = "lost"
                          \/ pc'[f] = "cut" /\ f \in Turn /\ Acknowledged(f)
  BY DEF Crash
<1>3. \A s \in Turn : TurnVerdict(s)' /\ NoFlip(s)
  <2> SUFFICES ASSUME NEW s \in Turn PROVE TurnVerdict(s)' /\ NoFlip(s)
    OBVIOUS
  <2>1. TurnVerdict(s) /\ s # None /\ s \in Fiber /\ (TakenByClose(s)' <=> TakenByClose(s))
    BY <1>1, FibersAreDistinct, TakenSame DEF VerdictInv, Fiber
  <2>2. ~Closed(s)'
    BY <1>2 DEF Closed, Fiber
  <2>3. pc'[s] = "cut" /\ pc[s] # "cut" => pc[s] \notin {"rejected", "done", "lost"}
    BY <1>2, <2>1 DEF Acknowledged
  <2> QED BY <1>1, <1>2, <2>1, <2>2, <2>3, UntouchedVerdict
<1> QED BY <1>1, <1>2, <1>3 DEF VerdictInv, CloseVerdict, BootVerdict, Fiber

(* A step that writes no verdict and moves no fiber. *)
LEMMA StillVerdict ==
  ASSUME VerdictInv, UNCHANGED <<active, record, interrupted, target, plan, pc, diskRecord, history>>,
         BootVerdict'
  PROVE  VerdictInv' /\ \A s \in Turn : NoFlip(s)
<1>1. \A s \in Turn : TurnVerdict(s)' /\ NoFlip(s)
  <2> SUFFICES ASSUME NEW s \in Turn PROVE TurnVerdict(s)' /\ NoFlip(s)
    OBVIOUS
  <2>1. TurnVerdict(s) /\ s # None /\ (TakenByClose(s)' <=> TakenByClose(s))
        /\ (Closed(s)' <=> Closed(s))
    BY TakenSame, FibersAreDistinct DEF VerdictInv, Fiber, Closed
  <2> QED BY <2>1, UntouchedVerdict
<1>2. \A c \in Control : CloseVerdict(c)'
  BY DEF VerdictInv, CloseVerdict, Agrees
<1> QED BY <1>1, <1>2 DEF VerdictInv

(* init settles the turn the session file names before anything else runs. *)
LEMMA BootKeepsVerdict ==
  ASSUME IInv, HandoverInv, VerdictInv, MaxHistoryFaults = 0, BootStep
  PROVE  VerdictInv' /\ \A s \in Turn : NoFlip(s)
<1> USE DEF IInv, DataTypes, MemoryTypes, DiskTypes
<1>1. /\ up # "serving" /\ active = None
      /\ \A f \in Fiber : pc[f] \in Gone
  BY DEF HandoverInv, Quiet, BootStep, Boot, BootFinishesTurn, BootRecordsTurn, BootSavesSession,
     Reconcile, Serve
<1>2. \A c \in Control : pc[c] \notin {"closeTurn", "closeRec"}
  BY <1>1 DEF Fiber, Gone
<1>3. CASE BootFinishesTurn
  <2>1. PICK s \in Turn : s = Named /\ diskRecord[s] \in Unfinished
    BY <1>3 DEF HandoverInv, BootInv, BootFinishesTurn
  <2>2. /\ UNCHANGED <<cur, session, active, interrupted, fiberVars, diskRecord>>
        /\ up' = "bootRecord"
        /\ history' = IF history[s] # None THEN history ELSE [history EXCEPT ![s] = "failed"]
        /\ history'[s] # None /\ record' = [record EXCEPT ![s] = history'[s]]
    <3>1. FinishTurn(s, "failed") /\ record' = [record EXCEPT ![s] = FinishedAs(s, "failed")]
          /\ UNCHANGED <<cur, session, active, interrupted, fiberVars, diskRecord>>
          /\ up' = "bootRecord"
      BY <1>3, <2>1 DEF BootFinishesTurn, Named
    <3>2. None # "failed"
      BY NoneIsNoRecord DEF Recorded, Terminal
    <3> QED BY <3>1, <3>2, FinishRecords
  <2>3. /\ history'[s] # None /\ record'[s] = history'[s]
        /\ history'[s] = IF history[s] # None THEN history[s] ELSE "failed"
        /\ \A t \in Turn \ {s} : history'[t] = history[t] /\ record'[t] = record[t]
    BY <2>2
  <2>4. \A t \in Turn : TurnVerdict(t)' /\ NoFlip(t)
    <3> SUFFICES ASSUME NEW t \in Turn PROVE TurnVerdict(t)' /\ NoFlip(t)
      OBVIOUS
    <3>1. TurnVerdict(t) /\ t # None /\ (TakenByClose(t)' <=> TakenByClose(t)) /\ ~Closed(t)'
          /\ pc'[t] = pc[t] /\ pc[t] \in Gone
      BY <1>1, <1>2, <2>2, TakenSame, FibersAreDistinct DEF VerdictInv, Fiber, Closed, fiberVars
    <3>2. CASE t # s
      BY <2>2, <2>3, <3>1, <3>2, UntouchedVerdict DEF fiberVars
    <3>3. CASE t = s
      <4>1. diskRecord[s] \notin Terminal
        BY <2>1 DEF Unfinished, Terminal
      <4>2. pc[s] \notin Waiting
        <5>1. pc[s] \in Waiting => ~TakenByClose(s)
          BY <3>1, <3>3 DEF TurnVerdict
        <5>2. pc[s] \in Waiting => diskRecord[s] = None
          BY <5>1 DEF HandoverInv, TurnInv, Placed, Waiting, Unwritten
        <5> QED BY <2>1, <5>2, NoneIsNoRecord DEF Recorded
      <4> QED BY <1>1, <2>2, <2>3, <3>1, <3>3, <4>1, <4>2 DEF TurnVerdict, NoFlip, Agrees,
              Waiting, Locked, Early, Told, Net, Gone
    <3> QED BY <3>2, <3>3
  <2>5. Named' = s
    BY <2>1, <2>2 DEF Named
  <2> QED BY <1>2, <2>2, <2>3, <2>4, <2>5 DEF VerdictInv, CloseVerdict, BootVerdict, fiberVars
<1>4. CASE BootRecordsTurn
  <2>1. PICK s \in Turn : /\ s = Named /\ diskRecord[s] \in Unfinished
                          /\ history[s] # None /\ record[s] = history[s]
    BY <1>4 DEF HandoverInv, BootInv, BootRecordsTurn, VerdictInv, BootVerdict
  <2>2. /\ UNCHANGED <<cur, session, active, record, interrupted, fiberVars, history>>
        /\ diskRecord' = [diskRecord EXCEPT ![s] = history[s]] /\ up' = "bootSession"
    BY <1>4, <2>1 DEF BootRecordsTurn, RecordWritten, Named
  <2>3. \A t \in Turn : TurnVerdict(t)' /\ NoFlip(t)
    <3> SUFFICES ASSUME NEW t \in Turn PROVE TurnVerdict(t)' /\ NoFlip(t)
      OBVIOUS
    <3>1. TurnVerdict(t) /\ t # None /\ (TakenByClose(t)' <=> TakenByClose(t)) /\ ~Closed(t)'
          /\ pc'[t] = pc[t]
      BY <1>2, <2>2, TakenSame, FibersAreDistinct DEF VerdictInv, Fiber, Closed, fiberVars
    <3>2. CASE t # s
      BY <2>2, <3>1, <3>2, UntouchedVerdict DEF fiberVars
    <3>3. CASE t = s
      BY <2>1, <2>2, <3>1, <3>3 DEF TurnVerdict, NoFlip, Agrees, fiberVars, Unfinished, Terminal
    <3> QED BY <3>2, <3>3
  <2> QED BY <1>2, <2>2, <2>3 DEF VerdictInv, CloseVerdict, BootVerdict, fiberVars
<1>5. CASE Boot \/ BootSavesSession \/ (\E i \in Incarnation : Reconcile(i)) \/ Serve
  <2>1. /\ up' # "bootRecord"
        /\ UNCHANGED <<active, record, interrupted, fiberVars, diskRecord, history>>
    BY <1>5 DEF Boot, BootSavesSession, Reconcile, Serve, unchangedByTmux, memoryVars, diskVars
  <2> QED BY <2>1, StillVerdict DEF BootVerdict, fiberVars
<1> QED BY <1>3, <1>4, <1>5 DEF BootStep

-----------------------------------------------------------------------------
LEMMA InitVerdict == Init => VerdictInv
<1> SUFFICES ASSUME Init PROVE VerdictInv
  OBVIOUS
<1>1. \A s \in Turn : s # None /\ s \in Fiber /\ None \notin Terminal
  BY FibersAreDistinct, NoneIsNoRecord DEF Fiber, Recorded
<1> QED BY <1>1 DEF Init, VerdictInv, TurnVerdict, CloseVerdict, BootVerdict, Agrees, TakenByClose,
        Waiting, Locked, Early, Told, Net, Fiber

LEMMA StepVerdict ==
  ASSUME MaxHistoryFaults = 0, IInv, HandoverInv, VerdictInv, [Next]_vars
  PROVE  VerdictInv' /\ \A s \in Turn : NoFlip(s)
<1>1. CASE \E s \in Turn : TurnStep(s)
  BY <1>1, TurnStepVerdict
<1>2. CASE \E f \in Interrupt : InterruptStep(f)
  BY <1>2, InterruptVerdict
<1>3. CASE \E c \in Control : ControlStep(c) \/ SendEscape(c)
  BY <1>3, ControlVerdict
<1>4. CASE \E g \in Lookup : LookupStep(g)
  BY <1>4, LookupVerdict
<1>5. CASE \E f \in Fiber : WriteStep(f)
  BY <1>5, WriteVerdict
<1>6. CASE (\E i \in Incarnation : PaneStep(i)) \/ UNCHANGED vars
  <2>1. UNCHANGED <<up, cur, session, active, record, interrupted, fiberVars, diskVars>>
    BY <1>6 DEF PaneStep, DriverDies, AgentFinishes, Attach, Detach, unchangedByTmux, memoryVars,
       vars
  <2>2. BootVerdict'
    BY <2>1 DEF VerdictInv, BootVerdict, Named, diskVars
  <2> QED BY <2>1, <2>2, StillVerdict DEF fiberVars, diskVars
<1>7. CASE Crash
  BY <1>7, CrashVerdict
<1>8. CASE BootStep
  BY <1>8, BootKeepsVerdict
<1> QED BY <1>1, <1>2, <1>3, <1>4, <1>5, <1>6, <1>7, <1>8 DEF Next

(* The submission record and the workspace history never give a turn two       *)
(* verdicts, for any number of calls, crashes and failed writes, as long as no   *)
(* call of finishTurn fails (finalizeSubmission, close, init).                   *)
THEOREM RecordAndHistoryAgree ==
  ASSUME MaxHistoryFaults = 0
  PROVE  Spec => []HistoryAgrees
<1>1. IInv /\ HandoverInv /\ VerdictInv /\ [Next]_vars => HandoverInv' /\ VerdictInv'
  BY StepHandover, StepVerdict
<1>2. VerdictInv => HistoryAgrees
  <2>1. None \notin Terminal
    BY NoneIsNoRecord DEF Recorded
  <2> QED BY <2>1 DEF VerdictInv, TurnVerdict, Agrees, HistoryAgrees
<1> QED BY InvHolds, InitHandover, InitVerdict, <1>1, <1>2, PTL DEF Spec

(* A durable verdict is never replaced by a different one, under the same       *)
(* condition: whoever comes second writes what the history says.                *)
THEOREM VerdictIsFinal ==
  ASSUME MaxHistoryFaults = 0
  PROVE  Spec => VerdictNeverFlips
<1> DEFINE Kept == \A s \in Turn : diskRecord[s] \in Terminal /\ diskRecord'[s] \in Terminal
                                      => diskRecord'[s] = diskRecord[s]
<1>1. IInv /\ HandoverInv /\ VerdictInv /\ [Next]_vars => HandoverInv' /\ VerdictInv'
  BY StepHandover, StepVerdict
<1>2. IInv /\ HandoverInv /\ VerdictInv /\ [Next]_vars => Kept
  BY StepVerdict DEF NoFlip
<1>3. VerdictNeverFlips <=> [][Kept]_vars
  BY DEF VerdictNeverFlips
<1> QED BY InvHolds, InitHandover, InitVerdict, <1>1, <1>2, <1>3, PTL DEF Spec

-----------------------------------------------------------------------------
(***************************************************************************)
(* What the entry of the active map says of its turn: nothing replaces the *)
(* driver under a turn that has it, such a turn has a verdict when it ends *)
(* and leaves the session free, and session.json names it until then.      *)
(***************************************************************************)
(* The entry names the turn that the current session object names too. *)
Entry == active # None =>
  holds[active] = cur /\ session[cur].active = active /\ session[cur].status # "closed"

(* A close marks the turn it takes; a turn nobody takes has a plan, and the *)
(* record of its start is what it said.                                      *)
Untaken(s) ==
  /\ plan[s].fate \in Terminal
  /\ pc[s] = "starting" => record[s] = "running"
  /\ history[s] \in Terminal \cup {None}
  /\ pc[s] \in Waiting \cup {"refusing"} => diskRecord[s] = None

TurnBase(s) ==
  /\ pc[s] = "probing" => holds[s] = cur /\ active = None
  /\ TakenByClose(s) => interrupted[s]
  /\ TakenByClose(s) \/ Untaken(s)

(* A control call that runs has the current session, and finds no turn there *)
(* unless it is a close; a close has taken the turn it finds.                 *)
ControlBase(c) ==
  /\ pc[c] \in Running => holds[c] = cur
  /\ pc[c] \in Running /\ op[c].kind # "close" => active = None
  /\ pc[c] \in Launching => op[c].kind # "close"
  /\ CloseInv(c)
  /\ pc[c] \in {"closeTurn", "closeRec"} => target[c] \in Turn /\ active \in {target[c], None}

BootNames == up \in {"bootTurn", "bootRecord"} => Named \in Turn /\ diskRecord[Named] \in Unfinished

EntryInv ==
  /\ Quiet /\ Entry /\ BootNames
  /\ \A s \in Turn : TurnBase(s)
  /\ \A c \in Control : ControlBase(c)

(* What a step of a turn may do to its session object and its own data. *)
Owns(s) ==
  /\ Alone(s)
  /\ UNCHANGED <<cur, interrupted, diskSession>>
  /\ holds' = holds \/ (pc[s] = "queued" /\ holds' = [holds EXCEPT ![s] = cur])
  /\ \A f \in Fiber \ {s} : image'[f] = image[f]
  /\ \A i \in Incarnation \ {holds[s]} : session'[i] = session[i]
  /\ session'[holds[s]].active \in {session[holds[s]].active, active'}
  /\ pc[s] # "probing" => session'[holds[s]].active \in {session[holds[s]].active, None}
  /\ session'[holds[s]] = session[holds[s]] \/ session'[holds[s]].status # "closed"
  /\ pc'[s] \in Waiting => pc[s] \in Waiting
  /\ pc'[s] = "probing" => holds'[s] = cur /\ active' = None
  /\ TakenByClose(s) \/ Untaken(s)'

LEMMA AdmissionOwns ==
  ASSUME IInv, NEW s \in Turn, TurnBase(s),
         Submit(s) \/ Admit(s) \/ ProbeDriver(s) \/ RecordAccepted(s) \/ AdmissionThrew(s)
         \/ RecordRejected(s)
  PROVE  Owns(s)
<1> s \in Fiber /\ s # None /\ s \notin Control /\ holds[s] \in Incarnation
  BY FibersAreDistinct DEF Fiber, IInv, DataTypes, CallTypes
<1> USE DEF IInv, FiberInv, FiberTypes, DataTypes, MemoryTypes, CallTypes, DiskTypes,
        PaneTypes, Owns, Alone, TurnBase, Untaken, Same, Suspended, unchangedByTurns, unchangedByEntries, DeleteEntry, diskVars,
        tmuxVars, marks, faultVars, Goto, SetSession, PersistSession, RecordWritten, RecordFails, Waiting
<1>1. CASE Submit(s)
  BY <1>1 DEF Submit, JoinChain
<1>2. CASE Admit(s)
  BY <1>2 DEF Admit, Busy
<1>3. CASE ProbeDriver(s)
  BY <1>3 DEF ProbeDriver
<1>4. CASE RecordAccepted(s)
  BY <1>4 DEF RecordAccepted
<1>5. CASE AdmissionThrew(s)
  BY <1>5 DEF AdmissionThrew
<1>6. CASE RecordRejected(s)
  BY <1>6 DEF RecordRejected
<1> QED BY <1>1, <1>2, <1>3, <1>4, <1>5, <1>6

LEMMA FinishOwns ==
  ASSUME IInv, NEW s \in Turn, TurnBase(s), FinishWorkspaceTurn(s)
  PROVE  Owns(s)
<1>1. /\ pc \in [Fiber -> Await] /\ plan \in [Turn -> Plan] /\ s \in Fiber
      /\ history \in [Turn -> Recorded \cup {None}] /\ historyFaults \in Nat
  BY BoundsAreNaturals DEF Fiber, IInv, FiberInv, FiberTypes, DataTypes, CallTypes, DiskTypes, CountTypes
<1>2. /\ history' \in {history, FirstRecord(s, plan[s].fate)}
      /\ plan' = [plan EXCEPT ![s].fate = FinishedAs(s, plan[s].fate)]
      /\ historyFaults' = historyFaults => history' = FirstRecord(s, plan[s].fate)
  BY <1>1 DEF FinishWorkspaceTurn, FinishTurn
<1>3. /\ pc'[s] \in {"unstagedRec", "unsentRec", "recording", "failedRec", "netRec"}
      /\ \A f \in Fiber \ {s} : pc'[f] = pc[f]
  BY <1>1 DEF FinishWorkspaceTurn, HistoryAwait, Goto
<1>4. \A t \in Turn \ {s} : history'[t] = history[t] /\ plan'[t] = plan[t]
  BY <1>1, <1>2 DEF FirstRecord
<1>5. ASSUME ~TakenByClose(s)
      PROVE  history'[s] \in Terminal \cup {None} /\ plan'[s].fate \in Terminal
  <2>1. plan[s].fate \in Terminal /\ history[s] \in Terminal \cup {None}
    BY <1>5 DEF TurnBase, Untaken
  <2>2. FirstRecord(s, plan[s].fate)[s] \in Terminal
    BY <1>1, <2>1 DEF FirstRecord
  <2>3. FinishedAs(s, plan[s].fate) \in Terminal
    BY <1>2, <2>1, <2>2 DEF FinishedAs
  <2>4. plan'[s].fate = FinishedAs(s, plan[s].fate)
    BY <1>1, <1>2 DEF Plan
  <2> QED BY <1>2, <2>1, <2>2, <2>3, <2>4
<1>6. Alone(s)
  BY <1>1, <1>2, <1>3, <1>4
     DEF Alone, Same, FinishWorkspaceTurn, unchangedByTurns, unchangedByEntries, Goto
<1>7. UNCHANGED <<cur, interrupted, diskSession, diskRecord, holds, image, session, active, target>>
  BY DEF FinishWorkspaceTurn, unchangedByTurns, unchangedByEntries
<1> QED BY <1>3, <1>5, <1>6, <1>7, TakenSame DEF Owns, Untaken, Waiting

LEMMA StagingOwns ==
  ASSUME IInv, NEW s \in Turn, TurnBase(s),
         StageTurn(s) \/ RecordStaged(s) \/ SubmitThrew(s) \/ FinishWorkspaceTurn(s)
         \/ RecordUnstaged(s)
  PROVE  Owns(s)
<1> s \in Fiber /\ s # None /\ s \notin Control /\ holds[s] \in Incarnation
  BY FibersAreDistinct DEF Fiber, IInv, DataTypes, CallTypes
<1> plan[s] \in Plan
  BY DEF IInv, DataTypes, CallTypes
<1> USE DEF IInv, FiberInv, FiberTypes, DataTypes, MemoryTypes, CallTypes, DiskTypes,
        PaneTypes, Owns, Alone, TurnBase, Untaken, Same, Suspended, unchangedByTurns, unchangedByEntries, DeleteEntry, diskVars,
        tmuxVars, marks, faultVars, Goto, SetSession, PersistSession, RecordWritten, RecordFails, Waiting
<1>1. CASE StageTurn(s)
  BY <1>1 DEF StageTurn, GiveUpStaging, SetPlan, Terminal
<1>2. CASE RecordStaged(s)
  BY <1>2 DEF RecordStaged
<1>3. CASE SubmitThrew(s)
  BY <1>3 DEF SubmitThrew, GiveUpStaging, SetPlan, Terminal
<1>4. CASE FinishWorkspaceTurn(s)
  BY <1>4, FinishOwns
<1>5. CASE RecordUnstaged(s)
  BY <1>5 DEF RecordUnstaged, Plan
<1> QED BY <1>1, <1>2, <1>3, <1>4, <1>5

LEMMA ExecutionOwns ==
  ASSUME IInv, NEW s \in Turn, TurnBase(s),
         AwaitDriver(s) \/ BeginRunning(s) \/ RecordStarted(s) \/ RecordNet(s)
         \/ PastePrompt(s) \/ PressEnter(s) \/ ConfirmSubmission(s) \/ ArtifactTerminal(s)
  PROVE  Owns(s)
<1> s \in Fiber /\ s # None /\ s \notin Control /\ holds[s] \in Incarnation
  BY FibersAreDistinct DEF Fiber, IInv, DataTypes, CallTypes
<1> plan[s] \in Plan
  BY DEF IInv, DataTypes, CallTypes
<1> USE DEF IInv, FiberInv, FiberTypes, DataTypes, MemoryTypes, CallTypes, DiskTypes,
        PaneTypes, Owns, Alone, TurnBase, Untaken, Same, Suspended, unchangedByTurns, unchangedByEntries, DeleteEntry, diskVars,
        tmuxVars, marks, faultVars, Goto, SetSession, PersistSession, RecordWritten, RecordFails, Waiting
<1>1. CASE AwaitDriver(s)
  BY <1>1 DEF AwaitDriver, FailUnexpectedly, SetPlan, Plan, Terminal
<1>2. CASE BeginRunning(s)
  BY <1>2 DEF BeginRunning
<1>3. CASE RecordStarted(s)
  BY <1>3 DEF RecordStarted, FailUnexpectedly, SetPlan, Plan, Terminal
<1>4. CASE RecordNet(s)
  BY <1>4 DEF RecordNet
<1>5. CASE PastePrompt(s)
  BY <1>5 DEF PastePrompt
<1>6. CASE PressEnter(s)
  BY <1>6 DEF PressEnter
<1>7. CASE ConfirmSubmission(s)
  BY <1>7 DEF ConfirmSubmission
<1>8. CASE ArtifactTerminal(s)
  BY <1>8 DEF ArtifactTerminal, SetPlan, Terminal
<1> QED BY <1>1, <1>2, <1>3, <1>4, <1>5, <1>6, <1>7, <1>8

LEMMA FailureOwns ==
  ASSUME IInv, NEW s \in Turn, TurnBase(s),
         WatchRejects(s) \/ CheckOwner(s) \/ RecordFinished(s) \/ Caught(s) \/ Expired(s)
         \/ SettleTimedOutDriver(s) \/ RecordFailed(s) \/ Finally(s)
  PROVE  Owns(s)
<1> s \in Fiber /\ s # None /\ s \notin Control /\ holds[s] \in Incarnation
  BY FibersAreDistinct DEF Fiber, IInv, DataTypes, CallTypes
<1> plan[s] \in Plan
  BY DEF IInv, DataTypes, CallTypes
<1> USE DEF IInv, FiberInv, FiberTypes, DataTypes, MemoryTypes, CallTypes, DiskTypes,
        PaneTypes, Owns, Alone, TurnBase, Untaken, Same, Suspended, unchangedByTurns, unchangedByEntries, DeleteEntry, diskVars,
        tmuxVars, marks, faultVars, Goto, SetSession, PersistSession, RecordWritten, RecordFails, Waiting
<1>1. CASE WatchRejects(s)
  BY <1>1 DEF WatchRejects
<1>2. CASE CheckOwner(s)
  BY <1>2 DEF CheckOwner
<1>3. CASE RecordFinished(s)
  BY <1>3 DEF RecordFinished, Plan
<1>4. CASE Caught(s)
  BY <1>4 DEF Caught, PlanFailure, SetPlan, Terminal
<1>5. CASE Expired(s)
  BY <1>5 DEF Expired, PlanFailure, SetPlan, Terminal
<1>6. CASE SettleTimedOutDriver(s)
  BY <1>6 DEF SettleTimedOutDriver, SetPlan
<1>7. CASE RecordFailed(s)
  BY <1>7 DEF RecordFailed, Plan
<1>8. CASE Finally(s)
  BY <1>8 DEF Finally
<1> QED BY <1>1, <1>2, <1>3, <1>4, <1>5, <1>6, <1>7, <1>8

LEMMA TurnOwns ==
  ASSUME IInv, NEW s \in Turn, TurnBase(s), TurnStep(s)
  PROVE  Owns(s)
BY AdmissionOwns, StagingOwns, ExecutionOwns, FailureOwns DEF TurnStep, OwnStep

LEMMA ProbesOnly ==
  ASSUME NEW s \in Turn, TurnStep(s), pc[s] = "probing"
  PROVE  ProbeDriver(s)
BY DEF TurnStep, OwnStep, Submit, JoinChain, Admit, ProbeDriver, RecordAccepted, AdmissionThrew,
   RecordRejected, StageTurn, RecordStaged, SubmitThrew, FinishWorkspaceTurn, HistoryAwait,
   RecordUnstaged, AwaitDriver, BeginRunning, RecordStarted, RecordNet, PastePrompt,
   PressEnter, ConfirmSubmission, WatchRejects, ArtifactTerminal, CheckOwner, RecordFinished,
   Caught, Expired, SettleTimedOutDriver, RecordFailed, Finally, Suspended

(* A fiber that leaves the memory of the daemon alone keeps what is known of a *)
(* turn it does not touch, and of a control call.                              *)
LEMMA TurnBaseStays ==
  ASSUME NEW s \in Turn, TurnBase(s), TakenByClose(s) => TakenByClose(s)',
         TakenByClose(s)' => (TakenByClose(s) \/ interrupted'[s]),
         interrupted[s] => interrupted'[s],
         plan'[s] = plan[s], history'[s] = history[s], diskRecord'[s] = diskRecord[s],
         record'[s] = record[s] \/ TakenByClose(s)',
         pc'[s] = pc[s] \/ pc'[s] \in {"lost", "cut"} \/ (pc[s] = "idle" /\ pc'[s] = "queued"),
         pc[s] = "probing" => ((holds'[s] = cur' /\ active' = None) \/ pc'[s] # "probing")
  PROVE  TurnBase(s)'
BY DEF TurnBase, Untaken, Waiting

LEMMA ControlBaseStays ==
  ASSUME NEW c \in Control, ControlBase(c),
         pc'[c] = pc[c], holds'[c] = holds[c], op'[c] = op[c], target'[c] = target[c],
         pc[c] \in Running => cur' = cur /\ active' \in {active, None}
  PROVE  ControlBase(c)'
BY DEF ControlBase, CloseInv, Closing, Running, LockedAwait

LEMMA TurnKeepsEntry ==
  ASSUME IInv, EntryInv, NEW s \in Turn, TurnStep(s)
  PROVE  EntryInv'
<1> s \in Fiber /\ s # None /\ s \notin Control /\ holds[s] \in Incarnation
  BY FibersAreDistinct DEF Fiber, IInv, DataTypes, CallTypes
<1> DataTypes /\ cur \in Incarnation /\ holds \in [Fiber -> Incarnation]
  BY DEF IInv, DataTypes, MemoryTypes, CallTypes
<1>1. TurnBase(s) /\ Quiet /\ Entry
  BY DEF EntryInv
<1>2. Owns(s) /\ Alone(s)
  BY <1>1, TurnOwns DEF Owns
<1>3. up' = "serving"
  BY <1>1, <1>2, TurnIsAwake DEF Alone
<1>4. \A g \in Fiber \ {s} : holds'[g] = holds[g]
  BY <1>2 DEF Owns
<1>5. Entry'
  <2>1. CASE active' = None
    BY <2>1 DEF Entry
  <2>2. CASE active' = active /\ active # None
    <3>1. active \in Fiber
      BY <2>2 DEF DataTypes, MemoryTypes, Fiber
    <3>2. holds'[active] = cur /\ cur' = cur
      BY <1>1, <1>2, <2>2, <3>1 DEF Owns, Entry
    <3>3. session'[cur].active = active /\ session'[cur].status # "closed"
      BY <1>1, <1>2, <2>2 DEF Owns, Entry
    <3> QED BY <2>2, <3>2, <3>3 DEF Entry
  <2>3. CASE active' = s /\ pc[s] = "probing" /\ active' # active
    <3>1. ProbeDriver(s)
      BY <2>3, ProbesOnly
    <3> QED BY <1>1, <2>3, <3>1 DEF ProbeDriver, SetSession, TurnBase, Entry, DataTypes,
               MemoryTypes, unchangedByTurns, unchangedByEntries, DeleteEntry
  <2> QED BY <1>2, <2>1, <2>2, <2>3 DEF Alone
<1>6. \A t \in Turn : TurnBase(t)'
  <2> SUFFICES ASSUME NEW t \in Turn PROVE TurnBase(t)'
    OBVIOUS
  <2>0. TurnBase(t) /\ (TakenByClose(t)' <=> TakenByClose(t)) /\ UNCHANGED <<cur, interrupted>>
    BY <1>2, TakenSame DEF EntryInv, Alone, Owns
  <2>1. CASE t = s
    <3>1. pc'[s] = "probing" => holds'[s] = cur /\ active' = None
      BY <1>2 DEF Owns
    <3> QED BY <1>2, <2>0, <2>1, <3>1 DEF TurnBase, Owns
  <2>2. CASE t # s
    <3>1. Same(t) /\ pc'[t] = pc[t] /\ holds'[t] = holds[t]
      BY <1>2, <1>4, <2>2 DEF Alone, Fiber
    <3>2. pc[t] = "probing" => holds'[t] = cur' /\ active' = None
      <4>1. ASSUME pc[t] = "probing" PROVE pc[s] # "probing"
        BY <2>2, <4>1, OneRuns DEF Fiber, Running, LockedAwait
      <4> QED BY <1>2, <2>0, <3>1, <4>1 DEF TurnBase, Alone
    <3> QED BY <2>0, <3>1, <3>2, TurnBaseStays DEF Same
  <2> QED BY <2>1, <2>2
<1>7. \A c \in Control : ControlBase(c)'
  <2> SUFFICES ASSUME NEW c \in Control PROVE ControlBase(c)'
    OBVIOUS
  <2>1. /\ ControlBase(c) /\ c \in Fiber \ {s}
        /\ pc'[c] = pc[c] /\ holds'[c] = holds[c] /\ UNCHANGED <<op, target, cur>>
    BY <1>2, <1>4 DEF EntryInv, Alone, Owns, Fiber
  <2>2. pc[c] \in Running => active' \in {active, None}
    <3>1. pc[s] = "probing" => pc[s] \in Running
      BY DEF Running, LockedAwait
    <3> QED BY <1>2, <2>1, <3>1, OneRuns DEF Alone
  <2> QED BY <2>1, <2>2, ControlBaseStays
<1> QED BY <1>3, <1>5, <1>6, <1>7 DEF EntryInv, Quiet, BootNames

LEMMA LaunchTable ==
  ASSUME NEW w \in Writing, NEW l \in {AfterWrite[w], AfterFault[w]}, l \in Launching
  PROVE  w \in Launching /\ l \in {"launching", "restoring"}
<1>1. AfterWrite[w] \in Launching => w \in Launching /\ AfterWrite[w] = "launching"
  BY Labels DEF AfterWrite, Launching
<1>2. AfterFault[w] \in Launching => w \in Launching /\ AfterFault[w] \in {"launching", "restoring"}
  <2>1. \/ AfterFault[w] \in {"done", "caught", "submitThrew", "admitThrew"}
        \/ w = "launched" /\ AfterFault[w] = "restoring"
        \/ AfterFault[w] = AfterWrite[w]
    BY Labels DEF AfterFault, Writing
  <2> QED BY <1>1, <2>1 DEF Launching
<1> QED BY <1>1, <1>2

(* A call that is no turn and changes neither the entry nor a record. *)
LEMMA BystanderKeepsEntry ==
  ASSUME EntryInv, up = "serving", NEW f \in Fiber \ Turn,
         UNCHANGED <<up, cur, active, plan, diskRecord, history>>, Entry',
         \A s \in Turn : /\ TakenByClose(s) => TakenByClose(s)'
                         /\ TakenByClose(s)' => (TakenByClose(s) \/ interrupted'[s])
                         /\ interrupted[s] => interrupted'[s]
                         /\ record'[s] = record[s] \/ TakenByClose(s)',
         \A g \in Fiber \ {f} : pc'[g] = pc[g] /\ holds'[g] = holds[g],
         \A c \in Control \ {f} : target'[c] = target[c] /\ op'[c] = op[c],
         f \in Control => ControlBase(f)'
  PROVE  EntryInv'
<1>1. \A s \in Turn : TurnBase(s)'
  <2> SUFFICES ASSUME NEW s \in Turn PROVE TurnBase(s)'
    OBVIOUS
  <2>1. TurnBase(s) /\ pc'[s] = pc[s] /\ holds'[s] = holds[s]
    BY DEF EntryInv, Fiber
  <2>2. pc[s] = "probing" => holds'[s] = cur' /\ active' = None
    BY <2>1 DEF TurnBase
  <2> QED BY <2>1, <2>2, TurnBaseStays
<1>2. \A c \in Control : ControlBase(c)'
  <2> SUFFICES ASSUME NEW c \in Control, c # f PROVE ControlBase(c)'
    OBVIOUS
  <2>1. ControlBase(c) /\ c \in Fiber
    BY DEF EntryInv, Fiber
  <2> QED BY <2>1, ControlBaseStays
<1> QED BY <1>1, <1>2 DEF EntryInv, Quiet, BootNames

LEMMA EntryStays ==
  ASSUME Entry, UNCHANGED <<cur, active>>,
         active # None => /\ session'[cur].active = session[cur].active
                          /\ session'[cur].status # "closed"
                          /\ holds'[active] = holds[active]
  PROVE  Entry'
BY DEF Entry

LEMMA InterruptKeepsEntry ==
  ASSUME IInv, EntryInv, NEW f \in Interrupt, InterruptStep(f)
  PROVE  EntryInv'
<1>1. f \in Fiber \ Turn /\ f \notin Control
  BY FibersAreDistinct DEF Fiber
<1>2. up = "serving"
  BY <1>1 DEF EntryInv, Quiet, InterruptStep, CallInterrupt, SendEscape, Gone
<1> USE DEF IInv, FiberInv, FiberTypes, DataTypes, MemoryTypes, CallTypes
<1>3. /\ UNCHANGED <<up, cur, active, plan, diskRecord, history, op, record>>
      /\ \A s \in Turn : interrupted[s] => interrupted'[s]
      /\ \A g \in Fiber \ {f} : pc'[g] = pc[g] /\ holds'[g] = holds[g]
      /\ \A c \in Control : target'[c] = target[c]
  <2>1. CASE CallInterrupt(f)
    BY <1>1, <2>1 DEF CallInterrupt, MarkInterrupted, PersistSession, Goto, diskVars
  <2>2. CASE SendEscape(f)
    BY <1>1, <2>2 DEF SendEscape, Goto, diskVars
  <2> QED BY <2>1, <2>2 DEF InterruptStep
<1>4. Entry'
  <2>1. active # None => active \in Fiber /\ active # f
    BY <1>1 DEF Fiber
  <2>2. CASE CallInterrupt(f)
    BY <1>3, <2>1, <2>2, EntryStays DEF EntryInv, CallInterrupt, MarkInterrupted, SetSession
  <2>3. CASE SendEscape(f)
    BY <1>3, <2>1, <2>3, EntryStays DEF EntryInv, SendEscape, Entry
  <2> QED BY <2>2, <2>3 DEF InterruptStep
<1>5. \A s \in Turn : TakenByClose(s)' <=> TakenByClose(s)
  BY <1>3 DEF TakenByClose
<1> QED BY <1>1, <1>2, <1>3, <1>4, <1>5, BystanderKeepsEntry

LEMMA LookupKeepsEntry ==
  ASSUME IInv, EntryInv, NEW g \in Lookup, LookupStep(g)
  PROVE  EntryInv'
<1>1. g \in Fiber \ Turn /\ g \notin Control
  BY FibersAreDistinct DEF Fiber
<1>2. up = "serving"
  BY <1>1 DEF EntryInv, Quiet, LookupStep, CallGet, LookAtDriver, Gone
<1> USE DEF IInv, FiberInv, FiberTypes, DataTypes, MemoryTypes, CallTypes
<1>3. /\ UNCHANGED <<up, cur, active, plan, diskRecord, history, op, target, interrupted, record>>
      /\ \A f \in Fiber \ {g} : pc'[f] = pc[f] /\ holds'[f] = holds[f]
  BY DEF LookupStep, CallGet, LookAtDriver, PersistSession, Goto, diskVars
<1>4. Entry'
  <2>1. active # None => active \in Fiber /\ active # g
    BY <1>1 DEF Fiber
  <2>2. active # None => /\ session'[cur].active = session[cur].active
                         /\ session'[cur].status # "closed"
    BY DEF EntryInv, Entry, LookupStep, CallGet, LookAtDriver, SetSession, SetStatus
  <2> QED BY <1>3, <2>1, <2>2, EntryStays DEF EntryInv
<1> QED BY <1>1, <1>2, <1>3, <1>4, TakenSame, BystanderKeepsEntry

LEMMA WriteKeepsEntry ==
  ASSUME IInv, EntryInv, NEW f \in Fiber, WriteStep(f)
  PROVE  EntryInv'
<1>1. up = "serving" /\ UNCHANGED <<up, cur, session, active, plan, diskRecord, history, op, target,
                                    interrupted, holds, record>>
  <2>1. Called # NoImage
    BY DEF Called, NoImage
  <2> QED BY <2>1 DEF WriteStep, Serialize, SessionWritten, SessionWriteFails, EntryInv, Quiet,
             memoryVars, diskVars
<1>2. \/ pc' = pc
      \/ pc[f] \in Writing /\ \E l \in {AfterWrite[pc[f]], AfterFault[pc[f]]} : Goto(f, l)
  BY DEF WriteStep, Serialize, SessionWritten, SessionWriteFails, IInv, FiberInv, WritersWait
<1>3. PICK l : /\ pc' = [pc EXCEPT ![f] = l]
               /\ l = pc[f] \/ (pc[f] \in Writing /\ l \in {AfterWrite[pc[f]], AfterFault[pc[f]]})
  <2>1. pc \in [Fiber -> Await]
    BY DEF IInv, FiberInv, FiberTypes
  <2> QED BY <1>2, <2>1 DEF Goto
<1>4. \A g \in Fiber : pc'[g] = IF g = f THEN l ELSE pc[g]
  BY <1>3 DEF IInv, FiberInv, FiberTypes
<1>5. Entry'
  BY <1>1 DEF EntryInv, Entry
<1>6. \A s \in Turn : TurnBase(s)'
  <2> SUFFICES ASSUME NEW s \in Turn PROVE TurnBase(s)'
    OBVIOUS
  <2>1. s \in Fiber /\ TurnBase(s) /\ (TakenByClose(s)' <=> TakenByClose(s))
    BY <1>1, TakenSame DEF EntryInv, Fiber
  <2>2. pc'[s] = pc[s] \/ pc'[s] \notin Waiting \cup {"refusing", "starting"}
    <3>1. \A w \in Writing : "starting" \notin {AfterWrite[w], AfterFault[w]}
      <4>1. ASSUME NEW w \in Writing PROVE AfterWrite[w] # "starting"
        BY Labels DEF AfterWrite
      <4>2. ASSUME NEW w \in Writing PROVE AfterFault[w] # "starting"
        <5>1. AfterFault[w] \in {"done", "caught", "submitThrew", "admitThrew", "restoring", AfterWrite[w]}
          BY Labels DEF AfterFault, Writing
        <5> QED BY <4>1, <5>1
      <4> QED BY <4>1, <4>2
    <3> QED BY <1>3, <1>4, <2>1, <3>1, AfterTable DEF Waiting
  <2> QED BY <1>1, <2>1, <2>2 DEF TurnBase, Untaken, Waiting
<1>7. \A c \in Control : ControlBase(c)'
  <2> SUFFICES ASSUME NEW c \in Control PROVE ControlBase(c)'
    OBVIOUS
  <2>1. c \in Fiber /\ ControlBase(c)
    BY DEF EntryInv, Fiber
  <2>2. CASE pc'[c] = pc[c]
    BY <1>1, <2>1, <2>2, ControlBaseStays
  <2>3. CASE pc'[c] # pc[c]
    <3>1. c = f /\ pc[c] \in Writing /\ l \in {AfterWrite[pc[c]], AfterFault[pc[c]]} /\ pc'[c] = l
      BY <1>3, <1>4, <2>1, <2>3
    <3>2. /\ l \in Running => pc[c] \in Running
          /\ l \in Launching => pc[c] \in Launching
      <4>1. l \in Launching => l \in {"launching", "restoring"} /\ pc[c] \in Launching
        BY <3>1, LaunchTable
      <4> QED BY <3>1, <4>1, NextLabels
    <3>3. /\ l \notin {"idle", "queued", "checking", "closeTurn", "closeRec"}
          /\ l \in Closing => pc[c] \in Closing
      BY <3>1, AfterTable DEF Closing
    <3> QED BY <1>1, <2>1, <3>1, <3>2, <3>3 DEF ControlBase, CloseInv
  <2> QED BY <2>2, <2>3
<1> QED BY <1>1, <1>5, <1>6, <1>7 DEF EntryInv, Quiet, BootNames

-----------------------------------------------------------------------------
(* The control calls, in the order in which they run. *)
LEMMA CreatesKeepEntry ==
  ASSUME IInv, EntryInv, NEW c \in Control, BeginControl(c), cur' # cur
  PROVE  EntryInv'
<1> c \in Fiber \ Turn /\ cur \in Incarnation /\ pc \in [Fiber -> Await]
    /\ session \in [Incarnation -> SessionObject] /\ holds \in [Fiber -> Incarnation]
  BY FibersAreDistinct DEF Fiber, IInv, DataTypes, MemoryTypes, CallTypes, FiberInv, FiberTypes
<1>1. /\ pc[c] = "queued" /\ HoldsChain(c) /\ op[c].kind = "create"
      /\ session[cur].status = "closed" /\ holds'[c] = cur'
      /\ UNCHANGED <<up, active, plan, diskRecord, history, op, target, interrupted, record>>
      /\ \A g \in Fiber \ {c} : pc'[g] = pc[g] /\ holds'[g] = holds[g]
      /\ pc'[c] \in {"ctlStarting", "done"}
  BY DEF BeginControl, Refused, diskVars, PersistSession, Goto
<1>2. active = None /\ up = "serving"
  BY <1>1 DEF EntryInv, Entry, Quiet, Gone
<1>3. \A g \in Fiber : pc[g] \notin Running
  BY <1>1 DEF IInv, FiberInv, HeadRuns, HoldsChain, Running
<1>4. \A s \in Turn : TurnBase(s)'
  <2> SUFFICES ASSUME NEW s \in Turn PROVE TurnBase(s)'
    OBVIOUS
  <2>1. TurnBase(s) /\ pc'[s] = pc[s] /\ pc[s] # "probing" /\ (TakenByClose(s)' <=> TakenByClose(s))
    BY <1>1, <1>3, TakenSame DEF EntryInv, Fiber, Running, LockedAwait
  <2> QED BY <1>1, <2>1, TurnBaseStays
<1>5. \A d \in Control : ControlBase(d)'
  <2> SUFFICES ASSUME NEW d \in Control PROVE ControlBase(d)'
    OBVIOUS
  <2>1. ControlBase(d) /\ d \in Fiber
    BY DEF EntryInv, Fiber
  <2>2. CASE d = c
    BY <1>1, <1>2, <2>1, <2>2 DEF ControlBase, CloseInv, Closing
  <2>3. CASE d # c
    BY <1>1, <1>3, <2>1, <2>3, ControlBaseStays
  <2> QED BY <2>2, <2>3
<1> QED BY <1>1, <1>2, <1>4, <1>5 DEF EntryInv, Quiet, BootNames, Entry

(* The steps of a control call that leave the entry and the records alone. *)
Leaves(c) ==
  \/ CallControl(c) \/ (BeginControl(c) /\ cur' = cur)
  \/ CheckAttached(c) \/ LaunchChecks(c) \/ Respawn(c) \/ DriverStarts(c)
  \/ RestorePrevious(c) \/ AwaitTurnEnd(c) \/ RecheckAttached(c) \/ KillPane(c) \/ AfterKill(c)
  \/ SendEscape(c)

LEMMA LeavesMemory ==
  ASSUME IInv, EntryInv, NEW c \in Control, Leaves(c)
  PROVE  /\ UNCHANGED <<up, cur, active, plan, diskRecord, history>>
         /\ \A g \in Fiber \ {c} : pc'[g] = pc[g] /\ holds'[g] = holds[g]
         /\ \A d \in Control \ {c} : target'[d] = target[d] /\ op'[d] = op[d]
         /\ target'[c] = target[c] \/ (active # None /\ target'[c] = active /\ interrupted'[active])
         /\ \A s \in Turn : interrupted[s] => interrupted'[s]
         /\ \A s \in Turn : record'[s] = record[s] \/ target'[c] = s
         /\ active # None => /\ session'[cur].active = session[cur].active
                             /\ session'[cur].status # "closed"
         /\ holds'[c] = holds[c] \/ holds'[c] = cur
         /\ ControlBase(c)'
<1> c \in Fiber \ Turn /\ ControlBase(c) /\ Entry
  BY FibersAreDistinct DEF Fiber, EntryInv
<1> USE DEF IInv, FiberInv, FiberTypes, DataTypes, MemoryTypes, CallTypes, diskVars, faultVars,
        Goto, PersistSession, SetSession, SetStatus, ControlBase, CloseInv, Closing, Launching,
        Entry
<1> "queued" \notin Running
  BY DEF Running
<1>1. CASE CallControl(c)
  BY <1>1 DEF CallControl, JoinChain
<1>2. CASE BeginControl(c) /\ cur' = cur
  <2>1. op[c].kind # "create" \/ cur = MaxIncarnation \/ Refused(c)
    BY <1>2, BoundsAreNaturals DEF BeginControl, Incarnation
  <2>2. /\ UNCHANGED <<up, cur, active, plan, diskRecord, history, op, target, interrupted, session,
                      record>>
        /\ holds' = [holds EXCEPT ![c] = cur]
        /\ \/ Goto(c, "done")
           \/ ~Refused(c) /\ op[c].kind # "create" /\ Goto(c, "checking")
    BY <1>2, <2>1, BoundsAreNaturals DEF BeginControl, Incarnation
  <2>3. CASE Goto(c, "done")
    BY <2>2, <2>3 DEF Running, LockedAwait
  <2>4. CASE ~Refused(c) /\ op[c].kind # "create" /\ Goto(c, "checking")
    <3>1. op[c].kind # "close" => active = None
      BY <2>4 DEF Refused, Busy, Kind
    <3> QED BY <1>2, <2>2, <2>4, <3>1 DEF BeginControl
  <2> QED BY <2>2, <2>3, <2>4
<1>3. CASE CheckAttached(c)
  BY <1>3 DEF CheckAttached, MarkInterrupted, Running, LockedAwait
<1>4. CASE LaunchChecks(c)
  BY <1>4 DEF LaunchChecks, Running, LockedAwait
<1>5. CASE Respawn(c)
  BY <1>5 DEF Respawn, Running, LockedAwait
<1>6. CASE DriverStarts(c)
  BY <1>6 DEF DriverStarts, Running, LockedAwait
<1>7. CASE RestorePrevious(c)
  BY <1>7 DEF RestorePrevious, Running, LockedAwait
<1>8. CASE AwaitTurnEnd(c)
  BY <1>8 DEF AwaitTurnEnd, Running, LockedAwait
<1>9. CASE RecheckAttached(c)
  BY <1>9 DEF RecheckAttached, Running, LockedAwait
<1>10. CASE KillPane(c)
  BY <1>10 DEF KillPane, Running, LockedAwait
<1>11. CASE AfterKill(c)
  BY <1>11 DEF AfterKill, Running, LockedAwait
<1>12. CASE SendEscape(c)
  BY <1>12, FibersAreDistinct DEF SendEscape, Running, LockedAwait
<1> QED BY <1>1, <1>2, <1>3, <1>4, <1>5, <1>6, <1>7, <1>8, <1>9, <1>10, <1>11, <1>12
        DEF Leaves

(* A close takes the turn it finds, and no second one. *)
LEMMA LeavesTarget ==
  ASSUME NEW c \in Control, ControlBase(c), Leaves(c)
  PROVE  target[c] \in {None, active} \/ target'[c] = target[c]
BY DEF ControlBase, CloseInv, Closing, Leaves, CallControl, BeginControl, CheckAttached,
   MarkInterrupted, LaunchChecks, Respawn, DriverStarts, RestorePrevious, AwaitTurnEnd,
   RecheckAttached, KillPane, AfterKill, SendEscape

LEMMA LeavesEntry ==
  ASSUME IInv, EntryInv, NEW c \in Control, Leaves(c), up = "serving"
  PROVE  EntryInv'
<1>1. c \in Fiber \ Turn
  BY FibersAreDistinct DEF Fiber
<1>2. \A s \in Turn : /\ TakenByClose(s) => TakenByClose(s)'
                      /\ TakenByClose(s)' => (TakenByClose(s) \/ interrupted'[s])
                      /\ record'[s] = record[s] \/ TakenByClose(s)'
  <2> SUFFICES ASSUME NEW s \in Turn
               PROVE  /\ TakenByClose(s) => TakenByClose(s)'
                      /\ TakenByClose(s)' => (TakenByClose(s) \/ interrupted'[s])
                      /\ record'[s] = record[s] \/ TakenByClose(s)'
    OBVIOUS
  <2>1. target[c] \in {None, active} \/ target'[c] = target[c]
    BY LeavesTarget DEF EntryInv
  <2>2. s # None
    BY FibersAreDistinct DEF Fiber
  <2> QED BY <2>1, <2>2, LeavesMemory DEF TakenByClose
<1>3. Entry'
  <2>1. active # None => active \in Fiber /\ active # c
    BY <1>1 DEF IInv, DataTypes, MemoryTypes, Fiber
  <2> QED BY <2>1, LeavesMemory, EntryStays DEF EntryInv
<1> QED BY <1>1, <1>2, <1>3, LeavesMemory, BystanderKeepsEntry

(* close ends a turn itself: the record it writes is that of a turn it took. *)
LEMMA ClosesKeepEntry ==
  ASSUME IInv, EntryInv, up = "serving", NEW c \in Control,
         CloseFinishesTurn(c) \/ CloseRecordsTurn(c)
  PROVE  EntryInv'
<1> c \in Fiber \ Turn /\ ControlBase(c) /\ Entry /\ cur \in Incarnation
    /\ session \in [Incarnation -> SessionObject] /\ pc \in [Fiber -> Await]
    /\ active \in Turn \cup {None} /\ image \in [Fiber -> SessionFile \cup {NoImage, Called}]
  BY FibersAreDistinct DEF Fiber, EntryInv, IInv, DataTypes, MemoryTypes, FiberInv, FiberTypes
<1>1. /\ pc[c] \in {"closeTurn", "closeRec"}
      /\ UNCHANGED <<up, cur, plan, op, target, interrupted, holds>>
      /\ active' \in {active, None}
      /\ \A s \in Turn : s # target[c] => /\ diskRecord'[s] = diskRecord[s]
                                          /\ history'[s] = history[s] /\ record'[s] = record[s]
      /\ \A g \in Fiber \ {c} : pc'[g] = pc[g]
      /\ pc'[c] \in {"closeRec", "ctlWriting", "done"}
      /\ pc'[c] = "closeRec" => active' = active
  <2> USE DEF Goto, PersistSession, IInv, DataTypes, DiskTypes
  <2>1. CASE CloseFinishesTurn(c)
    BY <2>1 DEF CloseFinishesTurn, FinishTurn, FirstRecord
  <2>2. CASE CloseRecordsTurn(c)
    BY <2>2 DEF CloseRecordsTurn, RecordWritten, RecordFails
  <2> QED BY <2>1, <2>2
<1>2. Entry'
  <2>1. CASE active' = None
    BY <2>1 DEF Entry
  <2>2. CASE active' # None
    <3>1. session' = session /\ active' = active
      BY <1>1, <2>2 DEF CloseFinishesTurn, CloseRecordsTurn
    <3> QED BY <1>1, <3>1 DEF Entry
  <2> QED BY <2>1, <2>2
<1>3. \A s \in Turn : TurnBase(s)'
  <2> SUFFICES ASSUME NEW s \in Turn PROVE TurnBase(s)'
    OBVIOUS
  <2>1. TurnBase(s) /\ pc'[s] = pc[s] /\ (TakenByClose(s)' <=> TakenByClose(s))
    BY <1>1, TakenSame DEF EntryInv, Fiber
  <2>2. CASE s = target[c]
    <3>1. TakenByClose(s)
      BY <2>2 DEF TakenByClose
    <3> QED BY <1>1, <2>1, <3>1 DEF TurnBase
  <2>3. CASE s # target[c]
    <3>1. diskRecord'[s] = diskRecord[s] /\ history'[s] = history[s] /\ plan'[s] = plan[s]
          /\ interrupted'[s] = interrupted[s] /\ record'[s] = record[s]
      BY <1>1, <2>3
    <3>2. pc[s] = "probing" => holds'[s] = cur' /\ active' = None
      BY <1>1, <2>1 DEF TurnBase
    <3> QED BY <2>1, <3>1, <3>2, TurnBaseStays
  <2> QED BY <2>2, <2>3
<1>4. \A d \in Control : ControlBase(d)'
  <2> SUFFICES ASSUME NEW d \in Control PROVE ControlBase(d)'
    OBVIOUS
  <2>1. ControlBase(d) /\ d \in Fiber
    BY DEF EntryInv, Fiber
  <2>2. CASE d = c
    BY <1>1, <2>1, <2>2 DEF ControlBase, CloseInv, Closing, Running, LockedAwait, Launching
  <2>3. CASE d # c
    BY <1>1, <2>1, <2>3, ControlBaseStays
  <2> QED BY <2>2, <2>3
<1> QED BY <1>1, <1>2, <1>3, <1>4 DEF EntryInv, Quiet, BootNames

LEMMA ControlKeepsEntry ==
  ASSUME IInv, EntryInv, NEW c \in Control, ControlStep(c) \/ SendEscape(c)
  PROVE  EntryInv'
<1>1. up = "serving"
  BY ControlIsAwake DEF EntryInv
<1> QED BY <1>1, CreatesKeepEntry, LeavesEntry, ClosesKeepEntry DEF ControlStep, Leaves

-----------------------------------------------------------------------------
LEMMA CrashKeepsEntry ==
  ASSUME IInv, EntryInv, Crash
  PROVE  EntryInv'
<1>1. UNCHANGED <<op, target, plan, diskRecord, history, interrupted, record>> /\ active' = None
      /\ up' = "down"
  BY DEF Crash, diskVars
<1>2. \A f \in Fiber : /\ pc'[f] = pc[f] \/ pc'[f] \in {"lost", "cut"}
                       /\ pc'[f] \in Gone /\ image'[f] = NoImage
  BY DEF Crash, Gone
<1>3. \A s \in Turn : TurnBase(s)'
  <2> SUFFICES ASSUME NEW s \in Turn PROVE TurnBase(s)'
    OBVIOUS
  <2>1. TurnBase(s) /\ s \in Fiber /\ (TakenByClose(s)' <=> TakenByClose(s))
    BY <1>1, TakenSame DEF EntryInv, Fiber
  <2>2. pc'[s] # "probing"
    BY <1>2, <2>1 DEF Gone
  <2> QED BY <1>1, <1>2, <2>1, <2>2, TurnBaseStays
<1>4. \A c \in Control : ControlBase(c)'
  <2> SUFFICES ASSUME NEW c \in Control PROVE ControlBase(c)'
    OBVIOUS
  <2>1. ControlBase(c) /\ c \in Fiber
    BY DEF EntryInv, Fiber
  <2> QED BY <1>1, <1>2, <2>1
          DEF ControlBase, CloseInv, Closing, Running, LockedAwait, Launching, Gone
<1> QED BY <1>1, <1>2, <1>3, <1>4 DEF EntryInv, Quiet, BootNames, Entry

LEMMA PaneKeepsEntry ==
  ASSUME EntryInv, NEW i \in Incarnation, PaneStep(i)
  PROVE  EntryInv'
<1>1. UNCHANGED <<up, cur, session, active, interrupted, pc, holds, op, target, image, plan,
                  diskRecord, history, record>>
  BY DEF PaneStep, DriverDies, AgentFinishes, Attach, Detach, unchangedByTmux, memoryVars,
     fiberVars, diskVars
<1>2. Quiet' /\ Entry' /\ BootNames'
  BY <1>1 DEF EntryInv, Quiet, Entry, BootNames, Named
<1>3. \A s \in Turn : TurnBase(s)'
  BY <1>1, TakenSame DEF EntryInv, TurnBase, Untaken
<1>4. \A c \in Control : ControlBase(c)'
  BY <1>1 DEF EntryInv, ControlBase, CloseInv
<1> QED BY <1>2, <1>3, <1>4 DEF EntryInv

LEMMA BootKeepsEntry ==
  ASSUME IInv, EntryInv, BootStep
  PROVE  EntryInv'
<1> USE DEF IInv, DataTypes, MemoryTypes, DiskTypes
<1>1. /\ up # "serving" /\ active = None /\ active' = None
      /\ UNCHANGED <<fiberVars, interrupted>>
      /\ \A f \in Fiber : pc[f] \in Gone /\ image[f] = NoImage
  BY DEF EntryInv, Quiet, BootStep, Boot, BootFinishesTurn, BootRecordsTurn, BootSavesSession,
     Reconcile, Serve, unchangedByTmux, memoryVars
<1>2. Quiet' /\ Entry'
  BY <1>1 DEF Quiet, Entry, fiberVars
<1>3. \A c \in Control : ControlBase(c)'
  <2> SUFFICES ASSUME NEW c \in Control PROVE ControlBase(c)'
    OBVIOUS
  <2>1. ControlBase(c) /\ pc[c] \in Gone
    BY <1>1 DEF EntryInv, Fiber
  <2> QED BY <1>1, <2>1
          DEF ControlBase, CloseInv, Closing, Running, LockedAwait, Launching, Gone, fiberVars
<1>4. BootNames' /\ \A s \in Turn : \/ history'[s] = history[s] \/ history'[s] \in Terminal
  <2>1. CASE Boot
    BY <1>1, <2>1 DEF Boot, BootNames, Named, diskVars, SessionFile
  <2>2. CASE BootFinishesTurn
    BY <2>2 DEF BootFinishesTurn, FinishTurn, FirstRecord, EntryInv, BootNames, Named, Terminal
  <2>3. CASE BootRecordsTurn \/ BootSavesSession \/ Serve \/ \E i \in Incarnation : Reconcile(i)
    <3>1. up' \in {"bootSession", "reconciling", "serving"} /\ history' = history
      BY <2>3 DEF BootRecordsTurn, BootSavesSession, Serve, Reconcile, unchangedByTmux,
         memoryVars, diskVars
    <3> QED BY <3>1 DEF BootNames
  <2> QED BY <2>1, <2>2, <2>3 DEF BootStep
<1>5. \A s \in Turn : diskRecord'[s] = diskRecord[s] \/ diskRecord[s] \in Unfinished
  <2>1. CASE BootRecordsTurn
    BY <2>1 DEF BootRecordsTurn, RecordWritten, EntryInv, BootNames, Named
  <2>2. CASE ~BootRecordsTurn
    BY <2>2 DEF BootStep, Boot, BootFinishesTurn, BootSavesSession, Reconcile, Serve,
       unchangedByTmux, diskVars
  <2> QED BY <2>1, <2>2
<1>6. \A s \in Turn : TurnBase(s)'
  <2> SUFFICES ASSUME NEW s \in Turn PROVE TurnBase(s)'
    OBVIOUS
  <2>1. TurnBase(s) /\ pc[s] \in Gone /\ (TakenByClose(s)' <=> TakenByClose(s))
    BY <1>1, TakenSame DEF EntryInv, Fiber, fiberVars
  <2>2. None \notin Unfinished
    BY NoneIsNoRecord DEF Recorded
  <2> QED BY <1>1, <1>4, <1>5, <2>1, <2>2 DEF TurnBase, Untaken, fiberVars, Gone, Waiting
<1> QED BY <1>2, <1>3, <1>4, <1>6 DEF EntryInv

LEMMA InitEntry == Init => EntryInv
<1> SUFFICES ASSUME Init PROVE EntryInv
  OBVIOUS
<1>1. \A s \in Turn : s # None /\ s \in Fiber
  BY FibersAreDistinct DEF Fiber
<1>2. Quiet /\ Entry /\ BootNames
  BY DEF Init, Quiet, Entry, BootNames
<1>3. \A s \in Turn : TurnBase(s)
  BY <1>1 DEF Init, TurnBase, Untaken, TakenByClose, Terminal, Waiting
<1>4. \A c \in Control : ControlBase(c)
  BY DEF Init, ControlBase, CloseInv, Closing, Running, LockedAwait, Launching, Fiber
<1> QED BY <1>2, <1>3, <1>4 DEF EntryInv

LEMMA StepEntry ==
  ASSUME IInv, EntryInv, [Next]_vars
  PROVE  EntryInv'
<1>1. CASE UNCHANGED vars
  <2>1. UNCHANGED <<up, cur, session, active, interrupted, pc, holds, op, target, image, plan,
                    diskRecord, history, record>>
    BY <1>1 DEF vars, memoryVars, fiberVars, diskVars
  <2>2. Quiet' /\ Entry' /\ BootNames'
    BY <2>1 DEF EntryInv, Quiet, Entry, BootNames, Named
  <2>3. \A s \in Turn : TurnBase(s)'
    BY <2>1, TakenSame DEF EntryInv, TurnBase, Untaken
  <2>4. \A c \in Control : ControlBase(c)'
    BY <2>1 DEF EntryInv, ControlBase, CloseInv
  <2> QED BY <2>2, <2>3, <2>4 DEF EntryInv
<1> QED BY <1>1, TurnKeepsEntry, InterruptKeepsEntry, ControlKeepsEntry, LookupKeepsEntry,
           WriteKeepsEntry, PaneKeepsEntry, CrashKeepsEntry, BootKeepsEntry DEF Next

LEMMA EntryHolds == Spec => []EntryInv
BY InitInv, InitEntry, StepInv, StepEntry, PTL DEF Spec

-----------------------------------------------------------------------------
(* While the record of a turn is unfinished; and while nothing has been written *)
(* of its end.                                                                   *)
Working == Reserving \cup {"released", "failedSess", "finally"}
Owning  == Reserving \ {"caught", "stopped", "failing", "failedRec"}

(* A turn has the entry until its record is finished, unless a close has taken *)
(* it or the end of an earlier turn has deleted it.                             *)
Keeps(s) ==
  \/ TakenByClose(s) \/ s \in displaced
  \/ /\ pc[s] \in Working /\ diskRecord[s] \notin Terminal => active = s
     /\ pc[s] \in Owning => diskRecord[s] \notin Terminal

OrderInv == \A s \in Turn : Keeps(s)

(* A step of s that changes the entry has it, or finds it free, or displaces the *)
(* turn that has it.                                                             *)
Holds(s) ==
  /\ active' = active \/ active \in {s, None} \cup displaced'
  /\ displaced \subseteq displaced'
  /\ TakenByClose(s) \/ s \in displaced \/ Keeps(s)'

LEMMA AdmissionHolds ==
  ASSUME IInv, NEW s \in Turn, TurnBase(s), Keeps(s),
         Submit(s) \/ Admit(s) \/ ProbeDriver(s) \/ RecordAccepted(s) \/ AdmissionThrew(s)
         \/ RecordRejected(s)
  PROVE  Holds(s)
<1> s \in Fiber /\ {"accepted", "running", None} \cap Terminal = {}
  BY NoneIsNoRecord DEF Fiber, Recorded, Terminal
<1> USE DEF IInv, FiberInv, FiberTypes, DataTypes, DiskTypes, TurnBase, Untaken, Waiting,
        Holds, Keeps, MemoryTypes, PaneTypes, marks,
        Gone, Working, Owning, Reserving, Suspended, unchangedByTurns, unchangedByEntries, DeleteEntry, diskVars, Goto,
        PersistSession, RecordWritten, RecordFails
<1>1. CASE Submit(s)
  BY <1>1 DEF Submit, JoinChain
<1>2. CASE Admit(s)
  BY <1>2 DEF Admit
<1>3. CASE ProbeDriver(s)
  BY <1>3 DEF ProbeDriver
<1>4. CASE RecordAccepted(s)
  BY <1>4 DEF RecordAccepted
<1>5. CASE AdmissionThrew(s)
  BY <1>5 DEF AdmissionThrew
<1>6. CASE RecordRejected(s)
  BY <1>6 DEF RecordRejected
<1> QED BY <1>1, <1>2, <1>3, <1>4, <1>5, <1>6

LEMMA StagingHolds ==
  ASSUME IInv, NEW s \in Turn, TurnBase(s), Keeps(s),
         StageTurn(s) \/ RecordStaged(s) \/ SubmitThrew(s) \/ FinishWorkspaceTurn(s)
         \/ RecordUnstaged(s)
  PROVE  Holds(s)
<1> s \in Fiber /\ {"accepted", "running", None} \cap Terminal = {}
  BY NoneIsNoRecord DEF Fiber, Recorded, Terminal
<1> USE DEF IInv, FiberInv, FiberTypes, DataTypes, DiskTypes, TurnBase, Untaken, Waiting,
        Holds, Keeps, MemoryTypes, PaneTypes, marks,
        Gone, Working, Owning, Reserving, Suspended, unchangedByTurns, unchangedByEntries, DeleteEntry, diskVars, Goto,
        PersistSession, RecordWritten, RecordFails
<1>1. CASE StageTurn(s)
  BY <1>1 DEF StageTurn, GiveUpStaging
<1>2. CASE RecordStaged(s)
  BY <1>2 DEF RecordStaged
<1>3. CASE SubmitThrew(s)
  BY <1>3 DEF SubmitThrew, GiveUpStaging
<1>4. CASE FinishWorkspaceTurn(s)
  BY <1>4 DEF FinishWorkspaceTurn, HistoryAwait
<1>5. CASE RecordUnstaged(s)
  BY <1>5 DEF RecordUnstaged
<1> QED BY <1>1, <1>2, <1>3, <1>4, <1>5

LEMMA ExecutionHolds ==
  ASSUME IInv, NEW s \in Turn, TurnBase(s), Keeps(s),
         AwaitDriver(s) \/ BeginRunning(s) \/ RecordStarted(s) \/ RecordNet(s)
         \/ PastePrompt(s) \/ PressEnter(s) \/ ConfirmSubmission(s) \/ ArtifactTerminal(s)
  PROVE  Holds(s)
<1> s \in Fiber /\ {"accepted", "running", None} \cap Terminal = {}
  BY NoneIsNoRecord DEF Fiber, Recorded, Terminal
<1> USE DEF IInv, FiberInv, FiberTypes, DataTypes, DiskTypes, TurnBase, Untaken, Waiting,
        Holds, Keeps, MemoryTypes, PaneTypes, marks,
        Gone, Working, Owning, Reserving, Suspended, unchangedByTurns, unchangedByEntries, DeleteEntry, diskVars, Goto,
        PersistSession, RecordWritten, RecordFails
<1>1. CASE AwaitDriver(s)
  BY <1>1 DEF AwaitDriver, FailUnexpectedly
<1>2. CASE BeginRunning(s)
  BY <1>2 DEF BeginRunning
<1>3. CASE RecordStarted(s)
  BY <1>3 DEF RecordStarted, FailUnexpectedly
<1>4. CASE RecordNet(s)
  BY <1>4 DEF RecordNet
<1>5. CASE PastePrompt(s)
  BY <1>5 DEF PastePrompt
<1>6. CASE PressEnter(s)
  BY <1>6 DEF PressEnter
<1>7. CASE ConfirmSubmission(s)
  BY <1>7 DEF ConfirmSubmission
<1>8. CASE ArtifactTerminal(s)
  BY <1>8 DEF ArtifactTerminal
<1> QED BY <1>1, <1>2, <1>3, <1>4, <1>5, <1>6, <1>7, <1>8

LEMMA FailureHolds ==
  ASSUME IInv, NEW s \in Turn, TurnBase(s), Keeps(s),
         WatchRejects(s) \/ CheckOwner(s) \/ RecordFinished(s) \/ Caught(s) \/ Expired(s)
         \/ SettleTimedOutDriver(s) \/ RecordFailed(s) \/ Finally(s)
  PROVE  Holds(s)
<1> s \in Fiber /\ {"accepted", "running", None} \cap Terminal = {}
  BY NoneIsNoRecord DEF Fiber, Recorded, Terminal
<1> USE DEF IInv, FiberInv, FiberTypes, DataTypes, DiskTypes, TurnBase, Untaken, Waiting,
        Holds, Keeps, MemoryTypes, PaneTypes, marks,
        Gone, Working, Owning, Reserving, Suspended, unchangedByTurns, unchangedByEntries, DeleteEntry, diskVars, Goto,
        PersistSession, RecordWritten, RecordFails
<1>1. CASE WatchRejects(s)
  BY <1>1 DEF WatchRejects
<1>2. CASE CheckOwner(s)
  BY <1>2 DEF CheckOwner
<1>3. CASE RecordFinished(s)
  BY <1>3 DEF RecordFinished
<1>4. CASE Caught(s)
  BY <1>4 DEF Caught
<1>5. CASE Expired(s)
  BY <1>5 DEF Expired
<1>6. CASE SettleTimedOutDriver(s)
  BY <1>6 DEF SettleTimedOutDriver
<1>7. CASE RecordFailed(s)
  BY <1>7 DEF RecordFailed
<1>8. CASE Finally(s)
  BY <1>8 DEF Finally
<1> QED BY <1>1, <1>2, <1>3, <1>4, <1>5, <1>6, <1>7, <1>8

LEMMA TurnHolds ==
  ASSUME IInv, NEW s \in Turn, TurnBase(s), Keeps(s), TurnStep(s)
  PROVE  Holds(s)
BY AdmissionHolds, StagingHolds, ExecutionHolds, FailureHolds DEF TurnStep, OwnStep

LEMMA KeepsStays ==
  ASSUME NEW s \in Turn, Keeps(s), TakenByClose(s) => TakenByClose(s)',
         diskRecord'[s] = diskRecord[s], pc'[s] = pc[s] \/ pc'[s] \in Gone \cup {"queued"},
         displaced \subseteq displaced', active = s => active' = s \/ s \in displaced'
  PROVE  Keeps(s)'
BY DEF Keeps, Gone, Working, Owning, Reserving

LEMMA TurnKeepsOrder ==
  ASSUME IInv, EntryInv, OrderInv, NEW s \in Turn, TurnStep(s)
  PROVE  OrderInv'
<1>1. TurnBase(s) /\ Keeps(s)
  BY DEF EntryInv, OrderInv
<1>2. Holds(s) /\ Alone(s)
  BY <1>1, TurnHolds, TurnOwns DEF Owns
<1> SUFFICES ASSUME NEW t \in Turn PROVE Keeps(t)'
  BY DEF OrderInv
<1>3. CASE t = s
  BY <1>1, <1>2, <1>3, TakenSame DEF Holds, Alone, Keeps
<1>4. CASE t # s
  <2>1. pc'[t] = pc[t] /\ Same(t) /\ Keeps(t) /\ (TakenByClose(t)' <=> TakenByClose(t))
    BY <1>2, <1>4, TakenSame DEF Alone, Fiber, OrderInv
  <2>2. active = t => active' = t \/ t \in displaced'
    BY <1>2, <1>4, FibersAreDistinct DEF Holds, Fiber
  <2> QED BY <1>2, <2>1, <2>2, KeepsStays DEF Same, Holds
<1> QED BY <1>3, <1>4

(* Only a turn deletes the entry of another one. *)
LEMMA OthersDisplaceNone ==
  ASSUME NEW f, InterruptStep(f) \/ LookupStep(f) \/ ControlStep(f) \/ SendEscape(f)
                \/ WriteStep(f) \/ PaneStep(f) \/ Crash \/ BootStep
  PROVE  UNCHANGED <<displaced, overtaken>>
<1>1. CASE InterruptStep(f) \/ LookupStep(f) \/ SendEscape(f)
  BY <1>1 DEF InterruptStep, CallInterrupt, SendEscape, LookupStep, CallGet, LookAtDriver, marks
<1>2. CASE ControlStep(f)
  BY <1>2 DEF ControlStep, CallControl, BeginControl, CheckAttached, LaunchChecks, Respawn,
     DriverStarts, RestorePrevious, AwaitTurnEnd, RecheckAttached, KillPane, AfterKill,
     CloseFinishesTurn, CloseRecordsTurn, marks
<1>3. CASE WriteStep(f) \/ PaneStep(f)
  BY <1>3 DEF WriteStep, Serialize, SessionWritten, SessionWriteFails, PaneStep, DriverDies,
     AgentFinishes, Attach, Detach, unchangedByTmux, marks
<1>4. CASE Crash \/ BootStep
  BY <1>4 DEF Crash, BootStep, Boot, BootFinishesTurn, BootRecordsTurn, BootSavesSession,
     Reconcile, Serve, unchangedByTmux, marks
<1> QED BY <1>1, <1>2, <1>3, <1>4

(* A step that moves no turn. *)
LEMMA BystanderKeepsOrder ==
  ASSUME OrderInv, NEW f \in Fiber \ Turn, \A g \in Fiber \ {f} : pc'[g] = pc[g],
         displaced' = displaced,
         \A s \in Turn : /\ TakenByClose(s) => TakenByClose(s)'
                         /\ TakenByClose(s) \/ (diskRecord'[s] = diskRecord[s]
                                                /\ (active = s => active' = s))
  PROVE  OrderInv'
<1>1. \A s \in Turn : pc'[s] = pc[s]
  BY DEF Fiber
<1>2. \A s \in Turn : Keeps(s)'
  BY <1>1, KeepsStays DEF OrderInv, Keeps
<1> QED BY <1>2 DEF OrderInv

LEMMA InterruptKeepsOrder ==
  ASSUME IInv, OrderInv, NEW f \in Interrupt, InterruptStep(f)
  PROVE  OrderInv'
<1>1. f \in Fiber \ Turn /\ f \notin Control
  BY FibersAreDistinct DEF Fiber
<1> USE DEF IInv, FiberInv, FiberTypes, DataTypes, MemoryTypes, CallTypes
<1>2. /\ UNCHANGED <<active, diskRecord>>
      /\ \A g \in Fiber \ {f} : pc'[g] = pc[g]
      /\ \A c \in Control : target'[c] = target[c]
  <2>1. CASE CallInterrupt(f)
    BY <1>1, <2>1 DEF CallInterrupt, MarkInterrupted, PersistSession, Goto, diskVars
  <2>2. CASE SendEscape(f)
    BY <1>1, <2>2 DEF SendEscape, Goto, diskVars
  <2> QED BY <2>1, <2>2 DEF InterruptStep
<1>3. \A s \in Turn : TakenByClose(s)' <=> TakenByClose(s)
  BY <1>2 DEF TakenByClose
<1> QED BY <1>1, <1>2, <1>3, OthersDisplaceNone, BystanderKeepsOrder

LEMMA LookupKeepsOrder ==
  ASSUME IInv, OrderInv, NEW g \in Lookup, LookupStep(g)
  PROVE  OrderInv'
<1>1. g \in Fiber \ Turn
  BY FibersAreDistinct DEF Fiber
<1>2. /\ UNCHANGED <<active, diskRecord, target>>
      /\ \A f \in Fiber \ {g} : pc'[f] = pc[f]
  BY DEF LookupStep, CallGet, LookAtDriver, PersistSession, Goto, diskVars, IInv, FiberInv,
     FiberTypes
<1> QED BY <1>1, <1>2, TakenSame, OthersDisplaceNone, BystanderKeepsOrder

LEMMA ControlKeepsOrder ==
  ASSUME IInv, EntryInv, OrderInv, NEW c \in Control, ControlStep(c) \/ SendEscape(c)
  PROVE  OrderInv'
<1> c \in Fiber \ Turn /\ ControlBase(c)
  BY FibersAreDistinct DEF Fiber, EntryInv
<1>1. CASE Leaves(c)
  <2>1. \A s \in Turn : TakenByClose(s) => TakenByClose(s)'
    <3>1. \A s \in Turn : s # None
      BY FibersAreDistinct DEF Fiber
    <3> QED BY <1>1, <3>1, LeavesMemory, LeavesTarget DEF TakenByClose, EntryInv
  <2> QED BY <1>1, <2>1, LeavesMemory, OthersDisplaceNone, BystanderKeepsOrder
<1>2. CASE ~Leaves(c)
  <2> USE DEF IInv, FiberInv, FiberTypes, DataTypes, DiskTypes, CallTypes
  <2>1. /\ target' = target
        /\ \A g \in Fiber \ {c} : pc'[g] = pc[g]
        /\ \A s \in Turn : (s = target[c]) \/ (diskRecord'[s] = diskRecord[s] /\ (active = s => active' = s))
    <3>1. CASE BeginControl(c)
      BY <3>1 DEF BeginControl, PersistSession, Goto, diskVars
    <3>2. CASE CloseFinishesTurn(c)
      BY <3>2 DEF CloseFinishesTurn, PersistSession, Goto
    <3>3. CASE CloseRecordsTurn(c)
      BY <3>3 DEF CloseRecordsTurn, PersistSession, Goto, RecordWritten, RecordFails,
         ControlBase
    <3> QED BY <1>2, <3>1, <3>2, <3>3 DEF ControlStep, Leaves
  <2> QED BY <2>1, TakenSame, OthersDisplaceNone, BystanderKeepsOrder DEF TakenByClose
<1> QED BY <1>1, <1>2

LEMMA WorkTable ==
  ASSUME NEW w \in Writing, NEW l \in {AfterWrite[w], AfterFault[w]}
  PROVE  /\ l \in Working => w \in Working
         /\ l \in Owning => w \in Owning
<1>1. l \in Working => w \in {"accepted", "submitted", "bound", "released", "failedSess"}
  <2>1. AfterWrite[w] \in Working => w \in {"accepted", "submitted", "bound", "released", "failedSess"}
    BY Labels DEF AfterWrite, Working, Reserving
  <2>2. \/ AfterFault[w] \in {"done", "restoring"}
        \/ w \in {"accepted", "submitted", "bound", "released", "failedSess"}
        \/ AfterFault[w] = AfterWrite[w]
    BY Labels DEF AfterFault, Writing
  <2> QED BY <2>1, <2>2 DEF Working, Reserving
<1>2. /\ w = "released" => l \in {"finally", "caught"}
      /\ w = "failedSess" => l = "finally"
  <2>1. w \in {"released", "failedSess"} => AfterWrite[w] = "finally"
    BY Labels DEF AfterWrite
  <2>2. /\ w = "failedSess" => AfterFault[w] = AfterWrite[w]
        /\ w = "released" => AfterFault[w] = "caught"
    BY Labels DEF AfterFault, Writing
  <2> QED BY <2>1, <2>2
<1> QED BY <1>1, <1>2 DEF Working, Owning, Reserving

LEMMA WriteKeepsOrder ==
  ASSUME IInv, OrderInv, NEW f \in Fiber, WriteStep(f)
  PROVE  OrderInv'
<1>1. UNCHANGED <<active, diskRecord, target, displaced>>
  BY OthersDisplaceNone
     DEF WriteStep, Serialize, SessionWritten, SessionWriteFails, memoryVars, diskVars
<1>2. \/ pc' = pc
      \/ pc[f] \in Writing /\ \E l \in {AfterWrite[pc[f]], AfterFault[pc[f]]} : Goto(f, l)
  BY DEF WriteStep, Serialize, SessionWritten, SessionWriteFails, IInv, FiberInv, WritersWait
<1>3. \A s \in Turn : /\ pc'[s] \in Working => pc[s] \in Working
                      /\ pc'[s] \in Owning => pc[s] \in Owning
  BY <1>2, WorkTable DEF Goto, IInv, FiberInv, FiberTypes, Fiber
<1> QED BY <1>1, <1>3, TakenSame DEF OrderInv, Keeps

(* The loss of the process ends every call, and init begins none. *)
LEMMA RestartKeepsOrder ==
  ASSUME IInv, EntryInv, OrderInv, Crash \/ BootStep
  PROVE  OrderInv'
<1>1. \A s \in Turn : pc'[s] \in Gone
  <2>1. CASE Crash
    BY <2>1 DEF Crash, Gone, Fiber
  <2>2. CASE BootStep
    BY <2>2 DEF EntryInv, Quiet, Fiber, fiberVars, BootStep, Boot, BootFinishesTurn,
       BootRecordsTurn,
       BootSavesSession, Reconcile, Serve, unchangedByTmux
  <2> QED BY <2>1, <2>2
<1> QED BY <1>1 DEF OrderInv, Keeps, Gone, Working, Owning, Reserving

LEMMA PaneKeepsOrder ==
  ASSUME OrderInv, (\E i \in Incarnation : PaneStep(i)) \/ UNCHANGED vars
  PROVE  OrderInv'
<1>1. UNCHANGED <<active, pc, target, diskRecord, displaced>>
  BY DEF PaneStep, DriverDies, AgentFinishes, Attach, Detach, unchangedByTmux, memoryVars,
     fiberVars, diskVars, marks, vars
<1> QED BY <1>1, TakenSame DEF OrderInv, Keeps

LEMMA InitOrder == Init => OrderInv
BY DEF Init, OrderInv, Keeps, Gone, Working, Owning, Reserving, Fiber

LEMMA StepOrder ==
  ASSUME IInv, EntryInv, OrderInv, [Next]_vars
  PROVE  OrderInv'
BY TurnKeepsOrder, InterruptKeepsOrder, ControlKeepsOrder, LookupKeepsOrder, WriteKeepsOrder,
   RestartKeepsOrder, PaneKeepsOrder DEF Next

(* No restart and no release replaces the driver under a turn that somebody     *)
(* waits for, whatever turns, closes, interrupts, lookups, lost processes and    *)
(* failed writes come between its awaits: it is the turn's entry that refuses    *)
(* them, and only the end of an earlier turn takes that away (1019).             *)
THEOREM ReplacementsSpareTurns == Spec => []ReplacementFindsNoTurn
<1>1. IInv /\ EntryInv /\ OrderInv => ReplacementFindsNoTurn
  <2> SUFFICES ASSUME EntryInv, OrderInv, NEW c \in Control,
                      pc[c] = "respawning" \/ (pc[c] = "killing" /\ op[c].kind = "release"),
                      NEW s \in Turn, InPane(s), ~TakenByClose(s), s \notin displaced
               PROVE  FALSE
    BY DEF ReplacementFindsNoTurn
  <2>1. active = None
    BY DEF EntryInv, ControlBase, Launching, Running, LockedAwait
  <2>2. active = s
    BY DEF InPane, OrderInv, Keeps, Working, Owning, Reserving
  <2>3. s # None
    BY FibersAreDistinct DEF Fiber
  <2> QED BY <2>1, <2>2, <2>3
<1> QED BY <1>1, InitInv, StepInv, InitEntry, StepEntry, InitOrder, StepOrder, PTL DEF Spec

-----------------------------------------------------------------------------
(* When no write has failed: a turn whose entry nobody takes or deletes has it *)
(* until it gives the session back, and from then on its record is finished;   *)
(* and a session that says it is busy is, or a turn that lost its entry was in *)
(* it.  The last awaits of a call are those of every call.                     *)
Ended == {"released", "failedSess", "finally", "rejected", "unstagedSess", "netSess", "done",
          "intQuiet", "getWriting", "launched", "restored", "ctlWriting"}

Serves(s) ==
  \/ TakenByClose(s) \/ s \in displaced
  \/ /\ pc[s] \in Reserving => active = s
     /\ pc[s] \in Ended => diskRecord[s] \notin Unfinished

(* A session object, or an image of one, of incarnation i. *)
BusyNames(object, i) ==
  object.status \in BusyStatus => object.active # None \/ Disturbed(i)

Vacates(c) ==
  /\ pc[c] \in Running /\ op[c].kind \in {"restart", "release"} =>
       session[cur].status \notin BusyStatus \/ Disturbed(cur)
  /\ pc[c] \in Launching /\ op[c].kind = "restart" =>
       op[c].prev \notin BusyStatus \/ Disturbed(cur)

ServeInv ==
  /\ active # None => pc[active] \in Reserving
  /\ \A s \in displaced : pc[s] \notin {"idle", "queued"}
  /\ up = "serving" /\ session[cur].status \in BusyStatus => active # None \/ Disturbed(cur)
  /\ up = "reconciling" => session[cur].status \notin BusyStatus \/ Disturbed(cur)
  /\ \A i \in Incarnation : BusyNames(session[i], i)
  /\ BusyNames(diskSession, diskSession.inc)
  /\ \A f \in Fiber : BusyNames(image[f], image[f].inc)
  /\ \A s \in Turn : Serves(s)
  /\ \A c \in Control : Vacates(c)

(* What a step of a turn does to the entry, its record and its session. *)
Delivers(s) ==
  /\ TakenByClose(s) \/ s \in displaced \/ Serves(s)'
  /\ active' = s => pc'[s] \in Reserving
  /\ pc'[s] \in {"idle", "queued"} => pc[s] \in {"idle", "queued"}
  /\ active = s /\ active' # s => session'[cur].status \notin BusyStatus
  /\ session'[holds[s]].status \in BusyStatus =>
       \/ session'[holds[s]] = session[holds[s]] \/ s \in displaced
       \/ session'[holds[s]].active = s /\ active' = s

LEMMA AdmissionDelivers ==
  ASSUME IInv, NEW s \in Turn, Entry, TurnBase(s), Serves(s), writeFaults' = 0,
         active = s => pc[s] \in Reserving,
         Submit(s) \/ Admit(s) \/ ProbeDriver(s) \/ RecordAccepted(s) \/ AdmissionThrew(s)
         \/ RecordRejected(s)
  PROVE  Delivers(s)
<1> s \in Fiber /\ s # None /\ None \notin Unfinished /\ holds[s] \in Incarnation
  BY NoneIsNoRecord, FibersAreDistinct DEF Fiber, Recorded, IInv, DataTypes, CallTypes
<1> USE DEF IInv, FiberInv, FiberTypes, DataTypes, MemoryTypes, DiskTypes, CountTypes, Entry,
        TurnBase, Untaken,
        Waiting, PaneTypes, marks, Serves, Delivers, Ended, Reserving, Suspended, unchangedByTurns, unchangedByEntries, DeleteEntry, diskVars,
        Goto,
        SetSession, PersistSession, RecordWritten, RecordFails, Fault, BusyStatus, Unfinished
<1>1. CASE Submit(s)
  BY <1>1 DEF Submit, JoinChain
<1>2. CASE Admit(s)
  BY <1>2 DEF Admit
<1>3. CASE ProbeDriver(s)
  BY <1>3 DEF ProbeDriver
<1>4. CASE RecordAccepted(s)
  BY <1>4 DEF RecordAccepted
<1>5. CASE AdmissionThrew(s)
  BY <1>5 DEF AdmissionThrew
<1>6. CASE RecordRejected(s)
  BY <1>6 DEF RecordRejected
<1> QED BY <1>1, <1>2, <1>3, <1>4, <1>5, <1>6

LEMMA StagingDelivers ==
  ASSUME IInv, NEW s \in Turn, Entry, TurnBase(s), Serves(s), writeFaults' = 0,
         active = s => pc[s] \in Reserving,
         StageTurn(s) \/ RecordStaged(s) \/ SubmitThrew(s) \/ FinishWorkspaceTurn(s)
         \/ RecordUnstaged(s)
  PROVE  Delivers(s)
<1> s \in Fiber /\ s # None /\ None \notin Unfinished /\ holds[s] \in Incarnation
  BY NoneIsNoRecord, FibersAreDistinct DEF Fiber, Recorded, IInv, DataTypes, CallTypes
<1> plan[s] \in Plan
  BY DEF IInv, DataTypes, CallTypes
<1> USE DEF IInv, FiberInv, FiberTypes, DataTypes, MemoryTypes, DiskTypes, CountTypes, Entry,
        TurnBase, Untaken,
        Waiting, PaneTypes, marks, Serves, Delivers, Ended, Reserving, Suspended, unchangedByTurns, unchangedByEntries, DeleteEntry, diskVars,
        Goto,
        SetSession, PersistSession, RecordWritten, RecordFails, Fault, BusyStatus, Unfinished,
        Terminal
<1>1. CASE StageTurn(s)
  BY <1>1 DEF StageTurn, GiveUpStaging
<1>2. CASE RecordStaged(s)
  BY <1>2 DEF RecordStaged
<1>3. CASE SubmitThrew(s)
  BY <1>3 DEF SubmitThrew, GiveUpStaging
<1>4. CASE FinishWorkspaceTurn(s)
  BY <1>4 DEF FinishWorkspaceTurn, HistoryAwait
<1>5. CASE RecordUnstaged(s)
  BY <1>5 DEF RecordUnstaged, Plan
<1> QED BY <1>1, <1>2, <1>3, <1>4, <1>5

LEMMA ExecutionDelivers ==
  ASSUME IInv, NEW s \in Turn, Entry, TurnBase(s), Serves(s), writeFaults' = 0,
         active = s => pc[s] \in Reserving,
         AwaitDriver(s) \/ BeginRunning(s) \/ RecordStarted(s) \/ RecordNet(s)
         \/ PastePrompt(s) \/ PressEnter(s) \/ ConfirmSubmission(s) \/ ArtifactTerminal(s)
  PROVE  Delivers(s)
<1> s \in Fiber /\ s # None /\ None \notin Unfinished /\ holds[s] \in Incarnation
  BY NoneIsNoRecord, FibersAreDistinct DEF Fiber, Recorded, IInv, DataTypes, CallTypes
<1> plan[s] \in Plan
  BY DEF IInv, DataTypes, CallTypes
<1> USE DEF IInv, FiberInv, FiberTypes, DataTypes, MemoryTypes, DiskTypes, CountTypes, Entry,
        TurnBase, Untaken,
        Waiting, PaneTypes, marks, Serves, Delivers, Ended, Reserving, Suspended, unchangedByTurns, unchangedByEntries, DeleteEntry, diskVars,
        Goto,
        SetSession, PersistSession, RecordWritten, RecordFails, Fault, BusyStatus, Unfinished,
        Terminal
<1>1. CASE AwaitDriver(s)
  <2>1. UNCHANGED <<diskRecord, target>> /\ pc'[s] \in {"baseline", "netTurn", "done"}
    BY <1>1 DEF AwaitDriver, FailUnexpectedly
  <2>2. CASE pc'[s] = "baseline"
    BY <1>1, <2>2 DEF AwaitDriver, FailUnexpectedly
  <2>3. CASE pc'[s] # "baseline" /\ active = s
    <3>1. plan'[s].next \in {"ready", "auth_required", "attention_required"}
      BY <1>1, <2>1, <2>3 DEF AwaitDriver, FailUnexpectedly, SetPlan, CallTypes
    <3>2. /\ active' = None /\ session' = [session EXCEPT ![cur] = [status |-> plan'[s].next, active |-> None]]
          /\ pc'[s] = "netTurn"
      BY <1>1, <2>1, <2>3 DEF AwaitDriver, FailUnexpectedly
    <3> QED BY <2>3, <3>1, <3>2
  <2>4. CASE pc'[s] # "baseline" /\ active # s
    <3>1. TakenByClose(s) \/ s \in displaced
      BY <1>1, <2>4 DEF AwaitDriver
    <3> QED BY <1>1, <2>1, <2>4, <3>1 DEF AwaitDriver, FailUnexpectedly
  <2> QED BY <2>2, <2>3, <2>4
<1>2. CASE BeginRunning(s)
  BY <1>2 DEF BeginRunning
<1>3. CASE RecordStarted(s)
  BY <1>3 DEF RecordStarted, FailUnexpectedly, SetPlan, Plan
<1>4. CASE RecordNet(s)
  BY <1>4 DEF RecordNet
<1>5. CASE PastePrompt(s)
  BY <1>5 DEF PastePrompt
<1>6. CASE PressEnter(s)
  BY <1>6 DEF PressEnter
<1>7. CASE ConfirmSubmission(s)
  BY <1>7 DEF ConfirmSubmission
<1>8. CASE ArtifactTerminal(s)
  BY <1>8 DEF ArtifactTerminal
<1> QED BY <1>1, <1>2, <1>3, <1>4, <1>5, <1>6, <1>7, <1>8

LEMMA FailureDelivers ==
  ASSUME IInv, NEW s \in Turn, Entry, TurnBase(s), Serves(s), writeFaults' = 0,
         active = s => pc[s] \in Reserving,
         WatchRejects(s) \/ CheckOwner(s) \/ RecordFinished(s) \/ Caught(s) \/ Expired(s)
         \/ SettleTimedOutDriver(s) \/ RecordFailed(s) \/ Finally(s)
  PROVE  Delivers(s)
<1> s \in Fiber /\ s # None /\ None \notin Unfinished /\ holds[s] \in Incarnation
  BY NoneIsNoRecord, FibersAreDistinct DEF Fiber, Recorded, IInv, DataTypes, CallTypes
<1> plan[s] \in Plan
  BY DEF IInv, DataTypes, CallTypes
<1> USE DEF IInv, FiberInv, FiberTypes, DataTypes, MemoryTypes, DiskTypes, CountTypes, Entry,
        TurnBase, Untaken,
        Waiting, PaneTypes, marks, Serves, Delivers, Ended, Reserving, Suspended, unchangedByTurns, unchangedByEntries, DeleteEntry, diskVars,
        Goto,
        SetSession, PersistSession, RecordWritten, RecordFails, Fault, BusyStatus, Unfinished,
        Terminal
<1>1. CASE WatchRejects(s)
  BY <1>1 DEF WatchRejects
<1>2. CASE CheckOwner(s)
  BY <1>2 DEF CheckOwner
<1>3. CASE RecordFinished(s)
  BY <1>3 DEF RecordFinished, Plan, Consistent
<1>4. CASE Caught(s)
  BY <1>4 DEF Caught
<1>5. CASE Expired(s)
  BY <1>5 DEF Expired, Status
<1>6. CASE SettleTimedOutDriver(s)
  BY <1>6 DEF SettleTimedOutDriver
<1>7. CASE RecordFailed(s)
  BY <1>7 DEF RecordFailed, Plan, Status
<1>8. CASE Finally(s)
  BY <1>8 DEF Finally
<1> QED BY <1>1, <1>2, <1>3, <1>4, <1>5, <1>6, <1>7, <1>8

LEMMA TurnDelivers ==
  ASSUME IInv, NEW s \in Turn, Entry, TurnBase(s), Serves(s), writeFaults' = 0,
         active = s => pc[s] \in Reserving, TurnStep(s)
  PROVE  Delivers(s)
BY AdmissionDelivers, StagingDelivers, ExecutionDelivers, FailureDelivers DEF TurnStep, OwnStep

(* A new image of session.json is the object that the call has in hand. *)
LEMMA ImagesMove ==
  ASSUME IInv, NEW f \in Fiber, Moves(f)
  PROVE  image' \in {image, [image EXCEPT ![f] = Called], [image EXCEPT ![f] = NoImage]}
BY DEF Moves, MovesTo

LEMMA TurnImages ==
  ASSUME IInv, NEW s \in Turn, TurnStep(s)
  PROVE  image' \in {image, [image EXCEPT ![s] = Called], [image EXCEPT ![s] = NoImage]}
<1>1. CASE Submit(s)
  BY <1>1 DEF Submit
<1>2. CASE ~Submit(s)
  <2>1. Moves(s)
    BY <1>2, AdmissionMoves, StagingMoves, ExecutionMoves, FailureMoves DEF TurnStep, OwnStep,
       IInv
  <2> QED BY <2>1, ImagesMove DEF Fiber
<1> QED BY <1>1, <1>2

(* What is said of a displaced turn stays said. *)
LEMMA DisturbedStays ==
  ASSUME ServeInv, displaced \subseteq displaced', displaced \subseteq Turn,
         \A s \in Turn : holds'[s] = holds[s] \/ pc[s] \in {"idle", "queued"},
         NEW i, Disturbed(i)
  PROVE  Disturbed(i)'
BY DEF Disturbed, ServeInv

LEMMA ImagesName ==
  ASSUME IInv, ServeInv, NEW f \in Fiber,
         \A i : Disturbed(i) => Disturbed(i)',
         image' \in {image, [image EXCEPT ![f] = Called], [image EXCEPT ![f] = NoImage]}
  PROVE  \A g \in Fiber : BusyNames(image[g], image[g].inc)'
<1> SUFFICES ASSUME NEW g \in Fiber PROVE BusyNames(image[g], image[g].inc)'
  OBVIOUS
<1>1. image'[g] \in {image[g], Called, NoImage}
  BY DEF IInv, FiberInv, FiberTypes
<1>2. CASE image'[g] = image[g]
  <2>1. image[g].status \in BusyStatus => image[g].active # None \/ Disturbed(image[g].inc)
    BY DEF ServeInv, BusyNames
  <2> QED BY <1>2, <2>1 DEF BusyNames
<1>3. CASE image'[g] \in {Called, NoImage}
  BY <1>3 DEF BusyNames, Called, NoImage, BusyStatus
<1> QED BY <1>1, <1>2, <1>3

LEMMA TurnDisplaces ==
  ASSUME IInv, NEW s \in Turn, TurnStep(s)
  PROVE  displaced' \subseteq displaced \cup ({active} \ {s, None})
<1>1. CASE RecordRejected(s) \/ RecordUnstaged(s) \/ RecordFinished(s) \/ RecordFailed(s) \/ Finally(s)
  BY <1>1 DEF RecordRejected, RecordUnstaged, RecordFinished, RecordFailed, Finally, DeleteEntry
<1>2. CASE ~(RecordRejected(s) \/ RecordUnstaged(s) \/ RecordFinished(s) \/ RecordFailed(s) \/ Finally(s))
  BY <1>2 DEF TurnStep, OwnStep, Submit, Admit, ProbeDriver, RecordAccepted, AdmissionThrew,
     StageTurn, RecordStaged, SubmitThrew, FinishWorkspaceTurn, AwaitDriver, BeginRunning,
     RecordStarted, RecordNet, PastePrompt, PressEnter, ConfirmSubmission, WatchRejects,
     ArtifactTerminal, CheckOwner, Caught, Expired, SettleTimedOutDriver, unchangedByTurns, marks
<1> QED BY <1>1, <1>2

LEMMA TurnKeepsServe ==
  ASSUME IInv, EntryInv, OrderInv, ServeInv, writeFaults' = 0,
         NEW s \in Turn, TurnStep(s)
  PROVE  ServeInv'
<1> s \in Fiber /\ s # None /\ holds[s] \in Incarnation /\ cur \in Incarnation
    /\ active \in Turn \cup {None} /\ displaced \subseteq Turn
  BY FibersAreDistinct DEF Fiber, IInv, DataTypes, CallTypes, MemoryTypes, PaneTypes
<1>1. TurnBase(s) /\ Keeps(s) /\ Serves(s) /\ Entry /\ Quiet /\ (active = s => pc[s] \in Reserving)
  BY DEF EntryInv, OrderInv, ServeInv
<1>2. Owns(s) /\ Alone(s) /\ Holds(s) /\ Delivers(s)
  BY <1>1, TurnOwns, TurnHolds, TurnDelivers DEF Owns
<1>3. up = "serving" /\ up' = "serving" /\ cur' = cur
  BY <1>1, <1>2, TurnIsAwake DEF Alone, Owns
<1>4. /\ displaced' \in SUBSET Turn /\ displaced \subseteq displaced'
      /\ \A t \in displaced' \ displaced : active = t /\ t # s
      /\ \A t \in Turn : holds'[t] = holds[t] \/ pc[t] \in {"idle", "queued"}
  <2>1. displaced' \subseteq displaced \cup ({active} \ {s, None}) /\ displaced \subseteq displaced'
    BY <1>2, TurnDisplaces DEF Holds
  <2>2. \A t \in Turn : holds'[t] = holds[t] \/ pc[t] \in {"idle", "queued"}
    <3>1. holds \in [Fiber -> Incarnation] /\ Turn \subseteq Fiber
      BY DEF IInv, DataTypes, CallTypes, Fiber
    <3> QED BY <1>2, <3>1 DEF Owns
  <2> QED BY <2>1, <2>2
<1>5. /\ \A i : Disturbed(i) => Disturbed(i)'
      /\ Disturbed(cur) => Disturbed(cur)'
  <2>1. \A i : Disturbed(i) => Disturbed(i)'
    BY <1>4, DisturbedStays
  <2>2. Disturbed(cur) => Disturbed(cur)'
    BY <1>3, <2>1 DEF Disturbed
  <2> QED BY <2>1, <2>2
<1>6. active # None /\ active' = None /\ active # s => Disturbed(cur)'
  <2> SUFFICES ASSUME active # None, active' = None, active # s PROVE Disturbed(cur)'
    OBVIOUS
  <2>1. active \in displaced' /\ holds[active] = cur
    BY <1>1, <1>2 DEF Holds, Entry
  <2>2. pc[active] \notin {"idle", "queued"}
    BY DEF ServeInv, Reserving
  <2>3. holds'[active] = cur
    BY <1>4, <2>1, <2>2
  <2> QED BY <1>3, <2>1, <2>3 DEF Disturbed
<1>7. /\ s \in displaced => \A i : i = holds[s] => Disturbed(i)'
      /\ s \in displaced /\ holds[s] = cur => Disturbed(cur)'
  <2> SUFFICES ASSUME s \in displaced
               PROVE  /\ \A i : i = holds[s] => Disturbed(i)'
                      /\ holds[s] = cur => Disturbed(cur)'
    OBVIOUS
  <2>1. pc[s] \notin {"idle", "queued"}
    BY DEF ServeInv
  <2>2. holds'[s] = holds[s]
    BY <1>4, <2>1
  <2> QED BY <1>3, <1>4, <2>2 DEF Disturbed
<1>8. active' # None => pc'[active'] \in Reserving
  <2>1. CASE active' = s
    BY <1>2, <2>1 DEF Delivers
  <2>2. CASE active' # s /\ active' # None
    <3>1. active' = active /\ active \in Fiber \ {s}
      BY <1>2, <2>2 DEF Alone, Fiber
    <3> QED BY <1>2, <2>2, <3>1 DEF Alone, ServeInv
  <2> QED BY <2>1, <2>2
<1>9. \A t \in displaced' : pc'[t] \notin {"idle", "queued"}
  <2> SUFFICES ASSUME NEW t \in displaced' PROVE pc'[t] \notin {"idle", "queued"}
    OBVIOUS
  <2>1. pc[t] \notin {"idle", "queued"}
    BY <1>4, FibersAreDistinct DEF ServeInv, Reserving, Fiber
  <2>2. t = s \/ pc'[t] = pc[t]
    BY <1>2, <1>4 DEF Alone, Fiber
  <2> QED BY <1>2, <2>1, <2>2 DEF Delivers
<1>10. session'[cur].status \in BusyStatus => active' # None \/ Disturbed(cur)'
  <2> SUFFICES ASSUME session'[cur].status \in BusyStatus, active' = None PROVE Disturbed(cur)'
    OBVIOUS
  <2>1. CASE session'[cur] = session[cur]
    <3>1. active # None \/ Disturbed(cur)
      BY <1>3, <2>1 DEF ServeInv
    <3>2. active # s
      BY <1>2 DEF Delivers
    <3> QED BY <1>5, <1>6, <3>1, <3>2
  <2>2. CASE session'[cur] # session[cur]
    <3>1. holds[s] = cur
      BY <1>2, <2>2 DEF Owns
    <3>2. s \in displaced
      BY <1>2, <2>2, <3>1 DEF Delivers
    <3> QED BY <1>7, <3>1, <3>2
  <2> QED BY <2>1, <2>2
<1>11. \A i \in Incarnation : BusyNames(session[i], i)'
  <2> SUFFICES ASSUME NEW i \in Incarnation, session'[i].status \in BusyStatus
               PROVE  session'[i].active # None \/ Disturbed(i)'
    BY DEF BusyNames
  <2>1. CASE session'[i] = session[i]
    BY <1>5, <2>1 DEF ServeInv, BusyNames
  <2>2. CASE session'[i] # session[i]
    BY <1>2, <1>7, <2>2 DEF Owns, Delivers
  <2> QED BY <2>1, <2>2
<1>12. /\ BusyNames(diskSession, diskSession.inc)'
       /\ \A f \in Fiber : BusyNames(image[f], image[f].inc)'
  <2>1. diskSession' = diskSession
    BY <1>2 DEF Owns
  <2>2. BusyNames(diskSession, diskSession.inc)'
    BY <1>5, <2>1 DEF BusyNames, ServeInv
  <2> QED BY <1>5, <2>2, TurnImages, ImagesName
<1>13. \A t \in Turn : Serves(t)'
  <2> SUFFICES ASSUME NEW t \in Turn PROVE Serves(t)'
    OBVIOUS
  <2>1. Serves(t) /\ (TakenByClose(t)' <=> TakenByClose(t))
    BY <1>2, TakenSame DEF Alone, ServeInv
  <2>2. CASE t = s
    BY <1>2, <1>4, <2>1, <2>2 DEF Delivers, Serves
  <2>3. CASE t # s
    <3>1. pc'[t] = pc[t] /\ diskRecord'[t] = diskRecord[t]
      BY <1>2, <2>3 DEF Alone, Same, Fiber
    <3>2. active = t => active' = t \/ t \in displaced'
      BY <1>2, <2>3, FibersAreDistinct DEF Holds, Fiber
    <3> QED BY <1>4, <2>1, <3>1, <3>2 DEF Serves
  <2> QED BY <2>2, <2>3
<1>14. \A c \in Control : Vacates(c)'
  <2> SUFFICES ASSUME NEW c \in Control PROVE Vacates(c)'
    OBVIOUS
  <2>1. c \in Fiber \ {s} /\ ControlBase(c) /\ Vacates(c) /\ pc'[c] = pc[c] /\ op'[c] = op[c]
    BY <1>2, FibersAreDistinct DEF Alone, Fiber, EntryInv, ServeInv
  <2>2. ASSUME pc[c] \in Running, op[c].kind \in {"restart", "release"}
        PROVE  session'[cur].status \notin BusyStatus \/ Disturbed(cur)'
    <3>1. active = None /\ pc[s] # "probing"
      <4>1. "probing" \in Running
        BY DEF Running, LockedAwait
      <4> QED BY <2>1, <2>2, <4>1, OneRuns DEF ControlBase
    <3>2. active' = None
      BY <1>2, <3>1 DEF Alone
    <3> QED BY <1>10, <3>2
  <2> QED BY <1>3, <1>5, <2>1, <2>2 DEF Vacates
<1> QED BY <1>3, <1>8, <1>9, <1>10, <1>11, <1>12, <1>13, <1>14 DEF ServeInv

(* A call that is no turn and leaves the entry, the records and session.json. *)
LEMMA BystanderKeepsServe ==
  ASSUME ServeInv, up = "serving", NEW f \in Fiber \ Turn,
         UNCHANGED <<up, active, diskRecord, diskSession, displaced>>,
         \A g \in Fiber \ {f} : pc'[g] = pc[g],
         \A s \in Turn : TakenByClose(s) => TakenByClose(s)',
         active \in Turn \cup {None}, displaced \subseteq Turn,
         \A i : Disturbed(i)' <=> Disturbed(i),
         session'[cur'].status \in BusyStatus => active # None \/ Disturbed(cur'),
         \A i \in Incarnation : session'[i] = session[i] \/ session'[i].status \notin BusyStatus
                                   \/ session'[i].active # None \/ Disturbed(i),
         \A g \in Fiber : BusyNames(image[g], image[g].inc)',
         \A c \in Control : Vacates(c)'
  PROVE  ServeInv'
<1>1. \A s \in Turn : pc'[s] = pc[s]
  BY DEF Fiber
<1>2. \A s \in Turn : Serves(s)'
  BY <1>1 DEF ServeInv, Serves
<1>3. \A i \in Incarnation : BusyNames(session[i], i)'
  BY DEF ServeInv, BusyNames
<1>4. BusyNames(diskSession, diskSession.inc)'
  BY DEF ServeInv, BusyNames
<1>5. session'[cur'].status \in BusyStatus => active' # None \/ Disturbed(cur)'
  OBVIOUS
<1> QED BY <1>1, <1>2, <1>3, <1>4, <1>5 DEF ServeInv

(* A call that displaces no turn and gives none another session. *)
LEMMA DisturbedSame ==
  ASSUME NEW f \in Fiber \ Turn, displaced' = displaced, displaced \subseteq Turn,
         \A g \in Fiber \ {f} : holds'[g] = holds[g]
  PROVE  \A i : Disturbed(i)' <=> Disturbed(i)
<1>1. \A s \in displaced : holds'[s] = holds[s]
  BY DEF Fiber
<1> QED BY <1>1 DEF Disturbed

LEMMA LaunchingRuns == Launching \subseteq Running
BY DEF Launching, Running, LockedAwait

LEMMA VacatesStays ==
  ASSUME NEW c \in Control, Vacates(c), pc'[c] = pc[c], op'[c] = op[c],
         \A i : Disturbed(i) => Disturbed(i)', pc[c] \in Running => cur' = cur,
         pc[c] \in Running /\ op[c].kind \in {"restart", "release"} =>
           session'[cur'].status = session[cur].status
           \/ session'[cur'].status \notin BusyStatus
  PROVE  Vacates(c)'
BY LaunchingRuns DEF Vacates

LEMMA InterruptKeepsServe ==
  ASSUME IInv, EntryInv, ServeInv, NEW f \in Interrupt, InterruptStep(f)
  PROVE  ServeInv'
<1>1. f \in Fiber \ Turn /\ f \notin Control
  BY FibersAreDistinct DEF Fiber
<1>2. up = "serving"
  BY <1>1 DEF EntryInv, Quiet, InterruptStep, CallInterrupt, SendEscape, Gone
<1>3. /\ displaced' = displaced /\ displaced \subseteq Turn
      /\ \A i : Disturbed(i)' <=> Disturbed(i)
  <2>1. displaced' = displaced /\ displaced \subseteq Turn
    BY OthersDisplaceNone DEF IInv, DataTypes, PaneTypes
  <2>2. \A g \in Fiber \ {f} : holds'[g] = holds[g]
    BY DEF InterruptStep, CallInterrupt, SendEscape, IInv, DataTypes, CallTypes
  <2> QED BY <1>1, <2>1, <2>2, DisturbedSame
<1>8. \A g \in Fiber : BusyNames(image[g], image[g].inc)'
  <2>1. image' \in {image, [image EXCEPT ![f] = Called], [image EXCEPT ![f] = NoImage]}
    BY <1>1, InterruptMoves, ImagesMove DEF InterruptStep, IInv
  <2> QED BY <1>1, <1>3, <2>1, ImagesName
<1> USE DEF IInv, FiberInv, FiberTypes, DataTypes, MemoryTypes, CallTypes
<1>4. /\ UNCHANGED <<up, cur, active, diskRecord, diskSession, op>>
      /\ \A g \in Fiber \ {f} : pc'[g] = pc[g]
      /\ \A c \in Control : target'[c] = target[c]
      /\ session' = session \/ (active # None /\ session' = [session EXCEPT ![cur] =
                                  [status |-> "interrupting", active |-> session[cur].active]])
  <2>1. CASE CallInterrupt(f)
    BY <1>1, <2>1 DEF CallInterrupt, MarkInterrupted, PersistSession, Goto, diskVars, SetSession
  <2>2. CASE SendEscape(f)
    BY <1>1, <2>2 DEF SendEscape, Goto, diskVars
  <2> QED BY <2>1, <2>2 DEF InterruptStep
<1>5. \A s \in Turn : TakenByClose(s)' <=> TakenByClose(s)
  BY <1>4 DEF TakenByClose
<1>6. /\ session'[cur'].status \in BusyStatus => active # None \/ Disturbed(cur')
      /\ \A i \in Incarnation : session'[i] = session[i] \/ session'[i].active # None
  BY <1>2, <1>4, FibersAreDistinct DEF ServeInv, EntryInv, Entry, Fiber
<1>7. \A c \in Control : Vacates(c)'
  <2> SUFFICES ASSUME NEW c \in Control PROVE Vacates(c)'
    OBVIOUS
  <2>1. c \in Fiber \ {f} /\ ControlBase(c) /\ Vacates(c)
    BY <1>1 DEF EntryInv, ServeInv, Fiber
  <2>2. pc[c] \in Running /\ op[c].kind \in {"restart", "release"} => session' = session
    BY <1>4, <2>1 DEF ControlBase
  <2> QED BY <1>3, <1>4, <2>1, <2>2, VacatesStays
<1> QED BY <1>1, <1>2, <1>3, <1>4, <1>5, <1>6, <1>7, <1>8, BystanderKeepsServe

LEMMA LookupKeepsServe ==
  ASSUME IInv, EntryInv, ServeInv, NEW g \in Lookup, LookupStep(g)
  PROVE  ServeInv'
<1>1. g \in Fiber \ Turn /\ g \notin Control
  BY FibersAreDistinct DEF Fiber
<1>2. up = "serving"
  BY <1>1 DEF EntryInv, Quiet, LookupStep, CallGet, LookAtDriver, Gone
<1>3. /\ displaced' = displaced /\ displaced \subseteq Turn
      /\ \A i : Disturbed(i)' <=> Disturbed(i)
  <2>1. displaced' = displaced /\ displaced \subseteq Turn
    BY OthersDisplaceNone DEF IInv, DataTypes, PaneTypes
  <2>2. \A f \in Fiber \ {g} : holds'[f] = holds[f]
    BY DEF LookupStep, CallGet, LookAtDriver, IInv, DataTypes, CallTypes
  <2> QED BY <1>1, <2>1, <2>2, DisturbedSame
<1>8. \A f \in Fiber : BusyNames(image[f], image[f].inc)'
  <2>1. image' \in {image, [image EXCEPT ![g] = Called], [image EXCEPT ![g] = NoImage]}
    BY <1>1, LookupMoves, ImagesMove DEF IInv
  <2> QED BY <1>1, <1>3, <2>1, ImagesName
<1> USE DEF IInv, FiberInv, FiberTypes, DataTypes, MemoryTypes, CallTypes
<1>4. /\ UNCHANGED <<up, cur, active, diskRecord, diskSession, op, target>>
      /\ \A f \in Fiber \ {g} : pc'[f] = pc[f]
      /\ session' = session \/ \E i \in Incarnation : session' = [session EXCEPT ![i] =
                                  [status |-> "stopped", active |-> session[i].active]]
  <2>1. CASE CallGet(g)
    BY <1>1, <2>1 DEF CallGet, Goto, diskVars
  <2>2. CASE LookAtDriver(g)
    BY <1>1, <2>2 DEF LookAtDriver, PersistSession, Goto, diskVars, SetSession, SetStatus
  <2> QED BY <2>1, <2>2 DEF LookupStep
<1>5. \A i \in Incarnation : session'[i] = session[i] \/ session'[i].status = "stopped"
  BY <1>4
<1>6. /\ session'[cur'].status \in BusyStatus => active # None \/ Disturbed(cur')
      /\ \A i \in Incarnation : session'[i] = session[i] \/ session'[i].status \notin BusyStatus
  <2>1. "stopped" \notin BusyStatus
    BY DEF BusyStatus
  <2> QED BY <1>2, <1>4, <1>5, <2>1 DEF ServeInv
<1>7. \A c \in Control : Vacates(c)'
  <2> SUFFICES ASSUME NEW c \in Control PROVE Vacates(c)'
    OBVIOUS
  <2>1. c \in Fiber \ {g} /\ Vacates(c)
    BY <1>1 DEF ServeInv, Fiber
  <2> QED BY <1>3, <1>4, <1>5, <2>1, VacatesStays DEF BusyStatus
<1> QED BY <1>1, <1>2, <1>3, <1>4, <1>6, <1>7, <1>8, TakenSame, BystanderKeepsServe

(* Where a call goes when session.json is written. *)
LEMMA ServeTable ==
  ASSUME NEW w \in Writing
  PROVE  /\ w \in Reserving => AfterWrite[w] \in Reserving
         /\ AfterWrite[w] \in Reserving => w \in Reserving
         /\ AfterWrite[w] \in Ended => w \in Ended \cup {"refusing"}
<1>1. w \in {"accepted", "submitted", "bound"} => AfterWrite[w] \in {"staging", "exec", "watching"}
  BY Labels DEF AfterWrite
<1>2. w \notin {"accepted", "submitted", "bound"} =>
        AfterWrite[w] \in {"done", "finally", "intKey", "launching", "closeKey", "closePoll"}
  BY Labels DEF AfterWrite
<1>3. AfterWrite[w] \in {"done", "finally"} => w \in Ended \cup {"refusing"}
  BY Labels DEF AfterWrite, Ended
<1> QED BY <1>1, <1>2, <1>3, Labels DEF Reserving, Ended

LEMMA WriteKeepsServe ==
  ASSUME IInv, EntryInv, ServeInv, writeFaults' = 0, NEW f \in Fiber, WriteStep(f)
  PROVE  ServeInv'
<1> None \notin Unfinished /\ f \in Fiber
  BY NoneIsNoRecord DEF Recorded
<1>0. ~SessionWriteFails(f)
  BY DEF SessionWriteFails, Fault, IInv, DataTypes, CountTypes
<1>1. /\ up = "serving"
      /\ UNCHANGED <<up, cur, session, active, diskRecord, op, target, holds>>
      /\ image[f] # NoImage
  <2>1. Called # NoImage
    BY DEF Called, NoImage
  <2> QED BY <1>0, <2>1 DEF WriteStep, Serialize, SessionWritten, EntryInv, Quiet, memoryVars,
             diskVars
<1>2. \/ Serialize(f) /\ pc' = pc /\ diskSession' = diskSession
      \/ SessionWritten(f) /\ pc[f] \in Writing /\ pc' = [pc EXCEPT ![f] = AfterWrite[pc[f]]]
  BY <1>0, <1>1 DEF WriteStep, Serialize, SessionWritten, Goto, IInv, FiberInv, WritersWait,
     diskVars
<1>8. displaced' = displaced /\ \A i : Disturbed(i)' <=> Disturbed(i)
  BY <1>1, OthersDisplaceNone DEF Disturbed
<1>9. image \in [Fiber -> SessionFile \cup {NoImage, Called}] /\ holds[f] \in Incarnation
  BY DEF IInv, FiberInv, FiberTypes, DataTypes, CallTypes
<1>3. /\ BusyNames(diskSession, diskSession.inc)'
      /\ \A g \in Fiber : BusyNames(image[g], image[g].inc)'
  <2>1. \A g \in Fiber : image[g].status \in BusyStatus =>
                            image[g].active # None \/ Disturbed(image[g].inc)
    BY DEF ServeInv, BusyNames
  <2>2. CASE Serialize(f)
    <3>1. session[holds[f]].status \in BusyStatus =>
            session[holds[f]].active # None \/ Disturbed(holds[f])
      BY <1>9 DEF ServeInv, BusyNames
    <3>2. /\ image'[f] = [status |-> session[holds[f]].status, active |-> session[holds[f]].active,
                          inc |-> holds[f]]
          /\ \A g \in Fiber \ {f} : image'[g] = image[g]
          /\ diskSession' = diskSession
      BY <1>9, <2>2 DEF Serialize, diskVars
    <3>3. BusyNames(diskSession, diskSession.inc)'
      BY <1>8, <3>2 DEF ServeInv, BusyNames
    <3>4. \A g \in Fiber : BusyNames(image[g], image[g].inc)'
      BY <1>8, <2>1, <3>1, <3>2 DEF BusyNames
    <3> QED BY <3>3, <3>4
  <2>3. CASE SessionWritten(f)
    <3>1. /\ diskSession' = image[f] /\ image'[f] = NoImage
          /\ \A g \in Fiber \ {f} : image'[g] = image[g]
      BY <1>9, <2>3 DEF SessionWritten
    <3>2. NoImage.status \notin BusyStatus
      BY DEF NoImage, BusyStatus
    <3> QED BY <1>8, <2>1, <3>1, <3>2 DEF BusyNames
  <2> QED BY <1>2, <2>2, <2>3
<1>4. \A g \in Fiber : \/ pc'[g] = pc[g]
                       \/ pc[g] \in Writing /\ pc'[g] = AfterWrite[pc[g]]
  BY <1>2 DEF IInv, FiberInv, FiberTypes
<1>5. active # None => pc'[active] \in Reserving
  <2>1. active # None => active \in Fiber /\ pc[active] \in Reserving
    BY DEF ServeInv, IInv, DataTypes, MemoryTypes, Fiber
  <2> QED BY <1>4, <2>1, ServeTable
<1>6. \A s \in Turn : Serves(s)'
  <2> SUFFICES ASSUME NEW s \in Turn PROVE Serves(s)'
    OBVIOUS
  <2>1. Serves(s) /\ TurnBase(s) /\ s \in Fiber /\ (TakenByClose(s)' <=> TakenByClose(s))
    BY <1>1, TakenSame DEF ServeInv, EntryInv, Fiber
  <2>2. /\ pc'[s] \in Reserving => pc[s] \in Reserving
        /\ pc'[s] \in Ended => pc[s] \in Ended \cup {"refusing"}
    BY <1>4, <2>1, ServeTable
  <2> QED BY <1>1, <1>8, <2>1, <2>2 DEF Serves, TurnBase, Untaken
<1>7. \A c \in Control : Vacates(c)'
  <2> SUFFICES ASSUME NEW c \in Control PROVE Vacates(c)'
    OBVIOUS
  <2>1. c \in Fiber /\ Vacates(c)
    BY DEF ServeInv, Fiber
  <2>2. /\ pc'[c] \in Running => pc[c] \in Running
        /\ pc'[c] \in Launching => pc[c] \in Launching
    BY <1>4, <2>1, NextLabels, LaunchTable
  <2> QED BY <1>1, <1>8, <2>1, <2>2 DEF Vacates
<1>10. \A s \in displaced' : pc'[s] \notin {"idle", "queued"}
  <2> SUFFICES ASSUME NEW s \in displaced PROVE pc'[s] \notin {"idle", "queued"}
    BY <1>8
  <2>1. s \in Fiber /\ pc[s] \notin {"idle", "queued"}
    BY DEF ServeInv, IInv, DataTypes, PaneTypes, Fiber
  <2> QED BY <1>4, <2>1, AfterTable
<1>11. \A i \in Incarnation : BusyNames(session[i], i)'
  BY <1>1, <1>8 DEF ServeInv, BusyNames
<1> QED BY <1>1, <1>3, <1>5, <1>6, <1>7, <1>8, <1>10, <1>11 DEF ServeInv

-----------------------------------------------------------------------------
(* What a control call makes of the current session. *)
LEMMA LeavesServe ==
  ASSUME IInv, EntryInv, ServeInv, NEW c \in Control, Leaves(c), up = "serving"
  PROVE  /\ \/ session' = session
            \/ pc[c] \in Running /\ \E object \in SessionObject :
                 /\ session' = [session EXCEPT ![cur] = object]
                 /\ object.status \in BusyStatus =>
                      (active # None /\ object.active = session[cur].active) \/ Disturbed(cur)
         /\ Vacates(c)' /\ diskSession' = diskSession
         /\ displaced' = displaced /\ \A i : Disturbed(i)' <=> Disturbed(i)
<1> c \in Fiber \ Turn /\ ControlBase(c) /\ Vacates(c) /\ cur \in Incarnation
    /\ session[cur] \in SessionObject /\ op[c] \in [kind : Kind, prev : BusyStatus \cup IdleStatus]
  BY FibersAreDistinct DEF Fiber, EntryInv, ServeInv, IInv, DataTypes, MemoryTypes, CallTypes
<1>0. displaced' = displaced /\ \A i : Disturbed(i)' <=> Disturbed(i)
  <2>1. displaced' = displaced /\ displaced \subseteq Turn
    BY OthersDisplaceNone DEF Leaves, ControlStep, IInv, DataTypes, PaneTypes
  <2> QED BY <2>1, LeavesMemory, DisturbedSame
<1>00. Disturbed(cur)' <=> Disturbed(cur)
  BY <1>0, LeavesMemory DEF Disturbed
<1> USE <1>0, <1>00 DEF IInv, FiberInv, FiberTypes, DataTypes, CallTypes, MemoryTypes, diskVars, Goto,
        PersistSession, SetSession,
        SetStatus, ControlBase, Vacates, Launching, BusyStatus, IdleStatus, SessionObject
<1> "queued" \notin Running
  BY DEF Running
<1>1. CASE CallControl(c)
  BY <1>1 DEF CallControl, JoinChain, Running
<1>2. CASE BeginControl(c) /\ cur' = cur
  <2>1. /\ UNCHANGED <<op, session, diskSession>>
        /\ \/ Goto(c, "done")
           \/ ~Refused(c) /\ Goto(c, "checking")
    BY <1>2, BoundsAreNaturals DEF BeginControl, Incarnation
  <2>2. CASE Goto(c, "done")
    BY <2>1, <2>2 DEF Running, LockedAwait
  <2>3. CASE ~Refused(c) /\ Goto(c, "checking")
    BY <1>2, <2>1, <2>3 DEF Refused, Busy
  <2> QED BY <2>1, <2>2, <2>3
<1>3. CASE CheckAttached(c)
  BY <1>3 DEF CheckAttached, MarkInterrupted, Running, LockedAwait
<1>4. CASE LaunchChecks(c)
  BY <1>4 DEF LaunchChecks, Running, LockedAwait
<1>5. CASE Respawn(c)
  BY <1>5 DEF Respawn, Running, LockedAwait
<1>6. CASE DriverStarts(c)
  <2>1. PICK status \in {"ready", "auth_required", "attention_required", "failed"} :
          session' = [session EXCEPT ![cur] = [status |-> status, active |-> session[cur].active]]
    BY <1>6 DEF DriverStarts, Running, LockedAwait
  <2>2. [status |-> status, active |-> session[cur].active] \in SessionObject
    OBVIOUS
  <2>3. /\ pc[c] = "booting" /\ pc'[c] \in {"launched", "restoring"}
        /\ UNCHANGED <<op, diskSession, cur>>
    BY <1>6 DEF DriverStarts
  <2> QED BY <2>1, <2>2, <2>3 DEF Running, LockedAwait
<1>7. CASE RestorePrevious(c)
  BY <1>7 DEF RestorePrevious, Running, LockedAwait
<1>8. CASE AwaitTurnEnd(c)
  BY <1>8 DEF AwaitTurnEnd, Running, LockedAwait
<1>9. CASE RecheckAttached(c)
  BY <1>9 DEF RecheckAttached, Running, LockedAwait
<1>10. CASE KillPane(c)
  BY <1>10 DEF KillPane, Running, LockedAwait
<1>11. CASE AfterKill(c)
  BY <1>11 DEF AfterKill, Running, LockedAwait
<1>12. CASE SendEscape(c)
  BY <1>12, FibersAreDistinct DEF SendEscape, Running, LockedAwait
<1> QED BY <1>1, <1>2, <1>3, <1>4, <1>5, <1>6, <1>7, <1>8, <1>9, <1>10, <1>11, <1>12
        DEF Leaves

LEMMA ControlImages ==
  ASSUME IInv, NEW c \in Control, ControlStep(c) \/ SendEscape(c)
  PROVE  image' \in {image, [image EXCEPT ![c] = Called], [image EXCEPT ![c] = NoImage]}
<1>1. CASE CallControl(c)
  BY <1>1 DEF CallControl
<1>2. CASE ~CallControl(c)
  <2>1. Moves(c)
    BY <1>2, ControlMoves, InterruptMoves DEF ControlStep, IInv
  <2> QED BY <2>1, ImagesMove DEF Fiber
<1> QED BY <1>1, <1>2

LEMMA LeavesKeepServe ==
  ASSUME IInv, EntryInv, ServeInv, NEW c \in Control, Leaves(c), up = "serving"
  PROVE  ServeInv'
<1>1. c \in Fiber \ Turn
  BY FibersAreDistinct DEF Fiber
<1>2. /\ \A s \in Turn : TakenByClose(s) => TakenByClose(s)'
      /\ active \in Turn \cup {None}
  <2>1. target[c] \in {None, active} \/ target'[c] = target[c]
    BY LeavesTarget DEF EntryInv
  <2>2. \A s \in Turn : s # None
    BY FibersAreDistinct DEF Fiber
  <2> QED BY <2>1, <2>2, LeavesMemory DEF TakenByClose, IInv, DataTypes, MemoryTypes
<1>4. /\ UNCHANGED <<up, cur, active, diskRecord, diskSession, displaced>>
      /\ \A g \in Fiber \ {c} : pc'[g] = pc[g]
      /\ \A i : Disturbed(i)' <=> Disturbed(i)
  BY LeavesMemory, LeavesServe
<1>3. \A g \in Fiber : BusyNames(image[g], image[g].inc)'
  <2>1. image' \in {image, [image EXCEPT ![c] = Called], [image EXCEPT ![c] = NoImage]}
    BY ControlImages DEF Leaves, ControlStep
  <2> QED BY <1>1, <1>4, <2>1, ImagesName
<1>5. /\ session'[cur'].status \in BusyStatus => active # None \/ Disturbed(cur')
      /\ \A i \in Incarnation : session'[i] = session[i] \/ session'[i].status \notin BusyStatus
                                \/ session'[i].active # None \/ Disturbed(i)
  <2>1. CASE session' = session
    BY <1>4, <2>1 DEF ServeInv
  <2>2. CASE session' # session
    <3>1. PICK object \in SessionObject :
            /\ session' = [session EXCEPT ![cur] = object]
            /\ object.status \in BusyStatus =>
                 (active # None /\ object.active = session[cur].active) \/ Disturbed(cur)
      BY <2>2, LeavesServe
    <3>2. object.status \in BusyStatus => object.active # None \/ Disturbed(cur)
      BY <3>1 DEF EntryInv, Entry
    <3>3. session \in [Incarnation -> SessionObject] /\ cur \in Incarnation
      BY DEF IInv, DataTypes, MemoryTypes
    <3> QED BY <1>4, <3>1, <3>2, <3>3
  <2> QED BY <2>1, <2>2
<1>7. displaced \subseteq Turn
  BY DEF IInv, DataTypes, PaneTypes
<1>6. \A d \in Control : Vacates(d)'
  <2> SUFFICES ASSUME NEW d \in Control, d # c PROVE Vacates(d)'
    BY LeavesServe
  <2>1. d \in Fiber \ {c} /\ Vacates(d)
    BY DEF Fiber, ServeInv
  <2>2. pc[d] \in Running => session' = session
    BY <1>1, <2>1, LeavesServe, OneRuns
  <2> QED BY <1>4, <2>1, <2>2, LeavesMemory, VacatesStays
<1> QED BY <1>1, <1>2, <1>3, <1>4, <1>5, <1>6, <1>7, BystanderKeepsServe

LEMMA CreatesKeepServe ==
  ASSUME IInv, EntryInv, ServeInv, NEW c \in Control, BeginControl(c), cur' # cur
  PROVE  ServeInv'
<1> c \in Fiber \ Turn /\ cur \in Incarnation /\ cur' \in Incarnation
    /\ session \in [Incarnation -> SessionObject] /\ pc \in [Fiber -> Await]
  BY FibersAreDistinct, BoundsAreNaturals
     DEF Fiber, IInv, DataTypes, MemoryTypes, FiberInv, FiberTypes, BeginControl, Incarnation
<1>1. /\ pc[c] = "queued" /\ HoldsChain(c) /\ op[c].kind = "create" /\ session[cur].status = "closed"
      /\ session' = [session EXCEPT ![cur'] = [status |-> "starting", active |-> None]]
      /\ UNCHANGED <<up, active, diskRecord, diskSession, op, target>>
      /\ \A g \in Fiber \ {c} : pc'[g] = pc[g]
  BY DEF BeginControl, Refused, diskVars, PersistSession, Goto, SetSession
<1>2. up = "serving" /\ active \in Turn \cup {None}
  BY <1>1 DEF EntryInv, Quiet, Gone, IInv, DataTypes, MemoryTypes
<1>6. /\ displaced' = displaced /\ displaced \subseteq Turn
      /\ \A i : Disturbed(i)' <=> Disturbed(i)
  <2>1. displaced' = displaced /\ displaced \subseteq Turn
    BY OthersDisplaceNone DEF ControlStep, IInv, DataTypes, PaneTypes
  <2>2. \A g \in Fiber \ {c} : holds'[g] = holds[g]
    BY DEF BeginControl, IInv, DataTypes, CallTypes
  <2> QED BY <2>1, <2>2, DisturbedSame
<1>3. \A g \in Fiber : BusyNames(image[g], image[g].inc)'
  <2>1. image' \in {image, [image EXCEPT ![c] = Called], [image EXCEPT ![c] = NoImage]}
    BY ControlImages DEF ControlStep
  <2> QED BY <1>6, <2>1, ImagesName
<1>4. /\ session'[cur'].status \notin BusyStatus
      /\ \A i \in Incarnation : session'[i] = session[i] \/ session'[i].status \notin BusyStatus
  BY <1>1 DEF BusyStatus
<1>5. \A d \in Control : Vacates(d)'
  <2> SUFFICES ASSUME NEW d \in Control PROVE Vacates(d)'
    OBVIOUS
  <2>1. pc[d] \notin Running \/ d = c
    BY <1>1 DEF IInv, FiberInv, HeadRuns, HoldsChain, Fiber, Running
  <2>2. op'[d] = op[d] /\ (d = c \/ pc'[d] = pc[d])
    BY <1>1 DEF Fiber
  <2> QED BY <1>1, <2>1, <2>2, LaunchingRuns DEF Vacates
<1> QED BY <1>1, <1>2, <1>3, <1>4, <1>5, <1>6, TakenSame, BystanderKeepsServe

LEMMA ClosesKeepServe ==
  ASSUME IInv, EntryInv, ServeInv, writeFaults' = 0, up = "serving", NEW c \in Control,
         CloseFinishesTurn(c) \/ CloseRecordsTurn(c)
  PROVE  ServeInv'
<1> c \in Fiber \ Turn /\ ControlBase(c) /\ cur \in Incarnation
    /\ session \in [Incarnation -> SessionObject] /\ pc \in [Fiber -> Await]
    /\ active \in Turn \cup {None} /\ holds[c] \in Incarnation
  BY FibersAreDistinct DEF Fiber, EntryInv, IInv, DataTypes, MemoryTypes, CallTypes, FiberInv,
     FiberTypes
<1>4. /\ displaced' = displaced /\ displaced \subseteq Turn
      /\ \A i : Disturbed(i)' <=> Disturbed(i)
  <2>1. displaced' = displaced /\ displaced \subseteq Turn
    BY OthersDisplaceNone DEF ControlStep, IInv, DataTypes, PaneTypes
  <2>2. holds' = holds
    BY DEF CloseFinishesTurn, CloseRecordsTurn
  <2> QED BY <2>1, <2>2, DisturbedSame
<1>1. \A g \in Fiber : BusyNames(image[g], image[g].inc)'
  <2>1. image' \in {image, [image EXCEPT ![c] = Called], [image EXCEPT ![c] = NoImage]}
    BY ControlImages DEF ControlStep
  <2> QED BY <1>4, <2>1, ImagesName
<1>2. CASE CloseFinishesTurn(c)
  <2>1. /\ UNCHANGED <<up, cur, session, active, diskRecord, diskSession, op, target>>
        /\ \A g \in Fiber \ {c} : pc'[g] = pc[g]
        /\ pc[c] = "closeTurn" /\ pc'[c] = "closeRec"
    BY <1>2 DEF CloseFinishesTurn, Goto
  <2>2. \A d \in Control : Vacates(d)'
    <3> SUFFICES ASSUME NEW d \in Control PROVE Vacates(d)'
      OBVIOUS
    <3>1. /\ pc'[d] \in Running => pc[d] \in Running
          /\ pc'[d] \in Launching => pc[d] \in Launching
      BY <2>1 DEF Running, LockedAwait, Launching, Fiber
    <3>2. Disturbed(cur) => Disturbed(cur)'
      BY <1>4, <2>1 DEF Disturbed
    <3> QED BY <2>1, <3>1, <3>2 DEF ServeInv, Vacates
  <2>3. session'[cur'].status \in BusyStatus => active # None \/ Disturbed(cur')
    BY <2>1 DEF ServeInv
  <2>4. session' = session
    BY <2>1
  <2> QED BY <1>1, <1>4, <2>1, <2>2, <2>3, <2>4, TakenSame, BystanderKeepsServe
<1>3. CASE CloseRecordsTurn(c)
  <2>1. /\ UNCHANGED <<up, cur, diskSession, op, target>> /\ active' = None
        /\ session' = [session EXCEPT ![cur] = [status |-> "closed", active |-> None]]
        /\ \A g \in Fiber \ {c} : pc'[g] = pc[g]
        /\ \A s \in Turn : s # target[c] => diskRecord'[s] = diskRecord[s]
        /\ pc[c] = "closeRec" /\ pc'[c] \in {"ctlWriting", "done"}
        /\ target[c] \in Turn /\ active \in {target[c], None}
    BY <1>3 DEF CloseRecordsTurn, RecordWritten, RecordFails, Fault, SetSession,
       PersistSession, Goto,
       ControlBase, Running, LockedAwait, IInv, DataTypes, DiskTypes, CountTypes
  <2>2. /\ session'[cur'].status \notin BusyStatus
        /\ \A i \in Incarnation : BusyNames(session[i], i)'
    <3>1. \A i \in Incarnation : session[i].status \in BusyStatus =>
                                    session[i].active # None \/ Disturbed(i)
      BY DEF ServeInv, BusyNames
    <3>2. session'[cur].status \notin BusyStatus /\ \A i \in Incarnation \ {cur} : session'[i] = session[i]
      BY <2>1 DEF BusyStatus
    <3> QED BY <1>4, <2>1, <3>1, <3>2 DEF BusyNames
  <2>5. BusyNames(diskSession, diskSession.inc)'
    BY <1>4, <2>1 DEF ServeInv, BusyNames
  <2>6. \A s \in displaced' : pc'[s] \notin {"idle", "queued"}
    BY <1>4, <2>1 DEF ServeInv, Fiber
  <2>3. \A s \in Turn : Serves(s)'
    <3> SUFFICES ASSUME NEW s \in Turn PROVE Serves(s)'
      OBVIOUS
    <3>1. Serves(s) /\ (TakenByClose(s)' <=> TakenByClose(s)) /\ pc'[s] = pc[s] /\ s # None
      BY <2>1, TakenSame, FibersAreDistinct DEF ServeInv, Fiber
    <3>2. s = target[c] => TakenByClose(s)
      BY DEF TakenByClose
    <3> QED BY <1>4, <2>1, <3>1, <3>2 DEF Serves
  <2>4. \A d \in Control : Vacates(d)'
    <3> SUFFICES ASSUME NEW d \in Control PROVE Vacates(d)'
      OBVIOUS
    <3>1. pc'[d] \in Launching => pc[d] \in Launching
      BY <2>1 DEF Launching, Fiber
    <3>2. Disturbed(cur) => Disturbed(cur)'
      BY <1>4, <2>1 DEF Disturbed
    <3> QED BY <2>1, <2>2, <3>1, <3>2 DEF ServeInv, Vacates
  <2> QED BY <1>1, <2>1, <2>2, <2>3, <2>4, <2>5, <2>6 DEF ServeInv
<1> QED BY <1>2, <1>3

LEMMA ControlKeepsServe ==
  ASSUME IInv, EntryInv, ServeInv, writeFaults' = 0, NEW c \in Control,
         ControlStep(c) \/ SendEscape(c)
  PROVE  ServeInv'
<1>1. up = "serving"
  BY ControlIsAwake DEF EntryInv
<1> QED BY <1>1, CreatesKeepServe, LeavesKeepServe, ClosesKeepServe DEF ControlStep, Leaves

-----------------------------------------------------------------------------
LEMMA CrashKeepsServe ==
  ASSUME IInv, ServeInv, Crash
  PROVE  ServeInv'
<1>1. UNCHANGED <<session, op, target, diskRecord, diskSession, cur>> /\ active' = None /\ up' = "down"
  BY DEF Crash, diskVars
<1>2. \A f \in Fiber : /\ pc'[f] = pc[f] \/ pc'[f] \in {"lost", "cut"}
                       /\ pc'[f] \in Gone /\ image'[f] = NoImage
  BY DEF Crash, Gone
<1>6. UNCHANGED <<displaced, holds>> /\ (\A i : Disturbed(i)' <=> Disturbed(i))
  <2>1. UNCHANGED <<displaced, holds>>
    BY DEF Crash, marks
  <2> QED BY <2>1 DEF Disturbed
<1>3. \A s \in Turn : Serves(s)'
  BY <1>1, <1>2, <1>6, TakenSame DEF ServeInv, Serves, Reserving, Ended, Gone, Fiber
<1>4. \A c \in Control : Vacates(c)'
  BY <1>2 DEF Vacates, Running, LockedAwait, Launching, Gone, Fiber
<1>5. \A f \in Fiber : BusyNames(image[f], image[f].inc)'
  BY <1>2 DEF BusyNames, NoImage, BusyStatus
<1>7. /\ \A i \in Incarnation : BusyNames(session[i], i)'
      /\ BusyNames(diskSession, diskSession.inc)'
  BY <1>1, <1>6 DEF ServeInv, BusyNames
<1>8. \A s \in displaced' : pc'[s] \notin {"idle", "queued"}
  BY <1>2, <1>6 DEF ServeInv, IInv, DataTypes, PaneTypes, Fiber
<1> QED BY <1>1, <1>3, <1>4, <1>5, <1>7, <1>8 DEF ServeInv

LEMMA PaneKeepsServe ==
  ASSUME ServeInv, (\E i \in Incarnation : PaneStep(i)) \/ UNCHANGED vars
  PROVE  ServeInv'
<1>1. UNCHANGED <<up, cur, session, active, pc, op, target, image, diskRecord, diskSession,
                  displaced, holds>>
  BY DEF PaneStep, DriverDies, AgentFinishes, Attach, Detach, unchangedByTmux, memoryVars,
     fiberVars, diskVars, marks, vars
<1> QED BY <1>1, TakenSame DEF ServeInv, Serves, Vacates, BusyNames, Disturbed

LEMMA BootKeepsServe ==
  ASSUME IInv, EntryInv, ServeInv, BootStep
  PROVE  ServeInv'
<1> USE DEF IInv, DataTypes, MemoryTypes, DiskTypes, SessionFile
<1>1. /\ active = None /\ active' = None /\ UNCHANGED fiberVars
      /\ \A f \in Fiber : pc[f] \in Gone
  BY DEF EntryInv, Quiet, BootStep, Boot, BootFinishesTurn, BootRecordsTurn, BootSavesSession,
     Reconcile, Serve, unchangedByTmux, memoryVars
<1>7. UNCHANGED <<displaced, holds>> /\ (\A i : Disturbed(i)' <=> Disturbed(i))
  <2>1. UNCHANGED <<displaced, holds>>
    BY <1>1, OthersDisplaceNone DEF fiberVars
  <2> QED BY <2>1 DEF Disturbed
<1>2. /\ \A i \in Incarnation : session'[i].status \in BusyStatus =>
                                session'[i].active # None \/ Disturbed(i)
      /\ diskSession'.status \in BusyStatus =>
           diskSession'.active # None \/ Disturbed(diskSession'.inc)
      /\ up' \in {"reconciling", "serving"} =>
           session'[cur'].status \notin BusyStatus \/ Disturbed(cur')
  <2>0. /\ \A i \in Incarnation : session[i].status \in BusyStatus =>
                                  session[i].active # None \/ Disturbed(i)
        /\ diskSession.status \in BusyStatus =>
             diskSession.active # None \/ Disturbed(diskSession.inc)
        /\ up = "reconciling" => session[cur].status \notin BusyStatus \/ Disturbed(cur)
    BY DEF ServeInv, BusyNames
  <2>1. CASE Boot
    <3>1. /\ cur' = diskSession.inc /\ diskSession' = diskSession /\ cur' \in Incarnation
          /\ session' = [session EXCEPT ![cur'] =
                           [status |-> diskSession.status, active |-> diskSession.active]]
          /\ up' \in {"reconciling", "serving"} => diskSession.active = None
      BY <2>1 DEF Boot, diskVars
    <3>2. session'[cur'].status = diskSession.status /\ session'[cur'].active = diskSession.active
      BY <3>1
    <3>3. \A i \in Incarnation \ {cur'} : session'[i] = session[i]
      BY <3>1
    <3> QED BY <2>0, <3>1, <3>2, <3>3
  <2>2. CASE BootSavesSession
    <3>1. /\ session'[cur].status \in {"ready", "attention_required"} /\ cur' = cur
          /\ diskSession'.status = session'[cur].status
          /\ \A i \in Incarnation \ {cur} : session'[i] = session[i]
      BY <2>2 DEF BootSavesSession, SetSession
    <3>2. session'[cur].status \notin BusyStatus
      BY <3>1 DEF BusyStatus
    <3> QED BY <2>0, <3>1, <3>2
  <2>3. CASE BootFinishesTurn \/ BootRecordsTurn
    <3>1. UNCHANGED <<session, cur, diskSession>> /\ up' \in {"bootRecord", "bootSession"}
      BY <2>3 DEF BootFinishesTurn, BootRecordsTurn
    <3> QED BY <2>0, <3>1
  <2>4. CASE Serve \/ \E i \in Incarnation : Reconcile(i)
    <3>1. UNCHANGED <<session, cur, diskSession>> /\ up = "reconciling"
      BY <2>4 DEF Serve, Reconcile, diskVars, unchangedByTmux, memoryVars
    <3> QED BY <2>0, <3>1
  <2> QED BY <2>1, <2>2, <2>3, <2>4 DEF BootStep
<1>8. /\ \A i \in Incarnation : BusyNames(session[i], i)'
      /\ BusyNames(diskSession, diskSession.inc)'
  BY <1>2, <1>7 DEF BusyNames
<1>9. up' \in {"reconciling", "serving"} =>
        (session[cur].status \notin BusyStatus \/ Disturbed(cur))'
  <2>1. Disturbed(cur') => Disturbed(cur)'
    BY <1>7 DEF Disturbed
  <2> QED BY <1>2, <2>1
<1>3. \A s \in Turn : diskRecord'[s] = diskRecord[s] \/ diskRecord[s] \in Unfinished
  <2>1. CASE BootRecordsTurn
    BY <2>1 DEF BootRecordsTurn, RecordWritten, EntryInv, BootNames, Named
  <2>2. CASE ~BootRecordsTurn
    BY <2>2 DEF BootStep, Boot, BootFinishesTurn, BootSavesSession, Reconcile, Serve,
       unchangedByTmux, diskVars
  <2> QED BY <2>1, <2>2
<1>4. UNCHANGED <<pc, op, target, image>>
  BY <1>1 DEF fiberVars
<1>5. \A s \in Turn : Serves(s)'
  <2>1. \A s \in Turn : pc[s] \notin Reserving
    BY <1>1 DEF Fiber, Gone, Reserving
  <2> QED BY <1>3, <1>4, <1>7, <2>1, TakenSame DEF ServeInv, Serves
<1>6. \A c \in Control : Vacates(c)'
  <2>1. \A c \in Control : pc[c] \notin Running \cup Launching
    BY <1>1 DEF Fiber, Gone, Running, LockedAwait, Launching
  <2> QED BY <1>4, <2>1 DEF Vacates
<1>10. \A f \in Fiber : BusyNames(image[f], image[f].inc)'
  BY <1>4, <1>7 DEF ServeInv, BusyNames
<1>11. \A s \in displaced' : pc'[s] \notin {"idle", "queued"}
  BY <1>4, <1>7 DEF ServeInv
<1> QED BY <1>1, <1>4, <1>5, <1>6, <1>8, <1>9, <1>10, <1>11 DEF ServeInv

LEMMA InitServe == Init => ServeInv
<1> SUFFICES ASSUME Init PROVE ServeInv
  OBVIOUS
<1>1. active = None /\ cur \in Incarnation /\ session[cur].status = "ready"
  BY BoundsAreNaturals DEF Init, Incarnation
<1>2. /\ \A i \in Incarnation : BusyNames(session[i], i)
      /\ BusyNames(diskSession, diskSession.inc)
      /\ \A f \in Fiber : BusyNames(image[f], image[f].inc)
  BY DEF Init, BusyNames, NoImage, BusyStatus
<1>3. \A s \in Turn : Serves(s)
  BY DEF Init, Serves, Reserving, Ended, Fiber
<1>4. \A c \in Control : Vacates(c)
  BY DEF Init, Vacates, Running, LockedAwait, Launching, Fiber
<1> QED BY <1>1, <1>2, <1>3, <1>4 DEF ServeInv, BusyStatus, Init

LEMMA StepServe ==
  ASSUME IInv, EntryInv, OrderInv, writeFaults = 0 => ServeInv, [Next]_vars
  PROVE  (writeFaults = 0 => ServeInv)'
<1> SUFFICES ASSUME writeFaults' = 0 PROVE ServeInv'
  OBVIOUS
<1>1. CASE UNCHANGED vars
  <2>1. ServeInv
    BY <1>1 DEF vars, faultVars
  <2> QED BY <1>1, <2>1, PaneKeepsServe
<1>2. CASE Next
  <2>1. ServeInv
    BY <1>2, FaultsStay DEF IInv, DataTypes, CountTypes
  <2> QED BY <1>2, <2>1, TurnKeepsServe, InterruptKeepsServe, ControlKeepsServe,
             LookupKeepsServe,
             WriteKeepsServe, PaneKeepsServe, CrashKeepsServe, BootKeepsServe DEF Next
<1> QED BY <1>1, <1>2

LEMMA OrderHolds ==
  Spec => [](IInv /\ EntryInv /\ OrderInv /\ (writeFaults = 0 => ServeInv))
BY InitInv, StepInv, InitEntry, StepEntry, InitOrder, StepOrder, InitServe, StepServe,
   PTL DEF Spec

(* While no write has failed: when no turn is under way the session takes a      *)
(* submission, a restart or a release again, whatever turns, closes, interrupts, *)
(* lookups and lost processes came between.  What strands it is a turn that went *)
(* on without the entry that the end of an earlier turn had deleted (1019).      *)
THEOREM SessionsAreNotStranded == Spec => [](writeFaults = 0 => NoStrandedSession)
<1>1. IInv /\ (writeFaults = 0 => ServeInv) => (writeFaults = 0 => NoStrandedSession)
  <2> SUFFICES ASSUME IInv, ServeInv, \A s \in Turn : pc[s] \in Gone, up = "serving", Busy(cur)
               PROVE  Disturbed(cur)
    BY DEF NoStrandedSession
  <2>1. active = None
    BY DEF IInv, DataTypes, MemoryTypes, ServeInv, Gone, Reserving
  <2> QED BY <2>1 DEF ServeInv, Busy
<1> QED BY <1>1, OrderHolds, PTL

(* While no write has failed: a turn does not return before its record is        *)
(* finished, whichever of its five ends it comes to, unless a close has taken it *)
(* or the end of an earlier turn has deleted its entry.                          *)
THEOREM EndsAreRecorded == Spec => [](writeFaults = 0 => ServedTurnsHaveAVerdict)
<1>1. (writeFaults = 0 => ServeInv) => (writeFaults = 0 => ServedTurnsHaveAVerdict)
  BY DEF ServeInv, Serves, Ended, ServedTurnsHaveAVerdict
<1> QED BY <1>1, OrderHolds, PTL

-----------------------------------------------------------------------------
(***************************************************************************)
(* A turn is named, in memory, in session.json and in what may yet be      *)
(* written there, only by the session object it was admitted to.           *)
(***************************************************************************)
Begun(s, i) == holds[s] = i /\ pc[s] \notin Waiting

NamedByOne(s) ==
  /\ \A i \in Incarnation : session[i].active = s => Begun(s, i)
  /\ \A f \in Fiber : image[f].active = s => Begun(s, image[f].inc)
  /\ diskSession.active = s => Begun(s, diskSession.inc)

SoleInv == \A s \in Turn : NamedByOne(s)

LEMMA SoleStays ==
  ASSUME NEW s \in Turn, NamedByOne(s), s # None,
         pc'[s] \in Waiting => pc[s] \in Waiting,
         holds'[s] = holds[s] \/ pc[s] \in Waiting,
         diskSession' = diskSession,
         \A i \in Incarnation : \/ session'[i].active \in {session[i].active, None}
                                \/ session'[i].active = s => Begun(s, i)',
         \A f \in Fiber : image'[f] \in {image[f], Called, NoImage}
  PROVE  NamedByOne(s)'
<1>1. \A i : Begun(s, i) => Begun(s, i)'
  BY DEF Begun
<1>2. \A i \in Incarnation : session'[i].active = s => Begun(s, i)'
  BY <1>1 DEF NamedByOne
<1>3. \A f \in Fiber : (image[f].active = s => Begun(s, image[f].inc))'
  <2> SUFFICES ASSUME NEW f \in Fiber, image'[f].active = s PROVE Begun(s, image[f].inc)'
    OBVIOUS
  <2>1. image'[f] = image[f]
    BY DEF Called, NoImage
  <2>2. Begun(s, image[f].inc)
    BY <2>1 DEF NamedByOne
  <2> QED BY <2>1, <2>2 DEF Begun
<1>4. (diskSession.active = s => Begun(s, diskSession.inc))'
  BY <1>1 DEF NamedByOne, Begun
<1> QED BY <1>2, <1>3, <1>4 DEF NamedByOne, Begun

LEMMA TurnKeepsSole ==
  ASSUME IInv, EntryInv, SoleInv, NEW t \in Turn, TurnStep(t)
  PROVE  SoleInv'
<1> SUFFICES ASSUME NEW s \in Turn PROVE NamedByOne(s)'
  BY DEF SoleInv
<1> s \in Fiber /\ t \in Fiber /\ s # None /\ NamedByOne(s)
  BY FibersAreDistinct DEF Fiber, SoleInv
<1>1. Owns(t) /\ Alone(t)
  BY TurnOwns DEF EntryInv, Owns
<1>2. /\ pc'[s] \in Waiting => pc[s] \in Waiting
      /\ holds'[s] = holds[s] \/ pc[s] \in Waiting
  <2>1. holds \in [Fiber -> Incarnation]
    BY DEF IInv, DataTypes, CallTypes
  <2> QED BY <1>1, <2>1 DEF Owns, Alone, Waiting
<1>3. \A f \in Fiber : image'[f] \in {image[f], Called, NoImage}
  BY TurnImages DEF IInv, FiberInv, FiberTypes
<1>4. \A i \in Incarnation : \/ session'[i].active \in {session[i].active, None}
                             \/ session'[i].active = s => Begun(s, i)'
  <2>1. CASE pc[t] # "probing"
    BY <1>1, <2>1 DEF Owns
  <2>2. CASE pc[t] = "probing"
    <3>1. ProbeDriver(t) /\ holds' = holds
      BY <1>1, <2>2, ProbesOnly DEF Owns
    <3>2. pc'[t] = "accepting" \/ session' = session
          \/ session' = [session EXCEPT ![holds[t]] = [status |-> "stopped", active |-> @.active]]
      BY <3>1 DEF ProbeDriver, Goto, SetSession, IInv, FiberInv, FiberTypes
    <3>3. CASE pc'[t] = "accepting"
      <4>1. session' = [session EXCEPT ![holds[t]] = [status |-> "preparing", active |-> t]]
        BY <3>1, <3>3
           DEF ProbeDriver, PersistSession, Goto, SetSession, IInv, FiberInv, FiberTypes
      <4>2. \A i \in Incarnation : session'[i].active = session[i].active
                                   \/ (i = holds[t] /\ session'[i].active = t)
        BY <4>1 DEF IInv, DataTypes, MemoryTypes
      <4> QED BY <3>1, <3>3, <4>2 DEF Begun, Waiting
    <3>4. CASE session' = session
               \/ session' = [session EXCEPT ![holds[t]] = [status |-> "stopped", active |-> @.active]]
      BY <3>4 DEF IInv, DataTypes, MemoryTypes
    <3> QED BY <3>2, <3>3, <3>4
  <2> QED BY <2>1, <2>2
<1>5. diskSession' = diskSession
  BY <1>1 DEF Owns
<1> QED BY <1>2, <1>3, <1>4, <1>5, SoleStays

(* A call that is no turn gives no session object a turn. *)
LEMMA BystanderKeepsSole ==
  ASSUME IInv, SoleInv, NEW f \in Fiber \ Turn, diskSession' = diskSession,
         \A g \in Fiber \ {f} : pc'[g] = pc[g] /\ holds'[g] = holds[g],
         \A i \in Incarnation : session'[i].active \in {session[i].active, None},
         image' \in {image, [image EXCEPT ![f] = Called], [image EXCEPT ![f] = NoImage]}
  PROVE  SoleInv'
<1> SUFFICES ASSUME NEW s \in Turn PROVE NamedByOne(s)'
  BY DEF SoleInv
<1>1. s \in Fiber \ {f} /\ s # None /\ NamedByOne(s)
  BY FibersAreDistinct DEF Fiber, SoleInv
<1>2. \A g \in Fiber : image'[g] \in {image[g], Called, NoImage}
  BY DEF IInv, FiberInv, FiberTypes
<1> QED BY <1>1, <1>2, SoleStays

LEMMA CallsKeepSole ==
  ASSUME IInv, SoleInv, NEW f, \/ f \in Interrupt /\ InterruptStep(f)
                               \/ f \in Lookup /\ LookupStep(f)
  PROVE  SoleInv'
<1>1. f \in Fiber \ Turn
  BY FibersAreDistinct DEF Fiber
<1>2. image' \in {image, [image EXCEPT ![f] = Called], [image EXCEPT ![f] = NoImage]}
  BY <1>1, InterruptMoves, LookupMoves, ImagesMove DEF InterruptStep, IInv
<1> USE DEF IInv, FiberInv, FiberTypes, DataTypes, MemoryTypes, CallTypes
<1>3. /\ diskSession' = diskSession
      /\ \A g \in Fiber \ {f} : pc'[g] = pc[g] /\ holds'[g] = holds[g]
  BY <1>1 DEF InterruptStep, CallInterrupt, MarkInterrupted, SendEscape, LookupStep, CallGet,
     LookAtDriver, PersistSession, Goto, diskVars
<1>4. \A i \in Incarnation : session'[i].active = session[i].active
  <2>1. \/ session' = session
        \/ \E i \in Incarnation : \E status : SetSession(i, status, session[i].active)
    <3>1. holds[f] \in Incarnation /\ cur \in Incarnation
      BY <1>1
    <3> QED BY <3>1 DEF InterruptStep, CallInterrupt, MarkInterrupted, SendEscape, LookupStep,
               CallGet, LookAtDriver, SetStatus
  <2> QED BY <2>1 DEF SetSession
<1> QED BY <1>1, <1>2, <1>3, <1>4, BystanderKeepsSole

LEMMA ControlKeepsSole ==
  ASSUME IInv, EntryInv, SoleInv, NEW c \in Control, ControlStep(c) \/ SendEscape(c)
  PROVE  SoleInv'
<1> c \in Fiber \ Turn /\ holds[c] \in Incarnation /\ cur \in Incarnation
  BY FibersAreDistinct DEF Fiber, IInv, DataTypes, MemoryTypes, CallTypes
<1>1. image' \in {image, [image EXCEPT ![c] = Called], [image EXCEPT ![c] = NoImage]}
  BY ControlImages
<1>2. /\ diskSession' = diskSession
      /\ \A g \in Fiber \ {c} : pc'[g] = pc[g] /\ holds'[g] = holds[g]
      /\ \/ session' = session
         \/ \E i, status, entry : entry \in {session[i].active, None} /\ SetSession(i, status, entry)
  <2> USE DEF IInv, FiberInv, FiberTypes, DataTypes, CallTypes, Goto, PersistSession, SetStatus,
          diskVars, memoryVars
  <2>1. CASE CallControl(c) \/ BeginControl(c) \/ CheckAttached(c) \/ LaunchChecks(c)
    BY <2>1 DEF CallControl, JoinChain, BeginControl, CheckAttached, MarkInterrupted, LaunchChecks
  <2>2. CASE Respawn(c) \/ DriverStarts(c) \/ RestorePrevious(c) \/ AwaitTurnEnd(c)
    BY <2>2 DEF Respawn, DriverStarts, RestorePrevious, AwaitTurnEnd
  <2>3. CASE RecheckAttached(c) \/ KillPane(c) \/ AfterKill(c) \/ SendEscape(c)
    BY <2>3 DEF RecheckAttached, KillPane, AfterKill, SendEscape
  <2>4. CASE CloseFinishesTurn(c) \/ CloseRecordsTurn(c)
    BY <2>4 DEF CloseFinishesTurn, CloseRecordsTurn
  <2> QED BY <2>1, <2>2, <2>3, <2>4 DEF ControlStep
<1>3. \A i \in Incarnation : session'[i].active \in {session[i].active, None}
  BY <1>2 DEF SetSession, IInv, DataTypes, MemoryTypes
<1> QED BY <1>1, <1>2, <1>3, BystanderKeepsSole

(* What is written is an image of the object, and that object named the turn. *)
LEMMA WriteKeepsSole ==
  ASSUME IInv, SoleInv, NEW f \in Fiber, WriteStep(f)
  PROVE  SoleInv'
<1> SUFFICES ASSUME NEW s \in Turn PROVE NamedByOne(s)'
  BY DEF SoleInv
<1>1. s \in Fiber /\ s # None /\ NamedByOne(s) /\ Called.active = None /\ NoImage.active = None
      /\ Called # NoImage
  BY FibersAreDistinct, Labels DEF Fiber, SoleInv, Called, NoImage
<1>2. holds \in [Fiber -> Incarnation]
      /\ image \in [Fiber -> SessionFile \cup {NoImage, Called}]
  BY DEF IInv, FiberInv, FiberTypes, DataTypes, CallTypes
<1>3. UNCHANGED <<session, holds>>
  BY DEF WriteStep, Serialize, SessionWritten, SessionWriteFails, memoryVars
<1>4. pc'[s] \in Waiting => pc[s] \in Waiting
  <2>1. \/ pc' = pc
        \/ pc[f] \in Writing /\ \E l \in {AfterWrite[pc[f]], AfterFault[pc[f]]} : Goto(f, l)
    BY DEF WriteStep, Serialize, SessionWritten, SessionWriteFails, IInv, FiberInv, WritersWait
  <2> QED BY <1>1, <2>1, AfterTable DEF Goto, IInv, FiberInv, FiberTypes, Waiting
<1>5. \A i : Begun(s, i) => Begun(s, i)'
  BY <1>3, <1>4 DEF Begun
<1>6. \A i \in Incarnation : session'[i].active = s => Begun(s, i)'
  BY <1>1, <1>3, <1>5 DEF NamedByOne
<1>7. /\ diskSession' = diskSession \/ (image[f] # NoImage /\ diskSession' = image[f])
      /\ \A g \in Fiber \ {f} : image'[g] = image[g]
      /\ \/ image'[f] = NoImage
         \/ image'[f].active = session[holds[f]].active /\ image'[f].inc = holds[f]
  BY <1>1, <1>2 DEF WriteStep, Serialize, SessionWritten, SessionWriteFails, diskVars
<1>8. \A g \in Fiber : (image[g].active = s => Begun(s, image[g].inc))'
  <2> SUFFICES ASSUME NEW g \in Fiber, image'[g].active = s PROVE Begun(s, image[g].inc)'
    OBVIOUS
  <2>1. CASE g # f
    <3>1. Begun(s, image[g].inc) /\ image'[g] = image[g]
      BY <1>1, <1>7, <2>1 DEF NamedByOne
    <3> QED BY <1>5, <3>1 DEF Begun
  <2>2. CASE g = f
    <3>1. Begun(s, holds[f]) /\ image'[f].inc = holds[f]
      BY <1>1, <1>2, <1>7, <2>2 DEF NamedByOne
    <3> QED BY <1>3, <1>4, <2>2, <3>1 DEF Begun
  <2> QED BY <2>1, <2>2
<1>9. (diskSession.active = s => Begun(s, diskSession.inc))'
  <2>1. diskSession'.active = s => Begun(s, diskSession'.inc)
    BY <1>1, <1>7 DEF NamedByOne
  <2> QED BY <1>3, <1>4, <2>1 DEF Begun
<1> QED BY <1>6, <1>8, <1>9 DEF NamedByOne, Begun

LEMMA RestartKeepsSole ==
  ASSUME IInv, EntryInv, SoleInv, Crash \/ BootStep
  PROVE  SoleInv'
<1> SUFFICES ASSUME NEW s \in Turn PROVE NamedByOne(s)'
  BY DEF SoleInv
<1>1. s \in Fiber /\ s # None /\ NamedByOne(s)
  BY FibersAreDistinct DEF Fiber, SoleInv
<1>2. /\ holds' = holds
      /\ pc'[s] \in Waiting => pc[s] \in Waiting
      /\ \A f \in Fiber : image'[f] \in {image[f], NoImage}
  BY <1>1 DEF Crash, BootStep, Boot, BootFinishesTurn, BootRecordsTurn, BootSavesSession,
     Reconcile, Serve, unchangedByTmux, fiberVars, Waiting
<1>3. CASE Boot
  <2>1. diskSession' = diskSession
    BY <1>3 DEF Boot, diskVars
  <2>2. \A i \in Incarnation : \/ session'[i].active = session[i].active
                               \/ i = diskSession.inc /\ session'[i].active = diskSession.active
    BY <1>3 DEF Boot, IInv, DataTypes, MemoryTypes
  <2>3. diskSession.active = s => Begun(s, diskSession.inc)'
    BY <1>1, <1>2, <2>1 DEF NamedByOne, Begun
  <2> QED BY <1>1, <1>2, <2>1, <2>2, <2>3, SoleStays DEF Begun
<1>4. CASE BootSavesSession
  <2>1. diskSession'.active = None
    BY <1>4 DEF BootSavesSession
  <2>2. \A i \in Incarnation : session'[i].active \in {session[i].active, None}
    BY <1>4 DEF BootSavesSession, SetSession, IInv, DataTypes, MemoryTypes
  <2> QED BY <1>1, <1>2, <2>1, <2>2 DEF NamedByOne, Begun, NoImage
<1>5. CASE ~Boot /\ ~BootSavesSession
  <2>1. diskSession' = diskSession /\ session' = session
    BY <1>5 DEF Crash, BootStep, BootFinishesTurn, BootRecordsTurn, Reconcile, Serve,
       unchangedByTmux, memoryVars, diskVars
  <2> QED BY <1>1, <1>2, <2>1, SoleStays
<1> QED BY <1>3, <1>4, <1>5

LEMMA PaneKeepsSole ==
  ASSUME SoleInv, (\E i \in Incarnation : PaneStep(i)) \/ UNCHANGED vars
  PROVE  SoleInv'
<1>1. UNCHANGED <<session, pc, holds, image, diskSession>>
  BY DEF PaneStep, DriverDies, AgentFinishes, Attach, Detach, unchangedByTmux, memoryVars,
     fiberVars, diskVars, vars
<1> QED BY <1>1 DEF SoleInv, NamedByOne, Begun

LEMMA InitSole == Init => SoleInv
BY FibersAreDistinct DEF Init, SoleInv, NamedByOne, NoImage, Fiber

LEMMA StepSole ==
  ASSUME IInv, EntryInv, SoleInv, [Next]_vars
  PROVE  SoleInv'
BY TurnKeepsSole, CallsKeepSole, ControlKeepsSole, WriteKeepsSole, RestartKeepsSole,
   PaneKeepsSole DEF Next

-----------------------------------------------------------------------------
(***************************************************************************)
(* While a turn works on the record it has begun, everything that may yet  *)
(* be written to session.json names it.                                    *)
(***************************************************************************)
UnderWay(s) == pc[s] \in Working /\ diskRecord[s] \notin Terminal

NameInv ==
  \A s \in Turn : ~TakenByClose(s) /\ s \notin displaced \cup overtaken /\ UnderWay(s) =>
    /\ \A f \in Fiber : image[f] # NoImage =>
         holds[f] = cur /\ (image[f] = Called \/ image[f].active = s)
    /\ pc[s] \notin Locked => diskSession.active = s

(* A turn comes under way by its reservation, and does not come back to it. *)
Begins(s) ==
  \/ TakenByClose(s) \/ s \in displaced
  \/ UnderWay(s)' =>
       \/ pc[s] = "probing" /\ pc'[s] = "accepting" /\ UNCHANGED <<image, holds>>
       \/ UnderWay(s) /\ (pc[s] \in Locked => pc'[s] \in Locked)

LEMMA AdmissionBegins ==
  ASSUME IInv, NEW s \in Turn, TurnBase(s), Keeps(s),
         Submit(s) \/ Admit(s) \/ ProbeDriver(s) \/ RecordAccepted(s)
         \/ AdmissionThrew(s) \/ RecordRejected(s)
  PROVE  Begins(s)
<1> s \in Fiber /\ {"accepted", "running", None} \cap Terminal = {}
  BY NoneIsNoRecord DEF Fiber, Recorded, Terminal
<1> USE DEF IInv, FiberInv, FiberTypes, DataTypes, DiskTypes, TurnBase, Untaken, Waiting,
        Begins, Keeps,
        UnderWay, Locked, Gone, Working, Owning, Reserving, Suspended,
        unchangedByTurns, unchangedByEntries, DeleteEntry,
        diskVars, Goto, PersistSession, RecordWritten, RecordFails
<1>1. CASE Submit(s)
  BY <1>1 DEF Submit, JoinChain
<1>2. CASE Admit(s)
  BY <1>2 DEF Admit
<1>3. CASE ProbeDriver(s)
  BY <1>3 DEF ProbeDriver
<1>4. CASE RecordAccepted(s)
  BY <1>4 DEF RecordAccepted
<1>5. CASE AdmissionThrew(s)
  BY <1>5 DEF AdmissionThrew
<1>6. CASE RecordRejected(s)
  BY <1>6 DEF RecordRejected
<1> QED BY <1>1, <1>2, <1>3, <1>4, <1>5, <1>6

LEMMA StagingBegins ==
  ASSUME IInv, NEW s \in Turn, TurnBase(s), Keeps(s),
         StageTurn(s) \/ RecordStaged(s) \/ SubmitThrew(s) \/ FinishWorkspaceTurn(s)
         \/ RecordUnstaged(s)
  PROVE  Begins(s)
<1> s \in Fiber /\ {"accepted", "running", None} \cap Terminal = {}
  BY NoneIsNoRecord DEF Fiber, Recorded, Terminal
<1> USE DEF IInv, FiberInv, FiberTypes, DataTypes, DiskTypes, TurnBase, Untaken, Waiting,
        Begins, Keeps,
        UnderWay, Locked, Gone, Working, Owning, Reserving, Suspended,
        unchangedByTurns, unchangedByEntries, DeleteEntry,
        diskVars, Goto, PersistSession, RecordWritten, RecordFails
<1>1. CASE StageTurn(s)
  BY <1>1 DEF StageTurn, GiveUpStaging
<1>2. CASE RecordStaged(s)
  BY <1>2 DEF RecordStaged
<1>3. CASE SubmitThrew(s)
  BY <1>3 DEF SubmitThrew, GiveUpStaging
<1>4. CASE FinishWorkspaceTurn(s)
  BY <1>4 DEF FinishWorkspaceTurn, HistoryAwait
<1>5. CASE RecordUnstaged(s)
  BY <1>5 DEF RecordUnstaged
<1> QED BY <1>1, <1>2, <1>3, <1>4, <1>5

LEMMA ExecutionBegins ==
  ASSUME IInv, NEW s \in Turn, TurnBase(s), Keeps(s),
         AwaitDriver(s) \/ BeginRunning(s) \/ RecordStarted(s) \/ RecordNet(s)
         \/ PastePrompt(s) \/ PressEnter(s) \/ ConfirmSubmission(s)
         \/ ArtifactTerminal(s)
  PROVE  Begins(s)
<1> s \in Fiber /\ {"accepted", "running", None} \cap Terminal = {}
  BY NoneIsNoRecord DEF Fiber, Recorded, Terminal
<1> USE DEF IInv, FiberInv, FiberTypes, DataTypes, DiskTypes, TurnBase, Untaken, Waiting,
        Begins, Keeps,
        UnderWay, Locked, Gone, Working, Owning, Reserving, Suspended,
        unchangedByTurns, unchangedByEntries, DeleteEntry,
        diskVars, Goto, PersistSession, RecordWritten, RecordFails
<1>1. CASE AwaitDriver(s)
  BY <1>1 DEF AwaitDriver, FailUnexpectedly
<1>2. CASE BeginRunning(s)
  BY <1>2 DEF BeginRunning
<1>3. CASE RecordStarted(s)
  BY <1>3 DEF RecordStarted, FailUnexpectedly
<1>4. CASE RecordNet(s)
  BY <1>4 DEF RecordNet
<1>5. CASE PastePrompt(s)
  BY <1>5 DEF PastePrompt
<1>6. CASE PressEnter(s)
  BY <1>6 DEF PressEnter
<1>7. CASE ConfirmSubmission(s)
  BY <1>7 DEF ConfirmSubmission
<1>8. CASE ArtifactTerminal(s)
  BY <1>8 DEF ArtifactTerminal
<1> QED BY <1>1, <1>2, <1>3, <1>4, <1>5, <1>6, <1>7, <1>8

LEMMA FailureBegins ==
  ASSUME IInv, NEW s \in Turn, TurnBase(s), Keeps(s),
         WatchRejects(s) \/ CheckOwner(s) \/ RecordFinished(s) \/ Caught(s)
         \/ Expired(s) \/ SettleTimedOutDriver(s) \/ RecordFailed(s) \/ Finally(s)
  PROVE  Begins(s)
<1> s \in Fiber /\ {"accepted", "running", None} \cap Terminal = {}
  BY NoneIsNoRecord DEF Fiber, Recorded, Terminal
<1> USE DEF IInv, FiberInv, FiberTypes, DataTypes, DiskTypes, TurnBase, Untaken, Waiting,
        Begins, Keeps,
        UnderWay, Locked, Gone, Working, Owning, Reserving, Suspended,
        unchangedByTurns, unchangedByEntries, DeleteEntry,
        diskVars, Goto, PersistSession, RecordWritten, RecordFails
<1>1. CASE WatchRejects(s)
  BY <1>1 DEF WatchRejects
<1>2. CASE CheckOwner(s)
  BY <1>2 DEF CheckOwner
<1>3. CASE RecordFinished(s)
  BY <1>3 DEF RecordFinished
<1>4. CASE Caught(s)
  BY <1>4 DEF Caught
<1>5. CASE Expired(s)
  BY <1>5 DEF Expired
<1>6. CASE SettleTimedOutDriver(s)
  BY <1>6 DEF SettleTimedOutDriver
<1>7. CASE RecordFailed(s)
  BY <1>7 DEF RecordFailed
<1>8. CASE Finally(s)
  BY <1>8 DEF Finally
<1> QED BY <1>1, <1>2, <1>3, <1>4, <1>5, <1>6, <1>7, <1>8

LEMMA TurnBegins ==
  ASSUME IInv, NEW s \in Turn, TurnBase(s), Keeps(s), TurnStep(s)
  PROVE  Begins(s)
BY AdmissionBegins, StagingBegins, ExecutionBegins, FailureBegins DEF TurnStep, OwnStep

(* The turn under way has the entry and the current session. *)
LEMMA OneUnderWay ==
  ASSUME EntryInv, OrderInv, NEW s \in Turn, ~TakenByClose(s), s \notin displaced, UnderWay(s)
  PROVE  /\ active = s /\ s # None /\ holds[s] = cur
         /\ session[cur].active = s /\ session[cur].status # "closed"
<1>1. active = s /\ s # None
  BY FibersAreDistinct DEF OrderInv, Keeps, UnderWay, Fiber
<1> QED BY <1>1 DEF EntryInv, Entry

(* A step that begins no turn, and puts into an image only the current session. *)
LEMMA NamesStay ==
  ASSUME NameInv, NEW f \in Fiber, UNCHANGED <<cur, diskSession>>,
         \A g \in Fiber \ {f} : holds'[g] = holds[g] /\ image'[g] = image[g],
         NEW s \in Turn, ~TakenByClose(s), s \notin displaced \cup overtaken, UnderWay(s),
         pc[s] \in Locked => pc'[s] \in Locked,
         \/ image'[f] = NoImage
         \/ image'[f] = Called /\ holds'[f] = cur
         \/ image'[f] = image[f] /\ holds'[f] \in {holds[f], cur}
  PROVE  /\ \A g \in Fiber : image'[g] # NoImage =>
              holds'[g] = cur' /\ (image'[g] = Called \/ image'[g].active = s)
         /\ pc'[s] \notin Locked => diskSession'.active = s
BY DEF NameInv

(* What a turn's step is about to write is the object it has in hand, and that *)
(* object agrees with the entry.                                                *)
LEMMA TurnWrites ==
  ASSUME IInv, NEW t \in Turn, TurnStep(t), image'[t] # image[t]
  PROVE  \/ image'[t] = NoImage
         \/ image'[t] = Called /\ holds' = holds /\ Consistent(session'[holds'[t]], active')
<1> t \in Fiber /\ image \in [Fiber -> SessionFile \cup {NoImage, Called}]
  BY DEF Fiber, IInv, FiberInv, FiberTypes
<1> USE DEF PersistSession
<1>1. CASE ProbeDriver(t) \/ RecordAccepted(t) \/ RecordRejected(t)
  BY <1>1 DEF ProbeDriver, RecordAccepted, RecordRejected
<1>2. CASE RecordStaged(t) \/ RecordUnstaged(t) \/ RecordNet(t)
  BY <1>2 DEF RecordStaged, RecordUnstaged, RecordNet
<1>3. CASE ConfirmSubmission(t) \/ RecordFinished(t) \/ RecordFailed(t)
  BY <1>3 DEF ConfirmSubmission, RecordFinished, RecordFailed
<1>4. image' = image
      \/ ProbeDriver(t) \/ RecordAccepted(t) \/ RecordRejected(t)
      \/ RecordStaged(t) \/ RecordUnstaged(t) \/ RecordNet(t)
      \/ ConfirmSubmission(t) \/ RecordFinished(t) \/ RecordFailed(t)
  BY DEF TurnStep, OwnStep, Submit, Admit, AdmissionThrew, StageTurn, SubmitThrew,
     FinishWorkspaceTurn, AwaitDriver, BeginRunning, RecordStarted, PastePrompt, PressEnter,
     WatchRejects, ArtifactTerminal, CheckOwner, Caught, Expired, SettleTimedOutDriver, Finally
<1> QED BY <1>1, <1>2, <1>3, <1>4

LEMMA TurnOvertakes ==
  ASSUME NEW t \in Turn, TurnStep(t)
  PROVE  overtaken \subseteq overtaken'
BY DEF TurnStep, OwnStep, Submit, Admit, ProbeDriver, RecordAccepted, AdmissionThrew,
   RecordRejected, StageTurn, RecordStaged, SubmitThrew, FinishWorkspaceTurn, RecordUnstaged,
   AwaitDriver, BeginRunning, RecordStarted, RecordNet, PastePrompt, PressEnter,
   ConfirmSubmission, WatchRejects, ArtifactTerminal, CheckOwner, RecordFinished, Caught,
   Expired, SettleTimedOutDriver, RecordFailed, Finally, unchangedByTurns, marks

LEMMA TurnKeepsNames ==
  ASSUME IInv, EntryInv, OrderInv, SoleInv, NameInv, NEW t \in Turn, TurnStep(t)
  PROVE  NameInv'
<1> SUFFICES ASSUME NEW s \in Turn, ~TakenByClose(s)', s \notin displaced' \cup overtaken',
                    UnderWay(s)'
             PROVE  /\ \A f \in Fiber : image'[f] # NoImage =>
                         holds'[f] = cur' /\ (image'[f] = Called \/ image'[f].active = s)
                    /\ pc'[s] \notin Locked => diskSession'.active = s
  BY DEF NameInv
<1> s \in Fiber /\ t \in Fiber /\ holds \in [Fiber -> Incarnation] /\ cur \in Incarnation
  BY DEF Fiber, IInv, DataTypes, MemoryTypes, CallTypes
<1>1. TurnBase(t) /\ Keeps(t)
  BY DEF EntryInv, OrderInv
<1>2. Owns(t) /\ Alone(t) /\ Begins(t) /\ Holds(t)
  BY <1>1, TurnOwns, TurnBegins, TurnHolds DEF Owns
<1>3. /\ ~TakenByClose(s) /\ s \notin displaced \cup overtaken
      /\ UNCHANGED <<cur, diskSession>>
  <2>1. overtaken \subseteq overtaken'
    BY TurnOvertakes
  <2> QED BY <1>2, <2>1, TakenSame DEF Alone, Owns, Holds
<1>4. \A f \in Fiber \ {t} : holds'[f] = holds[f] /\ image'[f] = image[f]
  BY <1>2 DEF Owns
<1>5. CASE s = t /\ ~UnderWay(s)
  <2>1. pc[s] = "probing" /\ pc'[s] = "accepting" /\ UNCHANGED <<image, holds>>
    BY <1>2, <1>3, <1>5 DEF Begins
  <2>2. ProbeDriver(s)
    BY <1>5, <2>1, ProbesOnly
  <2>3. \A f \in Fiber : ~Outdated(f)
    BY <2>1, <2>2 DEF ProbeDriver, PersistSession, Goto, IInv, FiberInv, FiberTypes
  <2> QED BY <1>3, <2>1, <2>3 DEF Outdated, Locked
<1>6. CASE s = t /\ UnderWay(s)
  <2>1. holds[t] = cur /\ pc[t] # "queued"
    BY <1>3, <1>6, OneUnderWay DEF UnderWay, Working, Reserving
  <2>2. holds'[t] = cur /\ (pc[s] \in Locked => pc'[s] \in Locked)
    BY <1>2, <1>3, <1>6, <2>1 DEF Owns, Begins, Locked
  <2>3. image'[t] \in {image[t], Called, NoImage}
    BY TurnImages DEF IInv, FiberInv, FiberTypes
  <2> QED BY <1>3, <1>4, <1>6, <2>2, <2>3, NamesStay
<1>7. CASE s # t
  <2>1. UnderWay(s) /\ pc'[s] = pc[s] /\ holds'[s] = holds[s]
    BY <1>2, <1>4, <1>7 DEF Alone, Same, UnderWay
  <2>2. active = s /\ s # None /\ holds[s] = cur
    BY <1>3, <2>1, OneUnderWay
  <2>3. active' = s
    BY <1>2, <1>7, <2>2 DEF Holds
  <2>4. \/ image'[t] = NoImage
        \/ image'[t] = Called /\ holds'[t] = cur
        \/ image'[t] = image[t] /\ holds'[t] \in {holds[t], cur}
    <3>1. CASE image'[t] = image[t]
      BY <1>2, <3>1 DEF Owns
    <3>2. CASE image'[t] # image[t] /\ image'[t] # NoImage
      <4>1. image'[t] = Called /\ holds' = holds /\ Consistent(session'[holds'[t]], active')
        BY <3>2, TurnWrites
      <4>2. session'[holds'[t]].active = s /\ holds'[t] \in Incarnation
        BY <2>2, <2>3, <4>1 DEF Consistent
      <4>3. SoleInv'
        BY TurnKeepsSole
      <4>4. holds'[s] = holds'[t]
        BY <4>2, <4>3 DEF SoleInv, NamedByOne, Begun
      <4> QED BY <2>1, <2>2, <4>1, <4>4
    <3> QED BY <3>1, <3>2
  <2> QED BY <1>3, <1>4, <2>1, <2>4, NamesStay
<1> QED BY <1>5, <1>6, <1>7

(* A call that moves no turn. *)
LEMMA BystanderKeepsNames ==
  ASSUME IInv, NameInv, NEW f \in Fiber \ Turn,
         UNCHANGED <<cur, diskSession, displaced, overtaken>>,
         \A g \in Fiber \ {f} : pc'[g] = pc[g] /\ holds'[g] = holds[g],
         image' \in {image, [image EXCEPT ![f] = Called], [image EXCEPT ![f] = NoImage]},
         \A s \in Turn : TakenByClose(s) => TakenByClose(s)',
         \A s \in Turn : ~TakenByClose(s)' /\ s \notin displaced /\ UnderWay(s)' =>
           /\ diskRecord'[s] = diskRecord[s]
           /\ \/ image'[f] = NoImage
              \/ image'[f] = Called /\ holds'[f] = cur
              \/ image'[f] = image[f] /\ holds'[f] \in {holds[f], cur}
  PROVE  NameInv'
<1> SUFFICES ASSUME NEW s \in Turn, ~TakenByClose(s)', s \notin displaced' \cup overtaken',
                    UnderWay(s)'
             PROVE  /\ \A g \in Fiber : image'[g] # NoImage =>
                         holds'[g] = cur' /\ (image'[g] = Called \/ image'[g].active = s)
                    /\ pc'[s] \notin Locked => diskSession'.active = s
  BY DEF NameInv
<1>1. /\ pc'[s] = pc[s] /\ diskRecord'[s] = diskRecord[s] /\ ~TakenByClose(s)
      /\ s \notin displaced \cup overtaken
  BY DEF Fiber
<1>2. UnderWay(s)
  BY <1>1 DEF UnderWay
<1>3. \A g \in Fiber \ {f} : image'[g] = image[g]
  BY DEF IInv, FiberInv, FiberTypes
<1> QED BY <1>1, <1>2, <1>3, NamesStay

LEMMA InterruptKeepsNames ==
  ASSUME IInv, NameInv, NEW f \in Interrupt, InterruptStep(f)
  PROVE  NameInv'
<1>1. f \in Fiber \ Turn /\ f \notin Control
  BY FibersAreDistinct DEF Fiber
<1>2. image' \in {image, [image EXCEPT ![f] = Called], [image EXCEPT ![f] = NoImage]}
  BY <1>1, InterruptMoves, ImagesMove DEF InterruptStep, IInv
<1> USE DEF IInv, FiberInv, FiberTypes, DataTypes, MemoryTypes, CallTypes
<1>3. /\ UNCHANGED <<cur, diskSession, diskRecord>>
      /\ \A g \in Fiber \ {f} : pc'[g] = pc[g] /\ holds'[g] = holds[g]
      /\ \A c \in Control : target'[c] = target[c]
      /\ holds'[f] = cur \/ (image' = image /\ holds'[f] = holds[f])
  <2>1. CASE CallInterrupt(f)
    BY <1>1, <2>1 DEF CallInterrupt, MarkInterrupted, PersistSession, Goto, diskVars
  <2>2. CASE SendEscape(f)
    BY <1>1, <2>2 DEF SendEscape, Goto, diskVars
  <2> QED BY <2>1, <2>2 DEF InterruptStep
<1>4. \A s \in Turn : TakenByClose(s)' <=> TakenByClose(s)
  BY <1>3 DEF TakenByClose
<1>5. image'[f] \in {image[f], Called, NoImage}
  BY <1>1, <1>2
<1> QED BY <1>1, <1>2, <1>3, <1>4, <1>5, OthersDisplaceNone, BystanderKeepsNames

(* A lookup that finds the driver dead saves nothing while a turn has the entry. *)
LEMMA LookupKeepsNames ==
  ASSUME IInv, EntryInv, OrderInv, NameInv, NEW g \in Lookup, LookupStep(g)
  PROVE  NameInv'
<1>1. g \in Fiber \ Turn
  BY FibersAreDistinct DEF Fiber
<1>2. image' \in {image, [image EXCEPT ![g] = Called], [image EXCEPT ![g] = NoImage]}
  BY <1>1, LookupMoves, ImagesMove DEF IInv
<1> USE DEF IInv, FiberInv, FiberTypes, DataTypes, MemoryTypes, CallTypes
<1>3. /\ UNCHANGED <<cur, diskSession, diskRecord, target, active>>
      /\ \A f \in Fiber \ {g} : pc'[f] = pc[f] /\ holds'[f] = holds[f]
      /\ holds'[g] \in {holds[g], cur}
      /\ active # None => image' = image
  <2>1. CASE CallGet(g)
    BY <1>1, <2>1 DEF CallGet, Goto, diskVars
  <2>2. CASE LookAtDriver(g)
    <3>1. CASE pane[holds[g]] = "alive"
      BY <1>1, <2>2, <3>1 DEF LookAtDriver, Goto, diskVars
    <3>2. CASE pane[holds[g]] # "alive"
      <4>1. session'[holds'[g]].status = "stopped"
        BY <1>1, <2>2, <3>2 DEF LookAtDriver, SetStatus, SetSession
      <4>2. Consistent(session'[holds'[g]], active') => active = None
        BY <2>2, <4>1 DEF LookAtDriver, Consistent, BusyStatus
      <4> QED BY <1>1, <2>2, <3>2, <4>2 DEF LookAtDriver, PersistSession, Goto, diskVars
    <3> QED BY <3>1, <3>2
  <2> QED BY <2>1, <2>2 DEF LookupStep
<1>4. \A s \in Turn : ~TakenByClose(s)' /\ s \notin displaced /\ UnderWay(s)' => image' = image
  <2>1. \A s \in Turn : (TakenByClose(s)' <=> TakenByClose(s)) /\ pc'[s] = pc[s]
    BY <1>1, <1>3, TakenSame DEF Fiber
  <2> QED BY <1>3, <2>1, OneUnderWay DEF UnderWay
<1> QED BY <1>1, <1>2, <1>3, <1>4, TakenSame, OthersDisplaceNone, BystanderKeepsNames

(* While a turn has the entry every control call is refused but a close, and a *)
(* close that goes on takes the turn.                                           *)
LEMMA ControlWaits ==
  ASSUME IInv, EntryInv, NEW c \in Control, ControlStep(c) \/ SendEscape(c),
         active # None, target[c] # active, target'[c] # active
  PROVE  image' = image /\ cur' = cur /\ diskRecord' = diskRecord
<1> c \in Fiber /\ ControlBase(c) /\ Entry
  BY DEF Fiber, EntryInv
<1>1. pc[c] \in {"idle", "queued", "checking"}
  <2>1. pc[c] \in {"idle", "queued"} \cup Running
    <3>1. SendEscape(c) => pc[c] = "closeKey"
      BY DEF SendEscape
    <3> QED BY <3>1 DEF ControlStep, CallControl, JoinChain, BeginControl, CheckAttached,
               LaunchChecks,
       Respawn, DriverStarts, RestorePrevious, AwaitTurnEnd, RecheckAttached, KillPane,
       AfterKill,
       CloseFinishesTurn, CloseRecordsTurn, Running, LockedAwait
  <2>2. pc[c] \in Running => op[c].kind = "close" /\ pc[c] \notin Closing \cup Launching \cup {"closeTurn", "closeRec"}
    <3>1. Closing \cup Launching \subseteq Running
      BY DEF Closing, Launching, Running, LockedAwait
    <3> QED BY <3>1 DEF ControlBase, CloseInv
  <2>3. pc[c] \in Closing \cup Launching \cup {"closeTurn", "closeRec", "idle", "queued", "checking"}
    <3>1. SendEscape(c) => pc[c] = "closeKey"
      BY DEF SendEscape
    <3> QED BY <3>1 DEF ControlStep, CallControl, JoinChain, BeginControl, CheckAttached,
               LaunchChecks,
       Respawn, DriverStarts, RestorePrevious, AwaitTurnEnd, RecheckAttached, KillPane,
       AfterKill,
       CloseFinishesTurn, CloseRecordsTurn, Closing, Launching
  <2> QED BY <2>1, <2>2, <2>3
<1>2. CASE pc[c] = "idle"
  <2>1. CallControl(c)
    BY <1>2 DEF ControlStep, SendEscape, BeginControl, CheckAttached, LaunchChecks,
       Respawn, DriverStarts, RestorePrevious, AwaitTurnEnd, RecheckAttached, KillPane,
       AfterKill,
       CloseFinishesTurn, CloseRecordsTurn
  <2> QED BY <2>1 DEF CallControl, diskVars
<1>3. CASE pc[c] = "queued"
  <2>1. BeginControl(c)
    BY <1>3 DEF ControlStep, SendEscape, CallControl, JoinChain, CheckAttached, LaunchChecks,
       Respawn, DriverStarts, RestorePrevious, AwaitTurnEnd, RecheckAttached, KillPane,
       AfterKill,
       CloseFinishesTurn, CloseRecordsTurn
  <2> QED BY <2>1 DEF BeginControl, Refused, Entry, diskVars
<1>4. CASE pc[c] = "checking"
  <2>1. CheckAttached(c)
    BY <1>4 DEF ControlStep, SendEscape, CallControl, JoinChain, BeginControl, LaunchChecks,
       Respawn, DriverStarts, RestorePrevious, AwaitTurnEnd, RecheckAttached, KillPane,
       AfterKill,
       CloseFinishesTurn, CloseRecordsTurn
  <2>2. op[c].kind = "close"
    BY <1>4 DEF ControlBase, Running, LockedAwait
  <2>3. target' = [target EXCEPT ![c] = active] => target'[c] = active
    BY DEF IInv, DataTypes, CallTypes
  <2> QED BY <2>1, <2>2, <2>3 DEF CheckAttached, MarkInterrupted, diskVars
<1> QED BY <1>1, <1>2, <1>3, <1>4

LEMMA ControlKeepsNames ==
  ASSUME IInv, EntryInv, OrderInv, NameInv, NEW c \in Control, ControlStep(c) \/ SendEscape(c)
  PROVE  NameInv'
<1> c \in Fiber \ Turn /\ ControlBase(c)
  BY FibersAreDistinct DEF Fiber, EntryInv
<1> USE DEF IInv, FiberInv, FiberTypes, DataTypes, DiskTypes, CallTypes
<1>1. /\ \A g \in Fiber \ {c} : pc'[g] = pc[g] /\ holds'[g] = holds[g]
      /\ holds'[c] \in {holds[c], cur, cur'}
      /\ diskSession' = diskSession
      /\ \A s \in Turn : TakenByClose(s) => TakenByClose(s)'
      /\ \A s \in Turn : s = target[c] \/ diskRecord'[s] = diskRecord[s]
  <2>1. CASE Leaves(c)
    <3>1. \A s \in Turn : s # None
      BY FibersAreDistinct DEF Fiber
    <3>2. diskSession' = diskSession
      BY <2>1 DEF Leaves, CallControl, BeginControl, CheckAttached, LaunchChecks, Respawn,
         DriverStarts,
         RestorePrevious, AwaitTurnEnd, RecheckAttached, KillPane, AfterKill, SendEscape,
         diskVars
    <3> QED BY <2>1, <3>1, <3>2, LeavesMemory, LeavesTarget DEF TakenByClose, EntryInv
  <2>2. CASE ~Leaves(c)
    <3>1. CASE BeginControl(c)
      BY <3>1, TakenSame DEF BeginControl, PersistSession, Goto, diskVars
    <3>2. CASE CloseFinishesTurn(c)
      BY <3>2, TakenSame DEF CloseFinishesTurn, PersistSession, Goto
    <3>3. CASE CloseRecordsTurn(c)
      BY <3>3, TakenSame DEF CloseRecordsTurn, PersistSession, Goto, RecordWritten,
         RecordFails, ControlBase
    <3> QED BY <2>2, <3>1, <3>2, <3>3 DEF ControlStep, Leaves
  <2> QED BY <2>1, <2>2
<1> SUFFICES ASSUME NEW s \in Turn, ~TakenByClose(s)', s \notin displaced' \cup overtaken',
                    UnderWay(s)'
             PROVE  /\ \A f \in Fiber : image'[f] # NoImage =>
                         holds'[f] = cur' /\ (image'[f] = Called \/ image'[f].active = s)
                    /\ pc'[s] \notin Locked => diskSession'.active = s
  BY DEF NameInv
<1>2. /\ pc'[s] = pc[s] /\ ~TakenByClose(s) /\ diskRecord'[s] = diskRecord[s] /\ UnderWay(s)
      /\ target'[c] # s /\ target[c] # s /\ s \notin displaced \cup overtaken
  BY <1>1, OthersDisplaceNone DEF Fiber, TakenByClose, UnderWay
<1>3. active = s /\ s # None
  BY <1>2, OneUnderWay
<1>4. image' = image /\ cur' = cur
  BY <1>2, <1>3, ControlWaits
<1> QED BY <1>1, <1>2, <1>4, NamesStay

(* What is written next is an image of the object that names the turn. *)
LEMMA WriteKeepsNames ==
  ASSUME IInv, EntryInv, OrderInv, NameInv, NEW f \in Fiber, WriteStep(f)
  PROVE  NameInv'
<1> USE DEF IInv, FiberInv, FiberTypes, DataTypes, CallTypes
<1>1. UNCHANGED <<cur, session, holds, diskRecord, target, displaced, overtaken>>
  BY OthersDisplaceNone
     DEF WriteStep, Serialize, SessionWritten, SessionWriteFails, memoryVars, diskVars
<1>2. \/ pc' = pc
      \/ /\ pc[f] \in Writing
         /\ \/ SessionWritten(f) /\ pc' = [pc EXCEPT ![f] = AfterWrite[pc[f]]]
            \/ /\ UNCHANGED diskSession /\ image' = [image EXCEPT ![f] = NoImage]
               /\ pc' = [pc EXCEPT ![f] = AfterFault[pc[f]]]
  BY DEF WriteStep, Serialize, SessionWritten, SessionWriteFails, WritersWait, Goto, diskVars
<1> SUFFICES ASSUME NEW s \in Turn, ~TakenByClose(s)', s \notin displaced' \cup overtaken',
                    UnderWay(s)'
             PROVE  /\ \A g \in Fiber : image'[g] # NoImage =>
                         holds'[g] = cur' /\ (image'[g] = Called \/ image'[g].active = s)
                    /\ pc'[s] \notin Locked => diskSession'.active = s
  BY DEF NameInv
<1> s \in Fiber
  BY DEF Fiber
<1>3. ~TakenByClose(s) /\ s \notin displaced \cup overtaken /\ UnderWay(s)
  <2>1. pc'[s] \in Working => pc[s] \in Working
    <3>1. pc'[s] = pc[s] \/ (pc[s] \in Writing /\ pc'[s] \in {AfterWrite[pc[s]], AfterFault[pc[s]]})
      BY <1>2
    <3> QED BY <3>1, WorkTable
  <2> QED BY <1>1, <2>1, TakenSame DEF UnderWay
<1>4. session[cur].active = s
  BY <1>3, OneUnderWay
<1>5. /\ \A g \in Fiber : image[g] # NoImage =>
           holds[g] = cur /\ (image[g] = Called \/ image[g].active = s)
      /\ pc[s] \notin Locked => diskSession.active = s
  BY <1>3 DEF NameInv
<1>6. image[f] # NoImage /\ \A g \in Fiber \ {f} : image'[g] = image[g]
  <2>1. Called # NoImage
    BY Labels
  <2> QED BY <2>1 DEF WriteStep, Serialize, SessionWritten, SessionWriteFails
<1>7. image'[f] # NoImage => image'[f].active = s
  BY <1>4, <1>5, <1>6 DEF WriteStep, Serialize, SessionWritten, SessionWriteFails
<1>8. CASE SessionWritten(f)
  <2>1. diskSession'.active = s
    BY <1>5, <1>6, <1>8 DEF SessionWritten
  <2> QED BY <1>1, <1>5, <1>6, <1>7, <2>1
<1>9. CASE ~SessionWritten(f)
  <2>1. diskSession' = diskSession
    BY <1>9 DEF WriteStep, Serialize, SessionWriteFails, diskVars
  <2>2. pc[s] \in Locked => pc'[s] \in Locked
    <3>1. pc'[s] = pc[s] \/ (pc[s] \in Writing /\ pc'[s] = AfterFault[pc[s]])
      BY <1>2, <1>9
    <3>2. \A w \in Writing : w \in Locked => AfterFault[w] = "admitThrew"
      BY Labels DEF AfterFault, Locked
    <3> QED BY <3>1, <3>2 DEF Locked
  <2> QED BY <1>1, <1>5, <1>6, <1>7, <2>1, <2>2
<1> QED BY <1>8, <1>9

LEMMA OthersKeepNames ==
  ASSUME IInv, EntryInv, NameInv,
         Crash \/ BootStep \/ (\E i \in Incarnation : PaneStep(i)) \/ UNCHANGED vars
  PROVE  NameInv'
<1>1. CASE Crash \/ BootStep
  <2>1. \A s \in Turn : pc'[s] \in Gone
    <3>1. CASE Crash
      BY <3>1 DEF Crash, Gone, Fiber
    <3>2. CASE BootStep
      BY <3>2 DEF EntryInv, Quiet, Fiber, fiberVars, BootStep, Boot, BootFinishesTurn,
         BootRecordsTurn,
         BootSavesSession, Reconcile, Serve, unchangedByTmux
    <3> QED BY <1>1, <3>1, <3>2
  <2> QED BY <2>1 DEF NameInv, UnderWay, Working, Reserving, Gone
<1>2. CASE (\E i \in Incarnation : PaneStep(i)) \/ UNCHANGED vars
  <2>1. UNCHANGED <<cur, pc, holds, target, image, diskRecord, diskSession, displaced, overtaken>>
    BY <1>2 DEF PaneStep, DriverDies, AgentFinishes, Attach, Detach, unchangedByTmux,
       memoryVars, fiberVars, diskVars, marks, vars
  <2> QED BY <2>1, TakenSame DEF NameInv, UnderWay
<1> QED BY <1>1, <1>2

LEMMA InitNames == Init => NameInv
BY DEF Init, NameInv, UnderWay, Working, Reserving, Fiber

LEMMA StepNames ==
  ASSUME IInv, EntryInv, OrderInv, SoleInv, NameInv, [Next]_vars
  PROVE  NameInv'
BY TurnKeepsNames, InterruptKeepsNames, ControlKeepsNames, LookupKeepsNames, WriteKeepsNames,
   OthersKeepNames DEF Next

(* While an acknowledged turn has no durable verdict session.json names it, for *)
(* any number of turns, control calls, interrupts, lookups, lost processes and   *)
(* failed writes, unless a close took the turn, the end of an earlier turn        *)
(* deleted its entry, or a write of session.json that would not name it was       *)
(* still under way when it reserved the session.  A turn that writes while        *)
(* another has the entry can write only the object that names the other.          *)
THEOREM UnfinishedTurnsAreNamed == Spec => []NamedWhileUnfinished
<1>1. NameInv => NamedWhileUnfinished
  <2> SUFFICES ASSUME NameInv, NEW s \in Turn, Acknowledged(s), diskRecord[s] \in Unfinished,
                      pc[s] \notin {"netTurn", "netRec", "netSess"}, ~TakenByClose(s),
                      s \notin displaced \cup overtaken
               PROVE  diskSession.active = s
    BY DEF NamedWhileUnfinished
  <2>1. UnderWay(s) /\ pc[s] \notin Locked
    BY DEF Acknowledged, UnderWay, Working, Reserving, Locked, Unfinished, Terminal
  <2> QED BY <2>1 DEF NameInv
<1> QED BY <1>1, InitInv, StepInv, InitEntry, StepEntry, InitOrder, StepOrder, InitSole, StepSole,
           InitNames, StepNames, PTL DEF Spec
=============================================================================
