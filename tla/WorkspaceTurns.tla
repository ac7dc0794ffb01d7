--------------------------- MODULE WorkspaceTurns ---------------------------
(***************************************************************************)
(* The files of the turns of one workspace (workspace-state.js): staging a *)
(* turn's inputs, moving its outputs to the archive, its history record,   *)
(* the acknowledgement of its outputs, and retention.  Every operation but *)
(* the record writes of the session manager holds the workspace lock; the  *)
(* process can be lost between any two of its steps, and an append can     *)
(* fail or tear.                                                           *)
(*                                                                         *)
(* Turns are numbered in the order they were accepted.  Progress updates   *)
(* change no file's existence and are left out.                            *)
(***************************************************************************)
EXTENDS Naturals, Sequences, FiniteSets, SequencesExt

CONSTANTS
  MaxTurn,     \* bound: turns
  Session,     \* session keys that use the workspace
  Output,      \* names of output files
  Client,      \* concurrent calls that acknowledge outputs
  Window,      \* turns of a session that the last window of work holds
  Prune,       \* the retention job in the queue of the workspace lock
  MaxFaults    \* bound: losses of the daemon, system calls that fail and appends that tear

Turn == 1..MaxTurn

ASSUME BoundIsNatural == MaxFaults \in Nat
ASSUME SizesArePositive == {MaxTurn, Window} \subseteq Nat \ {0}
ASSUME JobsAreDistinct == Client \cap Turn = {} /\ Prune \notin Client \cup Turn

Root == {"stage", "inbox", "inboxArchive", "outbox", "outboxArchive"}
Status == {"none", "pending", "delivered", "discarded"}
NoOutputs == [o \in Output |-> "none"]
NoAck == [turn |-> 1, chosen |-> {}, outs |-> NoOutputs]

VARIABLES
  owner,        \* the session of each turn
  (* disk *)
  record,       \* the status in submissions/<id>.json
  recordOuts,   \* the outputs it lists
  history,      \* the lines <<number, turn>> in the <session>.jsonl of the turns' sessions
  lines,        \* bookkeeping: lines ever appended there
  historyStatus, historyOuts,  \* the verdict and the outputs of a turn's record there
  ledger,       \* lines of io/history/events.jsonl: status, turn, output
  ledgerEnd,    \* how that file is damaged
  dirs,         \* directories of turns
  files,        \* output files of each turn
  active,       \* turns with an active file
  (* memory *)
  serving,      \* init is over
  phase,        \* the await of each turn's call
  verdict,      \* how it is going to end
  outs,         \* submission.outputs
  unlogged,     \* outputs the lock's holder has still to log
  lock,         \* the holder of the workspace lock, then the waiters
  ack, mine,    \* the await of an acknowledgement, and its copy of the record
  reported,     \* bookkeeping: outputs a client has said it delivered
  scheduled,    \* a prune is due
  pruning,      \* the await of the prune
  retained,     \* its retainedIds
  expired,      \* bookkeeping: turns whose active file a prune has removed for its age
  crashes, faults, tears

files_ == <<files, active>>
records == <<record, recordOuts>>
journal == <<history, lines, historyStatus, historyOuts>>
log == <<ledger, ledgerEnd>>
turn == <<phase, verdict, outs>>
calls == <<ack, mine, reported, serving>>
sweep == <<pruning, retained, expired>>
bounds == <<crashes, faults, tears>>
vars == <<owner, records, journal, log, dirs, files_, turn, unlogged, lock, calls,
          scheduled, sweep, bounds>>

Holds(j) == lock # <<>> /\ Head(lock) = j
Enqueue(j) == lock' = Append(lock, j)
Leave == lock' = Tail(lock)
Go(t, to) == phase' = [phase EXCEPT ![t] = to]

MayFail == crashes + faults + tears < MaxFaults
Fault == MayFail /\ faults' = faults + 1 /\ UNCHANGED <<crashes, tears>>
Tear == MayFail /\ tears' = tears + 1 /\ UNCHANGED <<crashes, faults>>

Live(t) == phase[t] \notin {"new", "done"}
Ended(t) == record[t] \in {"completed", "failed"}

Init ==
  /\ owner \in [Turn -> Session] /\ owner[1] = CHOOSE s \in Session : TRUE
  /\ record = [t \in Turn |-> "none"] /\ recordOuts = [t \in Turn |-> NoOutputs]
  /\ history = {} /\ lines = 0
  /\ historyStatus = [t \in Turn |-> "none"] /\ historyOuts = [t \in Turn |-> NoOutputs]
  /\ ledger = {} /\ ledgerEnd = "whole"
  /\ dirs = {} /\ files = [t \in Turn |-> {}] /\ active = {}
  /\ phase = [t \in Turn |-> "new"] /\ verdict = [t \in Turn |-> "failed"]
  /\ outs = [t \in Turn |-> NoOutputs] /\ unlogged = {}
  /\ lock = <<>>
  /\ ack = [c \in Client |-> "idle"]
  /\ mine = [c \in Client |-> NoAck] /\ reported = {}
  /\ serving = TRUE /\ scheduled = FALSE /\ pruning = "idle" /\ retained = {}
  /\ expired = {}
  /\ crashes = 0 /\ faults = 0 /\ tears = 0

-----------------------------------------------------------------------------
(* appendJsonl.  A line that follows a torn one is glued to it: they are one malformed *)
(* line, which stays in the file, and what follows it is whole again.  Lines that say   *)
(* neither pending nor delivered are not kept, and a torn line lacks more than its      *)
(* newline.                                                                             *)
LogLine(line) ==
  IF ledgerEnd = "torn" THEN ledgerEnd' = "malformed" /\ UNCHANGED ledger
  ELSE /\ ledger' = ledger \cup (IF line[1] \in {"pending", "delivered"} THEN {line} ELSE {})
       /\ UNCHANGED ledgerEnd

LogFails ==
  /\ \/ Fault /\ UNCHANGED ledgerEnd
     \/ Tear /\ ledgerEnd' = "torn"
  /\ UNCHANGED ledger

-----------------------------------------------------------------------------
(* startTurn *)

(* admitSubmission has written the record; the daemon serves after init, and a *)
(* session has one turn at a time.                                             *)
Submit(t) ==
  /\ phase[t] = "new"
  /\ \A u \in Turn : u < t => phase[u] # "new"
  /\ serving /\ \A u \in Turn : owner[u] = owner[t] => ~Live(u)
  /\ record' = [record EXCEPT ![t] = "accepted"]
  /\ Go(t, "copying")
  /\ Enqueue(t)
  /\ UNCHANGED <<owner, recordOuts, journal, log, dirs, files_, verdict, outs, unlogged,
                 calls, scheduled, sweep, bounds>>

(* The system calls of stageInputs, in order: what each makes, and what is next. *)
Makes == [copying |-> "stage", moving |-> "inbox", archiving |-> "inboxArchive",
          opening |-> "outbox"]
After == [copying |-> "moving", moving |-> "archiving", archiving |-> "opening",
          opening |-> "activating"]

Stage(t) ==
  /\ Holds(t) /\ phase[t] \in DOMAIN Makes
  /\ Go(t, After[phase[t]])
  /\ dirs' = (dirs \cup {<<Makes[phase[t]], t>>})
             \ (IF phase[t] = "archiving" THEN {<<"stage", t>>} ELSE {})
  /\ UNCHANGED <<owner, records, journal, log, files_, verdict, outs, unlogged, lock,
                 calls, scheduled, sweep, bounds>>

(* One of them fails, or the turn is interrupted: everything made is removed, *)
(* and the turn is finished as it would have been later.                       *)
StagingFails(t) ==
  /\ Holds(t) /\ phase[t] \in DOMAIN Makes
  /\ Fault
  /\ dirs' = dirs \ (Root \X {t})
  /\ Go(t, "ending")
  /\ Leave
  /\ UNCHANGED <<owner, records, journal, log, files_, verdict, outs, unlogged, calls,
                 scheduled, sweep>>

(* The staged inputs are logged, and the active file is written; what is staged *)
(* stays when one of them fails.                                                *)
Activate(t) ==
  /\ Holds(t) /\ phase[t] = "activating"
  /\ \/ /\ LogLine(<<"staged", t>>)
        /\ active' = active \cup {t}
        /\ Go(t, "running")
        /\ UNCHANGED bounds
     \/ /\ LogFails
        /\ Go(t, "ending")
        /\ UNCHANGED active
  /\ Leave
  /\ UNCHANGED <<owner, records, journal, dirs, files, verdict, outs, unlogged,
                 calls, scheduled, sweep>>

AgentWrites(t) ==
  /\ phase[t] = "running" /\ <<"outbox", t>> \in dirs
  /\ \E o \in Output \ files[t] : files' = [files EXCEPT ![t] = @ \cup {o}]
  /\ UNCHANGED <<owner, records, journal, log, dirs, active, turn, unlogged, lock, calls,
                 scheduled, sweep, bounds>>

-----------------------------------------------------------------------------
(* finishTurn *)

End(t) ==
  /\ phase[t] \in {"running", "ending"}
  /\ \E v \in {"completed", "failed"} :
       /\ phase[t] = "ending" => v = "failed"
       /\ verdict' = [verdict EXCEPT ![t] = v]
  /\ Go(t, "looking")
  /\ Enqueue(t)
  /\ UNCHANGED <<owner, records, journal, log, dirs, files_, outs, unlogged, calls,
                 scheduled, sweep, bounds>>

(* Mutant: the history is not searched for the turn first. *)
CollectWithoutLooking(t) ==
  /\ Holds(t) /\ phase[t] = "looking"
  /\ Go(t, "collecting")
  /\ UNCHANGED <<owner, records, journal, log, dirs, files_, verdict, outs, unlogged, lock,
                 calls, scheduled, sweep, bounds>>

InHistory(t) == \E l \in history : l[2] = t

(* repairTrailingJsonl, then the search for a record a lost process has left. *)
LookUp(t) ==
  /\ Holds(t) /\ phase[t] = "looking"
  /\ Go(t, IF InHistory(t) THEN "reusing" ELSE "collecting")
  /\ UNCHANGED <<owner, records, journal, log, dirs, files_, verdict, outs, unlogged, lock,
                 calls, scheduled, sweep, bounds>>

(* Whatever throws, finishWorkspaceTurn lets the turn end as it asked to, without *)
(* outputs, and no prune is scheduled.                                             *)
EndsBare(t) ==
  /\ outs' = [outs EXCEPT ![t] = NoOutputs]
  /\ Go(t, "recording")
  /\ Leave
  /\ UNCHANGED <<verdict, scheduled>>

(* The turn takes the verdict and the outputs of the record, whatever it asked for, *)
(* unless its active file cannot be removed.                                        *)
Reuse(t) ==
  /\ Holds(t) /\ phase[t] = "reusing"
  /\ \/ /\ active' = active \ {t}
        /\ verdict' = [verdict EXCEPT ![t] = historyStatus[t]]
        /\ outs' = [outs EXCEPT ![t] = historyOuts[t]]
        /\ Go(t, "recording")
        /\ Leave
        /\ scheduled' = TRUE
        /\ UNCHANGED bounds
     \/ Fault /\ EndsBare(t) /\ UNCHANGED active
  /\ UNCHANGED <<owner, records, journal, log, dirs, files, unlogged, calls, sweep>>

(* The outbox, made if it is gone, becomes the archive; an archive that is there *)
(* already is collected again.  A failure leaves the turn without outputs.       *)
Collect(t) ==
  /\ Holds(t) /\ phase[t] = "collecting"
  /\ \/ /\ dirs' = (dirs \cup {<<"outboxArchive", t>>})
                   \ (IF <<"outboxArchive", t>> \in dirs THEN {} ELSE {<<"outbox", t>>})
        /\ Go(t, "logging")
        /\ unlogged' = files[t]
        /\ UNCHANGED bounds
     \/ Fault /\ Go(t, "appending") /\ UNCHANGED <<dirs, unlogged>>
  /\ UNCHANGED <<owner, records, journal, log, files_, verdict, outs, lock, calls,
                 scheduled, sweep>>

Fresh(t) == IF verdict[t] = "completed" THEN "pending" ELSE "discarded"

(* A throw leaves the turn without outputs, whatever has been logged. *)
LogOutput(t) ==
  /\ Holds(t) /\ phase[t] = "logging" /\ unlogged # {}
  /\ \E o \in unlogged :
       \/ /\ LogLine(<<Fresh(t), t, o>>)
          /\ unlogged' = unlogged \ {o}
          /\ outs' = [outs EXCEPT ![t][o] = Fresh(t)]
          /\ UNCHANGED <<phase, bounds>>
       \/ /\ LogFails
          /\ unlogged' = {}
          /\ outs' = [outs EXCEPT ![t] = NoOutputs]
          /\ Go(t, "appending")
  /\ UNCHANGED <<owner, records, journal, dirs, files_, verdict, lock, calls, scheduled,
                 sweep>>

OutputsLogged(t) ==
  /\ Holds(t) /\ phase[t] = "logging" /\ unlogged = {}
  /\ Go(t, "appending")
  /\ UNCHANGED <<owner, records, journal, log, dirs, files_, verdict, outs, unlogged, lock,
                 calls, scheduled, sweep, bounds>>

Appended(t) ==
  /\ history' = history \cup {<<lines + 1, t>>} /\ lines' = lines + 1
  /\ historyStatus' = [historyStatus EXCEPT ![t] = verdict[t]]
  /\ historyOuts' = [historyOuts EXCEPT ![t] = outs[t]]

(* The record.  repairTrailingJsonl has cut a torn line off and ended one that lacks *)
(* only its newline, which is a record as well.                                       *)
AppendHistory(t) ==
  /\ Holds(t) /\ phase[t] = "appending"
  /\ \/ /\ Appended(t)
        /\ Go(t, "retiring")
        /\ UNCHANGED <<verdict, outs, lock, scheduled, bounds>>
     \/ /\ \/ (Fault \/ Tear) /\ UNCHANGED journal
           \/ Tear /\ Appended(t)
        /\ EndsBare(t)
  /\ UNCHANGED <<owner, records, log, dirs, files_, unlogged, calls, sweep>>

Retire(t) ==
  /\ Holds(t) /\ phase[t] = "retiring"
  /\ \/ /\ active' = active \ {t}
        /\ Go(t, "clearing")
        /\ UNCHANGED <<verdict, outs, lock, scheduled, bounds>>
     \/ Fault /\ EndsBare(t) /\ UNCHANGED active
  /\ UNCHANGED <<owner, records, journal, log, dirs, files, unlogged, calls, sweep>>

ClearInbox(t) ==
  /\ Holds(t) /\ phase[t] = "clearing"
  /\ \/ /\ dirs' = dirs \ {<<"inbox", t>>}
        /\ Go(t, "recording")
        /\ Leave
        /\ scheduled' = TRUE
        /\ UNCHANGED <<verdict, outs, bounds>>
     \/ Fault /\ EndsBare(t) /\ UNCHANGED dirs
  /\ UNCHANGED <<owner, records, journal, log, files_, unlogged, calls, sweep>>

(* persistSubmission of the session manager, outside the lock. *)
Record(t) ==
  /\ phase[t] = "recording"
  /\ record' = [record EXCEPT ![t] = verdict[t]]
  /\ recordOuts' = [recordOuts EXCEPT ![t] = outs[t]]
  /\ Go(t, "done")
  /\ verdict' = [verdict EXCEPT ![t] = "failed"] /\ outs' = [outs EXCEPT ![t] = NoOutputs]
  /\ UNCHANGED <<owner, journal, log, dirs, files_, unlogged, lock, calls, scheduled,
                 sweep, bounds>>

-----------------------------------------------------------------------------
(* acknowledgeOutputs *)

(* The record is read before the lock is asked for. *)
AckReads(c) ==
  /\ serving /\ ack[c] = "idle"
  /\ \E t \in Turn, chosen \in SUBSET Output \ {{}} :
       /\ Ended(t)
       /\ mine' = [mine EXCEPT ![c] = [turn |-> t, chosen |-> chosen, outs |-> recordOuts[t]]]
       /\ reported' = reported \cup ({t} \X chosen)
  /\ ack' = [ack EXCEPT ![c] = "logging"]
  /\ Enqueue(c)
  /\ UNCHANGED <<owner, records, journal, log, dirs, files_, turn, unlogged, serving,
                 scheduled, sweep, bounds>>

Undelivered(c) == {o \in mine[c].chosen : mine[c].outs[o] = "pending"}

(* Mutant: an acknowledgement that throws keeps the lock. *)
AckKeepsLock(c) ==
  /\ Holds(c) /\ ack[c] = "logging"
  /\ \E o \in Undelivered(c) :
       \/ /\ LogLine(<<"delivered", mine[c].turn, o>>)
          /\ mine' = [mine EXCEPT ![c].outs[o] = "delivered"]
          /\ UNCHANGED <<ack, bounds>>
       \/ /\ LogFails
          /\ ack' = [ack EXCEPT ![c] = "idle"]
          /\ mine' = [mine EXCEPT ![c] = NoAck]
  /\ UNCHANGED <<owner, records, journal, dirs, files_, turn, unlogged, lock,
                 reported, serving, scheduled, sweep>>

(* Mutant: the delivery is not logged. *)
AckSilently(c) ==
  /\ Holds(c) /\ ack[c] = "logging"
  /\ \E o \in Undelivered(c) : mine' = [mine EXCEPT ![c].outs[o] = "delivered"]
  /\ UNCHANGED <<owner, records, journal, log, dirs, files_, turn, unlogged, lock, ack,
                 reported, serving, scheduled, sweep, bounds>>

AckLogs(c) ==
  /\ Holds(c) /\ ack[c] = "logging"
  /\ \E o \in Undelivered(c) :
       \/ /\ LogLine(<<"delivered", mine[c].turn, o>>)
          /\ mine' = [mine EXCEPT ![c].outs[o] = "delivered"]
          /\ UNCHANGED <<ack, lock, bounds>>
       \/ /\ LogFails
          /\ ack' = [ack EXCEPT ![c] = "idle"]
          /\ mine' = [mine EXCEPT ![c] = NoAck]
          /\ Leave
  /\ UNCHANGED <<owner, records, journal, dirs, files_, turn, unlogged, reported, serving,
                 scheduled, sweep>>

AckLogged(c) ==
  /\ Holds(c) /\ ack[c] = "logging" /\ Undelivered(c) = {}
  /\ ack' = [ack EXCEPT ![c] = "persisting"]
  /\ Leave
  /\ UNCHANGED <<owner, records, journal, log, dirs, files_, turn, unlogged, mine,
                 reported, serving, scheduled, sweep, bounds>>

(* The whole record is written back from the copy. *)
AckPersists(c) ==
  /\ ack[c] = "persisting"
  /\ recordOuts' = [recordOuts EXCEPT ![mine[c].turn] = mine[c].outs]
  /\ ack' = [ack EXCEPT ![c] = "idle"]
  /\ mine' = [mine EXCEPT ![c] = NoAck]
  /\ UNCHANGED <<owner, record, journal, log, dirs, files_, turn, unlogged, lock,
                 reported, serving, scheduled, sweep, bounds>>

-----------------------------------------------------------------------------
(* prune *)

(* The timer of schedulePrune. *)
PruneDue ==
  /\ scheduled /\ pruning = "idle"
  /\ pruning' = "reading"
  /\ Enqueue(Prune)
  /\ UNCHANGED <<owner, records, journal, log, dirs, files_, turn, unlogged, calls,
                 scheduled, retained, expired, bounds>>

Pending == {l \in ledger : l[1] = "pending" /\ <<"delivered", l[2], l[3]>> \notin ledger}

(* A damaged ledger says nothing about what is still to be delivered. *)
PruneReads ==
  /\ Holds(Prune) /\ pruning = "reading"
  /\ retained' = IF ledgerEnd = "whole" THEN {l[2] : l \in Pending} ELSE {}
  /\ pruning' = "history"
  /\ UNCHANGED <<owner, records, journal, log, dirs, files_, turn, unlogged, lock, calls,
                 scheduled, expired, bounds>>

(* The last window of work of each session, whose computation from the times of *)
(* the turns is replaced by a number of turns.                                   *)
Recent ==
  LET Later(l) == {m \in history : m[1] > l[1] /\ owner[m[2]] = owner[l[2]]}
  IN  {t \in Turn : \E l \in history : l[2] = t /\ Cardinality(Later(l)) < Window}

(* Mutant: only the last window of work keeps a turn. *)
KeepsRecent(t) == t \in Recent
Keeps(t) == t \in Recent \cup retained

(* Each history file keeps its recent turns and those with pending outputs, which *)
(* with the active ones are the turns that are referenced.                        *)
PruneHistory ==
  /\ Holds(Prune) /\ pruning = "history"
  /\ history' = {l \in history : Keeps(l[2])}
  /\ retained' = retained \cup {l[2] : l \in history'}
  /\ pruning' = "active"
  /\ UNCHANGED <<owner, records, lines, historyStatus, historyOuts, log, dirs, files_, turn,
                 unlogged, lock, calls, scheduled, expired, bounds>>

(* Mutant: the turns that are still at work are forgotten. *)
PruneForgetsActive ==
  /\ Holds(Prune) /\ pruning = "active"
  /\ pruning' = "ledger"
  /\ UNCHANGED <<owner, records, journal, log, dirs, files_, turn, unlogged, lock, calls,
                 scheduled, retained, expired, bounds>>

(* An active file that has not been written for seven days is removed: one that a *)
(* finished turn left behind, or that of a turn at work which shows no progress.   *)
PruneActive ==
  /\ Holds(Prune) /\ pruning = "active"
  /\ \E old \in SUBSET active : active' = active \ old /\ expired' = expired \cup old
  /\ retained' = retained \cup active'
  /\ pruning' = "ledger"
  /\ UNCHANGED <<owner, records, journal, log, dirs, files, turn, unlogged, lock, calls,
                 scheduled, bounds>>

PruneLedger ==
  /\ Holds(Prune) /\ pruning = "ledger"
  /\ ledger' = {l \in ledger : l[2] \in retained}
  /\ ledgerEnd' = "whole"
  /\ pruning' = "dirs"
  /\ UNCHANGED <<owner, records, journal, dirs, files_, turn, unlogged, lock, calls,
                 scheduled, retained, expired, bounds>>

(* A stage directory has a name of its own, which nothing retains. *)
Unreferenced == {d \in dirs : d[2] \notin retained \/ d[1] = "stage"}

PruneRemoves ==
  /\ Holds(Prune) /\ pruning = "dirs"
  /\ \E d \in Unreferenced :
       /\ dirs' = dirs \ {d}
       /\ files' = IF d[1] \in {"outbox", "outboxArchive"} THEN [files EXCEPT ![d[2]] = {}]
                   ELSE files
  /\ UNCHANGED <<owner, records, journal, log, active, turn, unlogged, lock, calls,
                 scheduled, sweep, bounds>>

PruneEnds ==
  /\ Holds(Prune) /\ pruning = "dirs" /\ Unreferenced = {}
  /\ pruning' = "idle" /\ retained' = {} /\ scheduled' = FALSE
  /\ Leave
  /\ UNCHANGED <<owner, records, journal, log, dirs, files_, turn, unlogged, calls,
                 expired, bounds>>

-----------------------------------------------------------------------------
(* Loss of the daemon, and init *)

Unfinished(t) == record[t] = "accepted"

Crash ==
  /\ MayFail
  /\ crashes' = crashes + 1
  /\ phase' = [t \in Turn |-> IF record[t] = "none" THEN "new"
                              ELSE IF Unfinished(t) THEN "recovering" ELSE "done"]
  /\ outs' = [t \in Turn |-> NoOutputs] /\ unlogged' = {}
  /\ lock' = <<>>
  /\ ack' = [c \in Client |-> "idle"] /\ mine' = [c \in Client |-> NoAck]
  /\ serving' = FALSE /\ scheduled' = FALSE /\ pruning' = "idle" /\ retained' = {}
  /\ verdict' = [t \in Turn |-> "failed"]
  /\ UNCHANGED <<owner, records, journal, log, dirs, files_, reported, expired, faults,
                 tears>>

(* One session after another. *)
Recover(t) ==
  /\ phase[t] = "recovering"
  /\ \A u \in Turn : phase[u] \in {"new", "recovering", "done"}
  /\ Go(t, "looking")
  /\ Enqueue(t)
  /\ UNCHANGED <<owner, records, journal, log, dirs, files_, verdict, outs, unlogged, calls,
                 scheduled, sweep, bounds>>

Serve ==
  /\ ~serving /\ \A t \in Turn : phase[t] \in {"new", "done"}
  /\ serving' = TRUE
  /\ UNCHANGED <<owner, records, journal, log, dirs, files_, turn, unlogged, lock, ack, mine,
                 reported, scheduled, sweep, bounds>>

-----------------------------------------------------------------------------
FinishTurn(t) ==
  \/ LookUp(t) \/ Reuse(t) \/ Collect(t) \/ LogOutput(t) \/ OutputsLogged(t)
  \/ AppendHistory(t) \/ Retire(t) \/ ClearInbox(t)
TurnSteps(t) ==
  \/ Stage(t) \/ StagingFails(t) \/ Activate(t) \/ End(t) \/ FinishTurn(t)
  \/ Record(t) \/ Recover(t)
AckSteps(c) == AckLogs(c) \/ AckLogged(c) \/ AckPersists(c)
PruneSteps ==
  \/ PruneDue \/ PruneReads \/ PruneHistory \/ PruneActive \/ PruneLedger
  \/ PruneRemoves \/ PruneEnds

Next ==
  \/ \E t \in Turn : Submit(t) \/ AgentWrites(t) \/ TurnSteps(t)
  \/ \E c \in Client : AckReads(c) \/ AckSteps(c)
  \/ PruneSteps
  \/ Crash \/ Serve

Spec == Init /\ [][Next]_vars

(* Calls go on while the daemon runs, a turn ends (TurnsAreAnswered of          *)
(* SessionManager), and the prune timer fires.                                  *)
FairSpec ==
  /\ Spec
  /\ \A t \in Turn : WF_vars(TurnSteps(t))
  /\ \A c \in Client : WF_vars(AckSteps(c))
  /\ WF_vars(PruneSteps)

-----------------------------------------------------------------------------
InLock == {"copying", "moving", "archiving", "opening", "activating", "looking", "reusing",
           "collecting", "logging", "appending", "retiring", "clearing"}

TypeOK ==
  /\ owner \in [Turn -> Session]
  /\ record \in [Turn -> {"none", "accepted", "completed", "failed"}]
  /\ {recordOuts, historyOuts, outs} \subseteq [Turn -> [Output -> Status]]
  /\ history \subseteq (1..lines) \X Turn /\ lines \in Nat
  /\ historyStatus \in [Turn -> {"none", "completed", "failed"}]
  /\ ledgerEnd \in {"whole", "torn", "malformed"}
  /\ dirs \subseteq Root \X Turn
  /\ files \in [Turn -> SUBSET Output] /\ {active, expired} \subseteq SUBSET Turn
  /\ phase \in [Turn -> InLock \cup {"new", "running", "ending", "recording", "recovering", "done"}]
  /\ serving \in BOOLEAN
  /\ ack \in [Client -> {"idle", "logging", "persisting"}]
  /\ pruning \in {"idle", "reading", "history", "active", "ledger", "dirs"}
  /\ IsInjective(lock)
  /\ ToSet(lock) = {t \in Turn : phase[t] \in InLock} \cup {c \in Client : ack[c] = "logging"}
                   \cup {j \in {Prune} : pruning # "idle"}

(* A turn is in its session's history at most once, whatever is lost or torn   *)
(* between the append and the record (finishTurn).                             *)
OneRecordPerTurn == \A l, m \in history : l[2] = m[2] => l = m

(* Retention, started by another turn of the workspace, takes nothing from a    *)
(* turn that is at work, unless its active file is too old (prune, startTurn).  *)
LiveTurnsAreSpared ==
  \A t \in Turn : phase[t] = "running" /\ t \notin expired =>
    t \in active /\ {"inbox", "inboxArchive", "outbox"} \X {t} \subseteq dirs

(* An output that is listed as pending and that nobody has said to be delivered  *)
(* is in the archive, and its turn is in the history, however old (collectOutputs, *)
(* acknowledgeOutputs, prune).                                                   *)
PendingIsKept ==
  \A t \in Turn, o \in Output :
    Ended(t) /\ recordOuts[t][o] = "pending" /\ <<t, o>> \notin reported =>
      /\ <<"outboxArchive", t>> \in dirs /\ o \in files[t]
      /\ InHistory(t)

(* The same while every line of the ledger is whole. *)
PendingIsKeptUnlessTorn == tears = 0 => PendingIsKept

(* What a record lists as delivered no longer keeps its turn from ageing out, as *)
(* long as the ledger's lines are whole (acknowledgeOutputs, prune).             *)
DeliveredIsLetGo ==
  \A t \in Turn, o \in Output :
    tears = 0 /\ recordOuts[t][o] = "delivered" => <<"pending", t, o>> \notin Pending

(* An output that is listed as delivered never becomes pending again, as long as *)
(* acknowledgements come one at a time (acknowledgeOutputs, init).               *)
DeliveredStaysDelivered ==
  [][\A t \in Turn, o \in Output :
       recordOuts[t][o] = "delivered" => recordOuts'[t][o] = "delivered"]_vars

(* Every turn gets through the workspace lock, whoever throws inside it or is    *)
(* lost with it (withWorkspaceLock).                                             *)
TurnsSettle == \A t \in Turn : Live(t) ~> ~Live(t)
=============================================================================
