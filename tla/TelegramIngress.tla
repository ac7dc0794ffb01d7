--------------------------- MODULE TelegramIngress ---------------------------
(***************************************************************************)
(* One chat of the Telegram adapter: an accepted update is saved in the    *)
(* queue directory, waits in a burst with what arrives together with it,   *)
(* runs on the route's chain as one turn, and its file is removed when the *)
(* user has been answered.  /stop runs at once, /reset is prepared at once *)
(* and runs on the chain.  The daemon knows the turns of the route's       *)
(* session by their idempotency keys.                                      *)
(*                                                                         *)
(* Updates are numbered in the order they were sent.  Actions end at       *)
(* awaits, as Node runs them.                                              *)
(***************************************************************************)
EXTENDS Naturals, Sequences, FiniteSets, Functions

CONSTANTS
  MaxUpdate,      \* bound: updates the user sends
  MaxCommands,    \* bound: commands among them
  MaxAttempts,    \* failures nobody was told of before an update waits for a restart
  MaxCrashes,     \* bound: times the adapter is lost
  MaxErrors,      \* bound: operations that throw
  MaxUnreported,  \* bound: reports of a failure that cannot be sent
  MaxWriteFaults, \* bound: failed writes of a queue file or the offset
  MaxFaults       \* bound: all of these together

ASSUME BoundsAreNatural ==
  /\ {MaxCommands, MaxCrashes, MaxErrors, MaxUnreported, MaxWriteFaults,
      MaxFaults} \subseteq Nat
  /\ {MaxUpdate, MaxAttempts} \subseteq Nat \ {0}

Update == 1..MaxUpdate
Kind == {"text", "stop", "reset"}

VARIABLES
  kind,        \* what each update is
  joining,     \* whether the debounce is on
  confirmed,   \* the server has forgotten the updates before this one
  (* disk *)
  queue,       \* updates with a file in the queue directory
  diskOffset,  \* offset.json
  (* memory of the adapter *)
  loop,        \* the await of init's replay or of the polling loop
  offset,      \* the next update to ask for
  batch,       \* updates read and not yet dispatched
  inflight,    \* inflightUpdates
  ordinal,     \* the place of an update among the route's dispatches
  burst,       \* the parts that wait for the quiet period
  chain,       \* the parts of the running job, then of those behind it
  head,        \* the await of the running job
  cancelled,   \* whether its operation was cancelled
  turn,        \* the turn it has submitted, or 0
  left,        \* files the running job has still to remove
  command,     \* the await of a command outside the chain
  dropped,     \* parts a /stop has taken from the burst
  barriers,    \* pendingBarriers
  attempts,    \* retryCounts, by primary part
  timers,      \* parts to be dispatched again
  (* the daemon's session *)
  turns,       \* the parts of every turn it has accepted
  prior,       \* the session's idempotency map: a turn, or 0
  running,     \* the turn under way, or 0
  (* bookkeeping *)
  told,        \* updates the user has had an answer to
  unsaid,      \* updates let go of without a word, for it could not be sent
  discarded,   \* parts a /stop has let go of, until it answers
  forgone,     \* updates that wait for a restart
  stopped,     \* turns the daemon was asked to interrupt
  crashes, errors, unreported, writeFaults

constants == <<kind, joining>>
disk == <<queue, diskOffset>>
source == <<loop, offset, batch>>
dispatched == <<inflight, ordinal, burst>>
job == <<chain, head, cancelled, turn, left>>
commands == <<command, dropped, barriers>>
retries == <<attempts, timers, forgone>>
daemon == <<turns, prior, running, stopped>>
answers == <<told, unsaid, discarded>>
faults == <<crashes, errors, unreported, writeFaults>>
vars == <<constants, confirmed, disk, source, dispatched, job, commands, retries,
          daemon, answers, faults>>

MayFail == crashes + errors + unreported + writeFaults < MaxFaults
Fails == MayFail /\ errors < MaxErrors /\ errors' = errors + 1

Parts == Head(chain)
Primary == Head(Parts)
Text(u) == kind[u] = "text"

Init ==
  /\ kind \in [Update -> Kind] /\ joining \in BOOLEAN
  /\ Cardinality({u \in Update : ~Text(u)}) <= MaxCommands
  /\ confirmed = 1
  /\ queue = {} /\ diskOffset = 1
  /\ loop = "poll" /\ offset = 1 /\ batch = {}
  /\ inflight = {} /\ ordinal = [u \in Update |-> 0] /\ burst = <<>>
  /\ chain = <<>> /\ head = "idle" /\ cancelled = FALSE /\ turn = 0 /\ left = <<>>
  /\ command = [u \in Update |-> "none"] /\ dropped = [u \in Update |-> <<>>]
  /\ barriers = {}
  /\ attempts = [u \in Update |-> 0] /\ timers = {} /\ forgone = {}
  /\ turns = <<>> /\ prior = [u \in Update |-> 0] /\ running = 0 /\ stopped = {}
  /\ told = {} /\ unsaid = {} /\ discarded = [u \in Update |-> {}]
  /\ crashes = 0 /\ errors = 0 /\ unreported = 0 /\ writeFaults = 0

-----------------------------------------------------------------------------
(* dispatch *)

Dispatches == 1 + CHOOSE n \in Range(ordinal) : \A m \in Range(ordinal) : m <= n

(* flushBurst: what was buffered goes ahead of what comes now. *)
Flushed == IF burst = <<>> THEN chain ELSE Append(chain, burst)

DispatchText(u) ==
  /\ IF joining THEN burst' = Append(burst, u) /\ UNCHANGED chain
     ELSE chain' = Append(chain, <<u>>) /\ UNCHANGED burst
  /\ UNCHANGED <<command, dropped>>

(* /stop does not wait; it takes the burst away. *)
DispatchStop(u) ==
  /\ command' = [command EXCEPT ![u] = "discarding"]
  /\ dropped' = [dropped EXCEPT ![u] = burst]
  /\ burst' = <<>>
  /\ UNCHANGED chain

DispatchReset(u) ==
  /\ command' = [command EXCEPT ![u] = "preparing"]
  /\ chain' = Append(Flushed, <<u>>)
  /\ burst' = <<>>
  /\ UNCHANGED dropped

(* Mutant: what is in flight is dispatched again. *)
DispatchAgain(u) ==
  /\ inflight' = inflight \cup {u}
  /\ ordinal' = [ordinal EXCEPT ![u] = Dispatches]
  /\ \/ Text(u) /\ DispatchText(u)
     \/ kind[u] = "stop" /\ DispatchStop(u)
     \/ kind[u] = "reset" /\ DispatchReset(u)

Dispatch(u) ==
  IF u \in inflight THEN UNCHANGED <<dispatched, chain, command, dropped>>
  ELSE /\ inflight' = inflight \cup {u}
       /\ ordinal' = [ordinal EXCEPT ![u] = Dispatches]
       /\ \/ Text(u) /\ DispatchText(u)
          \/ kind[u] = "stop" /\ DispatchStop(u)
          \/ kind[u] = "reset" /\ DispatchReset(u)

(* The quiet period, the longest wait or the part limit is over. *)
FlushBurst ==
  /\ burst # <<>>
  /\ chain' = Flushed
  /\ burst' = <<>>
  /\ UNCHANGED <<constants, confirmed, disk, source, inflight, ordinal, head, cancelled,
                 turn, left, commands, retries, daemon, answers, faults>>

-----------------------------------------------------------------------------
(* run and acceptUpdate *)

(* Mutant: the files of the queue directory come in any order. *)
Latest(b) == CHOOSE u \in b : \A v \in b : v <= u

Earliest(b) == CHOOSE u \in b : \A v \in b : u <= v

(* getUpdates confirms everything before the offset, and answers with some of *)
(* the first of what users have sent.                                          *)
Poll ==
  /\ loop = "poll"
  /\ confirmed' = IF offset > confirmed THEN offset ELSE confirmed
  /\ \E newest \in confirmed'..MaxUpdate : batch' = confirmed'..newest
  /\ loop' = "saving"
  /\ UNCHANGED <<constants, disk, offset, dispatched, job, commands, retries,
                 daemon, answers, faults>>

WriteFault == MayFail /\ writeFaults < MaxWriteFaults /\ writeFaults' = writeFaults + 1

(* The queue file first, then the offset.  When the file cannot be written  *)
(* the rest of the answer is asked for again.                               *)
SaveUpdate ==
  /\ loop = "saving"
  /\ \/ /\ queue' = queue \cup {Earliest(batch)}
        /\ offset' = IF Earliest(batch) + 1 > offset THEN Earliest(batch) + 1 ELSE offset
        /\ loop' = "advancing"
        /\ UNCHANGED <<batch, writeFaults>>
     \/ /\ WriteFault
        /\ loop' = "poll" /\ batch' = {}
        /\ UNCHANGED <<queue, offset>>
  /\ UNCHANGED <<constants, confirmed, diskOffset, dispatched, job, commands, retries,
                 daemon, answers, crashes, errors, unreported>>

(* A failed offset write does not hold the update back. *)
SaveOffset ==
  /\ loop = "advancing"
  /\ \/ diskOffset' = offset /\ UNCHANGED writeFaults
     \/ WriteFault /\ UNCHANGED diskOffset
  /\ Dispatch(Earliest(batch))
  /\ batch' = batch \ {Earliest(batch)}
  /\ loop' = IF batch' = {} THEN "poll" ELSE "saving"
  /\ UNCHANGED <<constants, confirmed, queue, offset, head, cancelled, turn, left, barriers,
                 retries, daemon, answers, crashes, errors, unreported>>

-----------------------------------------------------------------------------
(* The running job, until it has submitted its turn: handleOrdinary. *)

Operating ==
  head \in {"preparing", "posting", "posted", "interrupting", "announcing", "waiting"}

(* Mutant: the files are removed before the operation has run. *)
StartJobSettled ==
  /\ head = "idle" /\ chain # <<>>
  /\ cancelled' = (Text(Primary) /\ \E b \in barriers : ordinal[b] > ordinal[Primary])
  /\ head' = IF Text(Primary) THEN "preparing" ELSE "barrier"
  /\ queue' = queue \ Range(Parts)
  /\ UNCHANGED <<constants, confirmed, diskOffset, source, dispatched, chain, turn, left,
                 commands, retries, daemon, answers, faults>>

(* An operation begins cancelled when a later /reset is already pending. *)
StartJob ==
  /\ head = "idle" /\ chain # <<>>
  /\ cancelled' = (Text(Primary) /\ \E b \in barriers : ordinal[b] > ordinal[Primary])
  /\ head' = IF Text(Primary) THEN "preparing" ELSE "barrier"
  /\ UNCHANGED <<constants, confirmed, disk, source, dispatched, chain, turn, left, commands,
                 retries, daemon, answers, faults>>

(* The operation is over and the user has been told: the files may go. *)
Settle(parts) == head' = "settling" /\ left' = parts
Answer(parts) ==
  Settle(parts) /\ told' = told \cup Range(parts) /\ UNCHANGED <<unsaid, discarded>>

(* "Set aside", "Interrupted." and what a login needs are sent without looking   *)
(* whether they arrive, and the files go all the same.                           *)
LastWord(parts) ==
  \/ Answer(parts) /\ UNCHANGED errors
  \/ /\ Fails /\ Settle(parts)
     /\ unsaid' = unsaid \cup Range(parts) /\ UNCHANGED <<told, discarded>>

(* Project, session, downloads; or the session needs attention or a login. *)
Prepare ==
  /\ head = "preparing"
  /\ \/ ~cancelled /\ head' = "posting" /\ UNCHANGED <<left, answers, errors>>
     \/ LastWord(Parts)
  /\ UNCHANGED <<constants, confirmed, disk, source, dispatched, chain, cancelled, turn,
                 commands, retries, daemon, crashes, unreported, writeFaults>>

(* Mutant: the daemon does not look at the idempotency key. *)
PostWithoutKey ==
  /\ head = "posting"
  /\ IF running # 0
     THEN Answer(Parts) /\ UNCHANGED <<turn, turns, prior, running>>
     ELSE /\ turns' = Append(turns, Parts)
          /\ turn' = Len(turns')
          /\ running' = turn'
          /\ prior' = [prior EXCEPT ![Primary] = turn']
          /\ head' = "posted"
          /\ UNCHANGED <<left, answers>>
  /\ UNCHANGED <<constants, confirmed, disk, source, dispatched, chain, cancelled,
                 commands, retries, stopped, faults>>

(* The submission reaches the daemon: under the key of the first part it is  *)
(* a turn that is there already, a refusal, or a new turn with every part.   *)
Post ==
  /\ head = "posting"
  /\ \/ /\ prior[Primary] # 0
        /\ turn' = prior[Primary]
        /\ head' = "posted"
        /\ UNCHANGED <<turns, prior, running, left, answers>>
     \/ /\ prior[Primary] = 0 /\ running # 0
        /\ Answer(Parts)
        /\ UNCHANGED <<turn, turns, prior, running>>
     \/ /\ prior[Primary] = 0 /\ running = 0
        /\ turns' = Append(turns, Parts)
        /\ turn' = Len(turns')
        /\ running' = turn'
        /\ prior' = [prior EXCEPT ![Primary] = turn']
        /\ head' = "posted"
        /\ UNCHANGED <<left, answers>>
  /\ UNCHANGED <<constants, confirmed, disk, source, dispatched, chain, cancelled,
                 commands, retries, stopped, faults>>

(* Mutant: what was cancelled while the submission was on its way goes on. *)
AcceptedWithoutInterrupt ==
  /\ head = "posted"
  /\ IF cancelled THEN Answer(Parts) ELSE head' = "announcing" /\ UNCHANGED <<left, answers>>
  /\ UNCHANGED <<constants, confirmed, disk, source, dispatched, chain, cancelled, turn,
                 commands, retries, daemon, faults>>

(* The answer names the submission: an operation that was cancelled meanwhile *)
(* interrupts it.                                                             *)
Accepted ==
  /\ head = "posted"
  /\ head' = IF cancelled THEN "interrupting" ELSE "announcing"
  /\ UNCHANGED <<constants, confirmed, disk, source, dispatched, chain, cancelled, turn,
                 left, commands, retries, daemon, answers, faults>>

(* The daemon's interrupt: whatever turn the session has. *)
InterruptSession ==
  stopped' = IF running = 0 THEN stopped ELSE stopped \cup {running}

InterruptOwn ==
  /\ head = "interrupting"
  /\ InterruptSession
  /\ LastWord(Parts)
  /\ UNCHANGED <<constants, confirmed, disk, source, dispatched, chain, cancelled, turn,
                 commands, retries, turns, prior, running, crashes, unreported, writeFaults>>

(* The typing action; from here on the operation does not look whether it was  *)
(* cancelled until its turn is over.                                           *)
Announce ==
  /\ head = "announcing"
  /\ IF cancelled THEN LastWord(Parts) ELSE head' = "waiting" /\ UNCHANGED <<left, answers, errors>>
  /\ UNCHANGED <<constants, confirmed, disk, source, dispatched, chain, cancelled, turn,
                 commands, retries, daemon, crashes, unreported, writeFaults>>

(* waitSubmission polls until the turn is over; the reply, or the word that it *)
(* was interrupted, is sent: an answer to the parts the turn was made of.       *)
Deliver ==
  /\ head = "waiting" /\ running # turn
  /\ Settle(Parts)
  /\ \/ told' = told \cup Range(turns[turn]) /\ UNCHANGED <<unsaid, errors>>
     \/ cancelled /\ Fails /\ unsaid' = unsaid \cup Range(turns[turn]) /\ UNCHANGED told
  /\ UNCHANGED <<constants, confirmed, disk, source, dispatched, chain, cancelled, turn, discarded,
                 commands, retries, daemon, crashes, unreported, writeFaults>>

TurnEnds ==
  /\ running # 0
  /\ running' = 0
  /\ UNCHANGED <<constants, confirmed, disk, source, dispatched, job, commands, retries,
                 turns, prior, stopped, answers, faults>>

-----------------------------------------------------------------------------
(* /reset on the chain *)

(* The job awaits its preparation, which may have thrown; a session with an      *)
(* attached human is kept.                                                       *)
BeginReset ==
  /\ head = "barrier"
  /\ \/ command[Primary] = "refused" /\ Answer(Parts)
     \/ command[Primary] = "prepared" /\ head' = "closing" /\ UNCHANGED <<left, answers>>
     \/ command[Primary] = "threw" /\ head' = "failed" /\ UNCHANGED <<left, answers>>
  /\ UNCHANGED <<constants, confirmed, disk, source, dispatched, chain, cancelled, turn,
                 commands, retries, daemon, faults>>

(* settleSession gives the turn ten seconds, then the session is closed, and    *)
(* the next one under its key has an empty idempotency map; or a human has       *)
(* attached meanwhile, and it is kept.                                           *)
CloseSession ==
  /\ head = "closing"
  /\ \/ running' = 0 /\ prior' = [u \in Update |-> 0]
     \/ UNCHANGED <<running, prior>>
  /\ barriers' = barriers \ {Primary}
  /\ Answer(Parts)
  /\ UNCHANGED <<constants, confirmed, disk, source, dispatched, chain, cancelled, turn,
                 command, dropped, retries, turns, stopped, faults>>

-----------------------------------------------------------------------------
(* runParts *)

RemoveFile ==
  /\ head = "settling" /\ left # <<>>
  /\ queue' = queue \ {Head(left)}
  /\ left' = Tail(left)
  /\ UNCHANGED <<constants, confirmed, diskOffset, source, dispatched, chain, head, cancelled,
                 turn, commands, retries, daemon, answers, faults>>

(* Mutant: parts that failed are still taken to be in flight. *)
LeaveChainInflight ==
  /\ chain' = Tail(chain)
  /\ head' = "idle" /\ cancelled' = FALSE /\ turn' = 0 /\ left' = <<>>
  /\ UNCHANGED inflight
  /\ command' = [u \in Update |-> IF u \in Range(Parts) THEN "none" ELSE command[u]]

LeaveChain ==
  /\ chain' = Tail(chain)
  /\ head' = "idle" /\ cancelled' = FALSE /\ turn' = 0 /\ left' = <<>>
  /\ inflight' = inflight \ Range(Parts)
  /\ command' = [u \in Update |-> IF u \in Range(Parts) THEN "none" ELSE command[u]]

FinishJob ==
  /\ head = "settling" /\ left = <<>>
  /\ attempts' = [attempts EXCEPT ![Primary] = 0]
  /\ LeaveChain
  /\ UNCHANGED <<constants, confirmed, disk, source, ordinal, burst, dropped, barriers,
                 timers, forgone, daemon, answers, faults>>

(* Anything the operation awaits may throw; a lost answer of the daemon does, *)
(* and so does a reply that cannot be sent.                                   *)
Throw ==
  /\ head \in {"preparing", "posting", "posted", "interrupting", "announcing", "waiting", "closing"}
  /\ Fails
  /\ head' = "failed"
  /\ barriers' = barriers \ Range(Parts)
  /\ UNCHANGED <<constants, confirmed, disk, source, dispatched, chain, cancelled, turn, left,
                 command, dropped, retries, daemon, answers, crashes, unreported, writeFaults>>

(* The update is dispatched again later, or left for a restart. *)
CountAttempt(parts) ==
  LET n == attempts[Head(parts)] + 1
  IN  /\ attempts' = [attempts EXCEPT ![Head(parts)] = n]
      /\ timers' = IF n < MaxAttempts THEN timers \cup {parts} ELSE timers
      /\ forgone' = IF n < MaxAttempts THEN forgone ELSE forgone \cup Range(parts)

ReportFailure ==
  /\ head = "failed"
  /\ \/ /\ Answer(Parts)
        /\ UNCHANGED <<inflight, chain, cancelled, turn, command, retries, unreported>>
     \/ /\ MayFail /\ unreported < MaxUnreported
        /\ unreported' = unreported + 1
        /\ CountAttempt(Parts)
        /\ LeaveChain
        /\ UNCHANGED answers
  /\ UNCHANGED <<constants, confirmed, disk, source, ordinal, burst, dropped, barriers,
                 daemon, crashes, errors, writeFaults>>

(* The parts that are not in flight, in their order: there is one such sequence. *)
Again(parts) ==
  LET missing == Range(parts) \ inflight
  IN  {again \in [1..Cardinality(missing) -> missing] :
         \A i, j \in DOMAIN again : i < j =>
           \E m, n \in DOMAIN parts : m < n /\ parts[m] = again[i] /\ parts[n] = again[j]}

(* The parts are dispatched one after another, in one step. *)
Retry(parts) ==
  /\ parts \in timers
  /\ timers' = timers \ {parts}
  /\ IF Len(parts) = 1 THEN Dispatch(Head(parts))
     ELSE \E again \in Again(parts) :
            /\ inflight' = inflight \cup Range(again)
            /\ ordinal' = [u \in Update |->
                 IF u \in Range(again)
                 THEN Dispatches + (CHOOSE n \in DOMAIN again : again[n] = u) - 1
                 ELSE ordinal[u]]
            /\ burst' = burst \o again
            /\ UNCHANGED <<chain, command, dropped>>
  /\ UNCHANGED <<constants, confirmed, disk, source, head, cancelled, turn, left, barriers,
                 attempts, forgone, daemon, answers, faults>>

-----------------------------------------------------------------------------
(* Commands outside the chain *)

At(u, from, to) == command[u] = from /\ command' = [command EXCEPT ![u] = to]

(* discardBurst *)
Discard(u) ==
  /\ dropped[u] # <<>> /\ At(u, "discarding", "discarding")
  /\ queue' = queue \ {Head(dropped[u])}
  /\ inflight' = inflight \ {Head(dropped[u])}
  /\ dropped' = [dropped EXCEPT ![u] = Tail(@)]
  /\ discarded' = [discarded EXCEPT ![u] = @ \cup {Head(dropped[u])}]
  /\ UNCHANGED <<constants, confirmed, diskOffset, source, ordinal, burst, job, barriers,
                 retries, daemon, told, unsaid, faults>>

(* cancelActiveOperation: the running operation, or the session's turn when   *)
(* there is none.                                                              *)
CancelOperation(u, done) ==
  /\ cancelled' = (cancelled \/ Operating)
  /\ command' = [command EXCEPT ![u] =
       IF Operating /\ head \notin {"interrupting", "announcing", "waiting"}
       THEN done ELSE "interrupting"]

Stop(u) ==
  /\ command[u] = "discarding" /\ dropped[u] = <<>>
  /\ CancelOperation(u, "replying")
  /\ UNCHANGED <<constants, confirmed, disk, source, dispatched, chain, head, turn, left,
                 dropped, barriers, retries, daemon, answers, faults>>

(* prepareBarrier: refused when a human is attached or the project is gone; it    *)
(* throws when the daemon does not say whether a human is.                        *)
PrepareReset(u) ==
  /\ command[u] = "preparing"
  /\ \/ /\ command' = [command EXCEPT ![u] = "refused"]
        /\ UNCHANGED <<barriers, cancelled, errors>>
     \/ /\ barriers' = barriers \cup {u}
        /\ CancelOperation(u, "prepared")
        /\ UNCHANGED errors
     \/ /\ Fails /\ command' = [command EXCEPT ![u] = "threw"]
        /\ UNCHANGED <<barriers, cancelled>>
  /\ UNCHANGED <<constants, confirmed, disk, source, dispatched, chain, head, turn, left,
                 dropped, retries, daemon, answers, crashes, unreported, writeFaults>>

(* The interrupt may fail, before or after the daemon has done it: a /stop then   *)
(* answers with an error, and a /reset takes its barrier back.                    *)
InterruptTurn(u) ==
  /\ \/ /\ At(u, "interrupting", IF kind[u] = "stop" THEN "replying" ELSE "prepared")
        /\ InterruptSession
        /\ UNCHANGED <<barriers, errors>>
     \/ /\ Fails /\ At(u, "interrupting", IF kind[u] = "stop" THEN "erring" ELSE "threw")
        /\ InterruptSession \/ UNCHANGED stopped
        /\ barriers' = barriers \ {u}
  /\ UNCHANGED <<constants, confirmed, disk, source, dispatched, job, dropped,
                 retries, turns, prior, running, answers, crashes, unreported, writeFaults>>

(* What a /stop has dropped is named in its answer, and in nothing else. *)
NameDropped(u) == told' = told \cup {u} \cup discarded[u] /\ UNCHANGED unsaid
ForgetDropped(u) == unsaid' = unsaid \cup discarded[u]

(* /stop answers, or an error does; when neither can be sent the whole command  *)
(* is dispatched again later.                                                    *)
StopReplies(u) ==
  /\ \/ /\ At(u, "replying", "settling") /\ NameDropped(u)
        /\ UNCHANGED <<inflight, retries, errors, unreported>>
     \/ /\ \/ At(u, "replying", "settling") /\ Fails
           \/ At(u, "erring", "settling") /\ UNCHANGED errors
        /\ told' = told \cup {u} /\ ForgetDropped(u)
        /\ UNCHANGED <<inflight, retries, unreported>>
     \/ /\ MayFail /\ unreported < MaxUnreported
        /\ unreported' = unreported + 1
        /\ At(u, "replying", "none") \/ At(u, "erring", "none")
        /\ CountAttempt(<<u>>)
        /\ inflight' = inflight \ {u}
        /\ ForgetDropped(u) /\ UNCHANGED <<told, errors>>
  /\ discarded' = [discarded EXCEPT ![u] = {}]
  /\ UNCHANGED <<constants, confirmed, disk, source, ordinal, burst, job, dropped, barriers,
                 daemon, crashes, writeFaults>>

StopSettles(u) ==
  /\ At(u, "settling", "none")
  /\ queue' = queue \ {u}
  /\ attempts' = [attempts EXCEPT ![u] = 0]
  /\ inflight' = inflight \ {u}
  /\ UNCHANGED <<constants, confirmed, diskOffset, source, ordinal, burst, job, dropped,
                 barriers, timers, forgone, daemon, answers, faults>>

-----------------------------------------------------------------------------
(* The adapter is lost, and started again. *)

Discarded == UNION Range(discarded)

Crash ==
  /\ MayFail /\ crashes < MaxCrashes /\ loop # "down"
  /\ crashes' = crashes + 1
  /\ loop' = "down" /\ offset' = 1 /\ batch' = {}
  /\ inflight' = {} /\ ordinal' = [u \in Update |-> 0] /\ burst' = <<>>
  /\ chain' = <<>> /\ head' = "idle" /\ cancelled' = FALSE /\ turn' = 0 /\ left' = <<>>
  /\ command' = [u \in Update |-> "none"] /\ dropped' = [u \in Update |-> <<>>]
  /\ barriers' = {}
  /\ attempts' = [u \in Update |-> 0] /\ timers' = {} /\ forgone' = {}
  /\ unsaid' = unsaid \cup Discarded /\ discarded' = [u \in Update |-> {}]
  /\ UNCHANGED <<constants, confirmed, disk, daemon, told, errors, unreported, writeFaults>>

Restart ==
  /\ loop = "down"
  /\ offset' = diskOffset
  /\ batch' = queue
  /\ loop' = IF queue = {} THEN "poll" ELSE "replaying"
  /\ UNCHANGED <<constants, confirmed, disk, dispatched, job, commands, retries, daemon,
                 answers, faults>>

(* init dispatches the saved updates in their order; each is read first. *)
Replay ==
  /\ loop = "replaying"
  /\ Dispatch(Earliest(batch))
  /\ batch' = batch \ {Earliest(batch)}
  /\ loop' = IF batch' = {} THEN "poll" ELSE "replaying"
  /\ UNCHANGED <<constants, confirmed, disk, offset, head, cancelled, turn, left, barriers,
                 retries, daemon, answers, faults>>

-----------------------------------------------------------------------------
Ingest == Poll \/ SaveUpdate \/ SaveOffset \/ Replay
RunJob == StartJob \/ Prepare \/ Post \/ Accepted \/ InterruptOwn \/ Announce \/ Deliver
          \/ BeginReset \/ CloseSession \/ RemoveFile \/ FinishJob \/ Throw \/ ReportFailure
RunCommand(u) == Discard(u) \/ Stop(u) \/ PrepareReset(u) \/ InterruptTurn(u)
                 \/ StopReplies(u) \/ StopSettles(u)
Retries == \E parts \in timers : Retry(parts)

Next ==
  \/ Ingest \/ FlushBurst \/ RunJob \/ TurnEnds \/ Retries
  \/ \E u \in Update : RunCommand(u)
  \/ Crash \/ Restart

Spec == Init /\ [][Next]_vars

(* Timers fire, awaits end, the daemon ends every turn (TurnsAreAnswered of     *)
(* SessionManager) and the service manager starts the adapter again.            *)
FairSpec ==
  /\ Spec
  /\ WF_vars(Ingest) /\ WF_vars(FlushBurst) /\ WF_vars(RunJob) /\ WF_vars(TurnEnds)
  /\ WF_vars(Retries) /\ WF_vars(Restart)
  /\ \A u \in Update : WF_vars(RunCommand(u))

-----------------------------------------------------------------------------
TypeOK ==
  /\ kind \in [Update -> Kind] /\ joining \in BOOLEAN
  /\ {confirmed, diskOffset, offset} \subseteq 1..(MaxUpdate + 1)
  /\ queue \subseteq Update
  /\ loop \in {"poll", "saving", "advancing", "replaying", "down"}
  /\ batch \subseteq Update /\ inflight \subseteq Update
  /\ Range(burst) \subseteq Update
  /\ \A n \in DOMAIN chain : chain[n] # <<>> /\ Range(chain[n]) \subseteq inflight
  /\ head = "idle" => turn = 0 /\ left = <<>> /\ ~cancelled
  /\ turn \in 0..Len(turns) /\ running \in 0..Len(turns)
  /\ barriers \subseteq Update /\ forgone \subseteq Update
  /\ attempts \in [Update -> Nat] /\ Range(prior) \subseteq 0..Len(turns)

Undisturbed == crashes = 0 /\ unreported = 0
Submitted == UNION {Range(turns[n]) : n \in DOMAIN turns}

(* An update that the adapter took over from Telegram and whose queue file is   *)
(* gone is one of these.                                                        *)
AccountedIn(known) ==
  \A u \in Update : (u < diskOffset \/ u < confirmed) /\ u \notin queue => u \in known

(* It was part of a turn, or the user was told what became of it, or is being    *)
(* told by the /stop that drops it; or that word was sent and did not arrive.    *)
(* It holds whatever fails when the debounce is off, and while the adapter is    *)
(* not lost and no failure goes unreported when it is on (telegram.js:           *)
(* acceptUpdate, runParts, init, discardBurst).                                  *)
AnsweredUnlessDisturbed ==
  (joining => Undisturbed) => AccountedIn(Submitted \cup told \cup Discarded \cup unsaid)

(* The same without the words that did not arrive, which no run checks: "must    *)
(* not vanish without a trace" (telegram.js:1223-1225).  It fails: the sends at   *)
(* 1226-1232 and 1268 swallow their errors, and an error in the place of a        *)
(* /stop's answer does not name what it dropped (881-886).                        *)
NothingVanishes ==
  (joining => Undisturbed) => AccountedIn(Submitted \cup told \cup Discarded)

(* A text becomes part of one turn, however often it is dispatched again after  *)
(* a crash, a stale offset or a failure nobody was told of: the daemon finds    *)
(* its key.  Keys are the first part's and go with the session, so this is for  *)
(* an adapter that joins nothing and a user who resets nothing, and for every   *)
(* other while it is undisturbed (telegram.js: submissionIdempotencyKey,        *)
(* session-manager.js: admitSubmission).                                        *)
TurnOnce ==
  (joining \/ (\E u \in Update : kind[u] = "reset") => Undisturbed) =>
    \A n, m \in DOMAIN turns : n # m => Range(turns[n]) \cap Range(turns[m]) = {}

PartsInOrder ==
  \A n \in DOMAIN turns : \A i, j \in DOMAIN turns[n] : i < j => turns[n][i] < turns[n][j]
TurnsInOrder ==
  \A n, m \in DOMAIN turns : n < m =>
    \A u \in Range(turns[n]), v \in Range(turns[m]) : u <= v

(* The parts of a turn, and of one turn after another, are in the order they     *)
(* were sent.  A crash does not change that (init sorts the files) unless the    *)
(* offset was not written, so that an old update comes after those replayed, or  *)
(* a /stop was still removing the files it discards, which come back; or, for    *)
(* turns, half of a joined burst's files were gone and the other half is a turn  *)
(* again, or a second crash replays an update that was settled before later      *)
(* turns, its file written again while its job removed it.  A retry by a timer   *)
(* may (telegram.js: init, acceptUpdate, bufferBurst, flushBurst, the chain).    *)
ReplaysAll == unreported = 0 /\ writeFaults = 0 /\ \A u \in Update : kind[u] # "stop"
InOrder ==
  /\ Undisturbed \/ ReplaysAll => PartsInOrder
  /\ Undisturbed \/ (ReplaysAll /\ ~joining /\ crashes < 2) => TurnsInOrder

(* A /stop or /reset that cancels an operation also stops its turn, at whatever  *)
(* await the operation is: once the user has been answered the turn is over, has *)
(* been interrupted, or the command's own interrupt is on its way; operations    *)
(* that throw are left out (telegram.js: cancelActiveOperation, handleOrdinary). *)
StoppedTurnsStop ==
  head = "settling" /\ cancelled /\ turn # 0 /\ errors = 0 =>
    \/ turn # running
    \/ turn \in stopped
    \/ \E u \in Update : command[u] = "interrupting"

(* An update in the queue directory is dealt with: its file goes, or it has used *)
(* up its retries and waits for a restart.  After a crash an update may be taken *)
(* from the server again while its job is removing the file; the new file then   *)
(* stays, but its last word has been sent, if updates are not joined             *)
(* (telegram.js: runParts, acceptUpdate, init).                                  *)
AcceptedIsSettled ==
  \A u \in Update :
    u \in queue ~> \/ u \notin queue \/ u \in forgone
                   \/ crashes > 0 /\ (joining \/ u \in told \cup unsaid)
=============================================================================
