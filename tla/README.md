# cli-runtime: specifications, model checks and proofs

cli-runtime keeps coding agents (Claude Code, Codex) warm in tmux panes and lets
clients submit turns to them over a local HTTP socket or from Telegram. Its
promises are about concurrency and failure: one turn per session, a verdict for
every accepted turn, nothing lost when the daemon is killed. This directory holds
TLA+ modules of the parts that carry those promises, the TLC runs that check them
on small instances, and TLAPS proofs of the most important facts for any size.

All line numbers are of the files under `src/src/` unless another path is given.

## The system

| Component | State it keeps | Operations | Hard behaviour | Correct when |
|---|---|---|---|---|
| Session manager (`core/session-manager.js`) | `sessions`, `active`, `mutationChains` in memory; `session.json` per key, one JSON file per submission | create, submit, interrupt, restart, release, close, get, init | every `await` is a switch to another caller; any write can fail; the process can be lost between two writes; a human at the pane | one turn per session and per pane; every accepted turn gets one durable verdict; the session becomes free again |
| Workspace turn state (`core/workspace-state.js`) | `active/<id>` and a JSONL history per workspace, inbox and outbox directories | startTurn, updateTurn, finishTurn, acknowledgeOutputs, prune | lock per workspace, torn JSONL tail, retry after a crash, retention racing a turn | a turn has one history record; outputs are delivered once; retention never touches live turns |
| Event store (`core/event-store.js`) | ring in memory, `events.jsonl` | append, read, wait, init | memory ahead of disk, stuck disk, compaction, kill | readers miss nothing unnoticed; file ordered |
| Runtime lock (`core/runtime-lock.js`) | `runtime.lock`, `runtime.lock.recovery` | acquire, release | processes racing with crashes between system calls | one owner per state directory |
| Artifact watch (`core/artifacts.js`, `core/artifact-parser.js`) | offsets into vendor JSONL files, the unfinished line, the parser's state | baselineArtifacts, watchArtifacts, feed | files that grow while they are read, are cut short, belong to other conversations; limits | no line lost or parsed twice; the verdict is the agent's for this turn; a watch ends |
| HTTP server and client (`core/server.js`, `core/client.js`) | none | routes | long polls | thin |
| Main and configuration (`main.js`, `config.js`) | locks held | service start and stop | order of start-up | serves only after init |
| Telegram adapter (`surface/telegram.js`) | queue directory, offset, bursts, per-route chains, pending logins | poll, dispatch, burst, commands, replay | crash between any two steps, retry, commands overtaking messages | every accepted update is handled, once |
| Notices and run marker (`surface/notices.js`) | `last-run.json`, a spool directory | start, markCleanStop, write, drain | deaths and stop signals during a start, overlapping flushes, failed removals | a notice is sent at most once and in time; every death is announced or counted, but for announcements that cannot be sent |
| Owner, route and project stores (`surface/*.js`) | small files | | partial writes | the owner is bound once; last writer wins |
| Authentication manager (`drivers/auth-manager.js`) | one login terminal and one start lock per driver, status cache | status, start, submit | overlapping starts, stale cache, a terminal that exits | nobody's login page is taken away; a repaired login is noticed |
| Navigator, screen library, driver launch, tmux commands (`drivers/*.js`) | none or a file | | | pure data |

The login is repaired through the chat: the adapter starts the daemon's login
terminal, sends its page, polls the status or submits a pasted code, and handles the
message again. The Telegram adapter and the command-line client talk to the daemon over HTTP.
The server calls the session manager, the event store and the auth manager. The
session manager calls the workspace state (history), tmux (pane), the artifact
watch (end of a turn) and the event store (`note`, never awaited). Main takes the
runtime lock, then opens the event store, then runs `SessionManager.init`, then
listens. The daemon and the adapter are separate processes with a lock each.

## The modules

    SessionState <- SessionTurns <- SessionControl <- SessionManager <- MCSession
                                                         ^- SessionHandover <- MCSessionHandover
                                                              | implements SubmittedTurn
                                                              ^- SessionManagerProofs
    ArtifactWatch   <- MCArtifactWatch, ArtifactWatchProofs
    WorkspaceTurns  <- MCWorkspaceTurns, WorkspaceTurnsProofs
    RuntimeLock     <- MCRuntimeLock, RuntimeLockProofs
    EventStore      <- MCEventStore, EventStoreProofs
    TelegramIngress <- MCTelegramIngress, TelegramIngressProofs
    AuthManager <- Reauthentication <- MCReauthentication, ReauthenticationProofs
    AdapterNotices  <- MCAdapterNotices, AdapterNoticesProofs

### Session manager

The four modules are one state machine of **one session key**; keys share nothing
but directories. `SessionState` has the state and the operators all handlers use,
`SessionTurns` a submitted turn from admission to its verdict, `SessionControl`
interrupt, the locked control calls and get, `SessionManager` puts them together
with the pane, the loss of the process and `init`.

A *fiber* is one asynchronous call. Node runs one fiber at a time and switches
only at an `await`, so **an action is the code between two awaits**, and `pc[f]`
names the await fiber `f` is suspended on. The names follow the code: `admitting`
phases under the chain (`LockedAwait`), the phases of `submit`, of
`executeSubmission` before, inside and after its `try`, and of `close`.

| Variable | Code |
|---|---|
| `cur`, `session[i]` | the entry of `sessions`; an incarnation is one session object under the key (`createLocked` makes a new one over a closed one, and fibers may still hold the old one: `holds[f]`) |
| `active` | `active.get(key)` |
| `record`, `interrupted` | `submission.status` in memory, `activeRuntime.interrupted` with its aborted signal |
| `chain` | `mutationChains.get(key)`: the holder, then the waiters in order |
| `image[f]` | the bytes of a `session.json` write in flight; `persistSession` asserts the invariant when called, serializes later and renames later still, so concurrent writes land in any order |
| `plan`, `op`, `target` | locals of the suspended calls |
| `diskSession`, `diskRecord`, `history` | `session.json`, `submissions/<id>.json`, the workspace history |
| `pane`, `attached`, `driving` | tmux as seen through `driverState`, `hasAttachedClients` and the artifact: the prompt the agent works on |

Three bookkeeping variables mark turns: `handed` (an agent has had its prompt),
`displaced` (line 1019 of an earlier turn has deleted its entry of `active`) and
`overtaken` (it was reserved while a write of `session.json` was in flight that will
not name it). The last two name in the properties the schedules the code does not guard
against; README's list below says what each of them breaks.

Faults: a failed write of a turn's files (`writeFaults`), a failed `finishTurn`
(`historyFaults`; also one whose record is in the history already, when a removal behind
it throws, `workspace-state.js:566-570`, 620-621), tmux that cannot start a shell, a driver that exits at any
point, a human who attaches at any point, an agent that never answers or ignores
Escape, and `Crash` at any point including during `init`. Abstractions: the many
polls of `waitUntilReady`, `waitForPromptEcho` and `confirmSubmission` are one
step with each of their outcomes; the artifact watch is its outcomes; progress
updates and events do not change what the properties see; `close`'s ten-second
wait may run out only while the turn is on an await that can last that long
(`SlowAwait`: the driver, copied files, the watch and its callbacks, the workspace lock).
`Acknowledged` says which turns have set `completion`; for the others `close` polls the
`active` map. A turn a close has interrupted meanwhile writes its record as it then
stands (`RecordStarted`, line 824).

Properties (module `SessionManager`): `Serialized`, `OneTurnPerPane`,
`ReplacementFindsNoTurn`, `HistoryAgrees`, `NamedWhileUnfinished`,
`NoStrandedSession`, `ServedTurnsHaveAVerdict` are invariants,
`VerdictNeverFlips` is an action property, `TurnsAreAnswered` and `CallsReturn`
are liveness. Each carries a comment that says what it means.

`SubmittedTurn` says what a submitted turn is promised, in seven values and six
actions: its record only goes forward, its prompt reaches the agent at most once and
only while the record says running, it is completed only after that, and a verdict
stays. `SessionHandover` states the refinement: `Life(s)` is the record on disk,
with "running" split in two by `handed`, the bookkeeping variable that remembers the
turns whose prompt an agent has had. A turn a close has taken (`TakenByClose`)
is mapped to "taken" and promised nothing more, because line 813 sets it back to
running. `ImplementsSubmittedTurn` is checked in `session_crash`, so over a lost
process, a failed write, restarts and closes, and proved in `SessionManagerProofs`.

### Artifact watch

One turn's watch over the files of its driver. A file is a sequence of lines, each
written and read in two halves, so a write, a stat and an increment can each cut a line.

| Variable | Code |
|---|---|
| `content`, `size` | a vendor file: its lines, `stat.size` in halves |
| `offset`, `held` | `offsets`, `remainders` |
| `pc`, `todo` | the await of `baselineArtifacts` or of the loop of `watchArtifacts`; the files this sweep has still to stat |
| `file`, `cursor`, `upto`, `lines` | the open file, the inner loop's `offset`, the `stat.size` it reads to, the lines of the increment not yet fed |
| `parser`, `boundFile` | `parser.state` with the last result of `feed`, `boundFile` |
| `quiet`, `limit` | the time since `lastActivityAt`, `inactivityLimit` |
| `resumes` | `session.providerSessionId`, set by `onBound` (852) and by the result |

`driver` chooses the parser: Claude's records all name their conversation and an error
ends the turn; Codex names it in `session_meta` only and keeps an error until the task
completes. The environment writes my file (meta, steps, the prompt once the watch runs,
then anything), another conversation's, and may begin my file anew. At the start the
file may hold an earlier turn whose last line is half written, the case the baseline
exists for. `Interrupted` is the signal, whoever sets it. Callbacks may throw. A line is
fed in one step: `feed` and the bookkeeping around it have no await but the callbacks.

`WatchAgreesWithReplay` compares the incremental parser with `replayArtifact` on the
whole lines since the baseline; `VerdictIsTheAgents` says what the result must be from
the file alone. Both are of a file that was not cut short: after a cut the watch reads
it from its start, which may hold anything.

### Runtime lock

One action per system call of `acquireRuntimeLock` (link, read, rm), a process
may die between any two, and each process starts once. `processAlive` is modelled
by what it does: a signal to the recorded pid. Pid reuse is left out.

### Event store

An event is its sequence number. `publish` numbers and shows it at once; its line
goes through the write chain, whose head is being appended; `text` is the file
`compact` is about to rename in. `AppendTears` is an append that fails half-way.
`Restart` is a kill and the next `init`; what `readTail` leaves of a file longer than
`MaxBytes` lines depends on where the cut falls: everything through the first newline is
dropped (26-29), which between two lines costs a whole one (`ReadTail`, either way). One client reads with a cursor and may
wait; when told its cursor expired it goes on at the earliest event. The code's filters
by number cut the ring in two, since it is in order (`UpTo`, `After`), and the sort in
`init` is of distinct numbers (`Sorted`); both are written without recursion, so that
they can be proved about.

### Telegram ingress

One route (chat or topic) of the adapter; routes share only the polling loop. An
update is a number in order of sending, and a text, `/stop` or `/reset`; `joining`
says whether the debounce is on. An action ends at an `await`.

| Variable | Code |
|---|---|
| `queue`, `diskOffset` | the files of the queue directory, `offset.json` |
| `loop`, `batch`, `offset`, `confirmed` | the polling loop or init's replay; what Telegram has forgotten |
| `inflight`, `ordinal`, `burst` | `inflightUpdates`, `routeSequences`, `bursts` |
| `chain`, `head` | the route's promise chain: the parts of each job, and the await of the first one (`handleOrdinary`, a command with its barrier, or `runParts` settling) |
| `cancelled`, `turn`, `left` | the operation's `cancelled` and `submissionId`, the files `settle` has still to remove |
| `command`, `dropped`, `barriers` | `/stop` and the preparation of `/reset`, which run outside the chain; `pendingBarriers` |
| `attempts`, `timers`, `forgone` | `retryCounts`, the timers of `runParts`, updates out of attempts |
| `turns`, `prior`, `running`, `stopped` | the daemon as `admitSubmission` and `interrupt` show it: accepted turns with their parts, the idempotency map, the turn under way, the turns asked to stop |

`told` (who has had an answer), `unsaid` (whose last word was sent and did not arrive)
and `discarded` (what a `/stop` has dropped and has still to name) are bookkeeping. Faults: the adapter is lost at any
await, an operation throws (an interrupt and the preparation of `/reset` included), a last word
whose failure is swallowed (1226-1232, 1268) is lost, a report cannot be sent, a queue file
or the offset cannot be written. The daemon does not fail here; its turns end
(`TurnsAreAnswered` of `SessionManager` is the assumption). The code gives an
update up after three attempts, the runs after two.

The four invariants have exceptions, and each is a schedule of the code:

* `AnsweredUnlessDisturbed` and `TurnOnce` hold under every fault for an adapter that
  joins nothing, and for a joining one that is neither lost nor unable to report. A
  joined burst goes under the key of its first part, and when a replay or a retry
  composes it anew the daemon answers for the old composition. The first also allows a
  last word that was sent and did not arrive (`unsaid`). `TurnOnce` also excepts `/reset`, which empties the
  idempotency map a later retry relies on.
* `InOrder`: a retry by a timer comes behind what has arrived since; an unwritten
  offset makes an old update follow the replayed ones; a `/stop` lost while it
  discards leaves files that are replayed; a crash between two removals of a joined
  burst's files makes its rest a turn again; and with two crashes an update that was
  served again while its job removed its file is replayed, and submitted, after the
  turns that followed it (the file `AcceptedIsSettled` is about).
* `AcceptedIsSettled`: after a crash an update already replayed is served again. If
  `acceptUpdate` writes its file after `settle` removed it (1553, 1414) and dispatches
  it before the in-flight entry goes (1441), the file stays until the next restart,
  contrary to the comment at 1559.
* `StoppedTurnsStop` is about operations that do not throw.

### Login repaired through the chat

`AuthManager` is the daemon's login of one driver, `Reauthentication` composes it with
the messages of one route of the adapter. A *fiber* is a call of the adapter: 0 is the
route's chain, p > 0 the timer callback of the p-th pending record, which handles its
message again outside the chain.

| Variable | Code |
|---|---|
| `terminal` | the tmux session `cli-auth-<driver>`: the how-manieth, and what `parseAuthPrompt` and `driverState` say of it |
| `startLock`, `call` | the promise chain `startLocks.get(driver)`; where each call of `status`, `start` or `submit` is, and its answer |
| `cached`, `loggedIn` | `statusCache` says authenticated and has not expired; the vendor's truth |
| `pc`, `handling`, `existing`, `code` | the await of `handleOrdinary`, `beginReauth`, the timer's callback or `completeReauthWithCode`, and its locals |
| `pending`, `original`, `urlSent`, `late` | `pendingReauth.get(routeKey)` and the record's fields (`late`: `deadlineAt` has passed) |
| `turn` | the submission under a message's idempotency key (`session-manager.js:605`) |

`shown`, `told`, `exited`, `mistaken` (terminals for which a tmux query failed), `losses`
and `disturbed` are bookkeeping. A tmux command may fail: a failed query takes a living
terminal for a dead or a missing one (`Replace`), any other failure throws (`Stuck`, `Throw`).
A send may fail (`Say`, `Show`) and is not repeated. The walk to the
login page and the watch of a submitted code are one await each, ending in any way
their polls can; the page of a dead terminal may still be on its screen. The vendor may
take the login away at any time, a terminal may exit, the status command may fail
(unknown), and a human approves or pastes a code or does neither. Left out: the navigator that
chooses keys on unknown screens, `--force`, several routes, and messages in bursts.

`ShownPageIsLive` excepts `mistaken` terminals. `WaitingIsAnswered` is of the message a
record resumes; it allows a last word that did not arrive, and is unless `disturbed`: the login goes again while a message waits,
or the status cache says authenticated for up to a minute after it went
(`auth-manager.js:71`). Then a message may wait for its deadline, or be orphaned: a late
status answer of one record makes `finishReauth` delete whatever record the route has
(`telegram.js:1322`).

### Notices and the run marker

`AdapterNotices` is one adapter process after another. Four pieces of code overlap: the
start (`announceRestart`, then its flush), the timer's flushes, the stop handler, which
`main.js` installs before the start begins, and whoever writes notices.

| Variable | Code |
|---|---|
| `start`, `stop` | the await of `init`, of the stop handler |
| `marker`, `startRead`, `stopRead` | `last-run.json`, and the copies `RunMarker.start` and `markCleanStop` have read |
| `spool`, `flushing`, `flush` | the notice files, `flushingNotices`, each call of `flushNotices` with what `drain` has listed, found and collected |
| `standing` | the deaths the announcement that is being sent stands for |
| `timer`, `owner` | `noticeTimer` is set, an owner is bound |
| `window`, `expired` | the clock: announcement windows (`restartAnnounceWindowMs`) that have passed, notices past `expiresAt` |

A file operation or a send may fail, a marker may be unreadable, a second stop signal runs
a handler of its own (`stop` is a function), a kill may fall on any await. `died`,
`reported`, `unsent`, `told`, `twice`, `sent`, `untimely`, `early` and `own` are bookkeeping. What the code accepts and the model has: a
notice in the hands of a flush that fails or dies is lost; a notice may be sent after
its expiry if the drain began before. The marker's count is reset and its window taken
before the announcement is sent; if it never is (no owner, a failed send, a kill) its
deaths are in `unsent`, told to nobody. `DeathsAreAccounted` says that each death is
reported, being reported, in the count or in `unsent`, and is unless `early`: a stop signal that arrives before the start has
written its marker stamps the dead run's marker clean.

### Workspace turn state

`WorkspaceTurns` has the files of the turns of **one workspace**, which several
sessions may share; workspaces share nothing. The session manager's model has
`startTurn` and `finishTurn` as single steps, here they are taken apart. An action is
one file operation: the process can be lost after each, and other calls run at each
await unless the workspace lock keeps them out.

| Variable | Code |
|---|---|
| `lock` | the promise chain of `workspaceLocks.get(workspace)`: the holder, then the waiters |
| `phase` | the await of a turn's call: staging, the agent's work, `finishTurn`, the record of its verdict |
| `record`, `recordOuts` | `submissions/<id>.json`: its status, the outputs it lists |
| `history`, `historyStatus`, `historyOuts` | `history/<session>.jsonl`: its lines, each a number (from `lines`, bookkeeping) and a turn, and what the line of a turn says |
| `ledger`, `ledgerEnd` | `io/history/events.jsonl`; whether its last line is torn, or a line of it malformed (what was appended to a torn one) |
| `dirs`, `files`, `active` | the directories of turns with their archives, the output files, `history/active` |
| `ack`, `mine` | a call of the session manager's `acknowledgeOutputs`, and the record it has read |
| `scheduled`, `pruning`, `retained` | `pruneScheduled`, the await of `prune`, its `retainedIds` |
| `expired` | bookkeeping: the turns whose active file `prune` has found older than seven days (705) |

`reported` (what a client has said it delivered) is bookkeeping. Faults: the daemon is
lost, a system call of staging or collection fails, an append fails or is torn. The
48-hour window of work is a number of turns (`Window`), as its computation from times
touches nothing else. Left out: progress updates (content only), the limits on
files, a prune that fails half-way (the next one does its work). A removal after the append
may fail (`Retire`, `ClearInbox`, `Reuse`): the turn then ends without outputs (`EndsBare`). A
torn line lacks more than its newline; that the next line is glued to it, and the one
after that whole again, is in `LogLine`.

`PendingIsKeptUnlessTorn` carries a condition the code needs: `prune` takes pending
outputs from the ledger only when every line of it parses (`workspace-state.js:669`), so
a torn line lets them go (`PendingIsKept`, without the condition, fails).

## What is checked

| Run | Instance | Shows |
|---|---|---|
| `session_turn` | 1 turn, 1 interrupt, 1 control call, 1 failed history write, fairness | types; every turn not taken by a close has a durable verdict when its call returns, nobody waits forever |
| `session_crash` | 1 turn, 2 control calls, 2 incarnations, 1 fault (a lost process or a failed write), a human at the second pane | record and history agree, a durable verdict never flips, the session file names the unfinished turn, locked calls are serialized, restart and release never take the pane of a turn, and the whole implements `SubmittedTurn` |
| `session_two_turns` | 2 turns, 1 interrupt, 1 lookup | one turn per pane; a session that stays busy with no turn under way has had a displaced turn |
| `runtime_lock` | 3 processes, 1 shutdown, 1 dead owner, 1 abandoned recovery file, fairness | one winner and its file kept while nothing disturbs; a lone starter is served whatever it finds |
| `event_store` | ring of 3 events or 2 lines of bytes, queue 2, pages of 1-2, 6 events, 1 failed and 1 torn append, 1 kill, fairness | file ordered, whole lines survive but one at the cut, readers are told of gaps, shed writes are reported |
| `telegram_faults` | 2 updates, at most 1 command, joined or not, 2 faults of three kinds (lost adapter, throw, unreportable failure), 2 attempts, fairness | types, every accepted update answered or its last word sent, one turn for a text, every file removed |
| `telegram_burst` | 3 updates, at most 2 commands, 1 fault (lost adapter or failed write) | order of parts and turns, no turn left behind by a cancelled operation |
| `workspace_turns` | 2 turns of one session, 1 output name, 1 client, a window of one turn, 1 fault (lost daemon, failed or torn call), fairness | types and the lock, one history record a turn, retention spares the undelivered and the live (but for a turn silent for seven days) and lets the delivered go, nobody waits for the lock forever |
| `artifact_watch` | both drivers, 2 files, 3 lines, an earlier turn in my file, increments of a line and a half, 1 truncation, a limit of one tick or none, fairness | no line lost, doubled or glued; the verdict is the one the agent wrote for this turn; a watch ends |
| `reauth` | both flows, 2 messages, 2 pending records, 1 code, 1 trouble (a login that goes again, a terminal that exits, a tmux command or a send that fails), fairness | nobody's login page is taken away unless tmux failed; a message that waits is answered or told |
| `reauth_resume` | the same | expects a violation, see below |
| `adapter_notices` | 2 notices (one with a route, one that expires), 2 overlapping timer callbacks, 2 stop signals, 2 windows, 2 troubles (ends of the adapter and failed file operations), any send lost, fairness | no notice twice or late, every death accounted for (sent, counted, or lost with an announcement that was not sent), the spool served |

Faults of several kinds share one bound where their number is what makes a run long
(`MaxFaults`, `MaxTroubles`): `MayFail` and `MoreTrouble` allow the next one, of any kind,
until the sum is reached; a kind can be bounded besides. `MayAttach` is the set of panes a
human may attach to. The theorems hold for every value of these constants.

Why the bounds are enough: every race the code can have over one key needs at
most two turns (the one that ends and the one admitted meanwhile) or a turn and two
control calls (the one that takes it and the one that acts on what is left); one
crash already falls between any two writes. `OneTurnPerPane` is proved for
any number of turns (while no close was called). Control calls choose their kind
(create, restart, release, close) when they are called, so one fiber covers the
four. Three starters are a winner, a recoverer and an intruder. Six events are
enough to compact twice, to fill the queue and to lap a reader. Two updates make
a burst, a reformed burst and a command that overtakes a message; three put a
message behind a discarded or flushed burst. In a workspace, with a window of one turn,
the second turn makes the first one old. Three lines are a prompt, a word or an error,
and an end, behind an earlier turn's line that is still being written; increments of a
line and a half cut every second line. Two messages are a message that waits and one
that joins its record or begins its own, and three calls contend for the start lock.
Two ends of the adapter are a death and a second one in the same window, and the start
that follows counts it. Deadlock is not
checked: a daemon nobody calls stops.

Fairness. Node runs every fiber whose await is over, and every await of a fiber
ends: a file operation ends, tmux answers, a poll has a deadline, the watch of a
turn has an inactivity limit (`config.js:153`, on by default). Nothing is assumed
of the agent, of callers or of the human. A booting daemon goes on, a started
write ends, a live process is scheduled. The adapter's timers fire, the daemon ends
its turns, and the service manager starts a lost adapter again; Telegram owes nothing. In
`ArtifactWatch` the watch goes on when its await is over and time passes; nothing is
assumed of the agent. In `Reauthentication` the daemon's calls and the sends end (each has
a timeout), timers fire and deadlines come; nothing is assumed of the human, the
terminal or the vendor. In `AdapterNotices` the start, the stop handler and the flushes go on.

### What the code does not keep

One run expects a violation. `reauth_resume`: a turn that loses the login in the middle
(`telegram.js:1190-1201`) is handled again after the login under the same idempotency key,
and the daemon answers with the failed submission it has under that key
(`session-manager.js:605-608`); spec 0023 promises that the original message is re-run.

The modules state more that the code does not keep, each as a definition with a comment,
without a run of its own. TLC finds each violated when it is put in the place of the
weaker property of the run named here, with the constants the item names:

* `NoStrandedSession` and `ServedTurnsHaveAVerdict` without their exception for displaced
  turns, with two turns (`session_two_turns`): `finally` at `session-manager.js:1019` deletes
  the entry of the *next* turn, against `README.md:15` of the repository (one active
  submission per session); the session stays busy, and the next turn's admission throws at
  its assertion, with the record on disk that says accepted. A restart of the daemon does
  not always free it: an image of `session.json` that names the turn may be on disk.
* `ReplacementFindsNoTurn` without it, with two turns, a lookup and a control call
  (`session_crash`, one incarnation, no fault): once line 1019 has deleted the next turn's entry, a
  `get` that began while the session was idle, and finds its driver gone, marks the
  session stopped, so a restart or release takes it for free while that turn is in the pane.
* `OneTurnPerPane` with two turns and two control calls (`session_two_turns`): a close that
  lost patience takes the turn's reservation (`session-manager.js:1253`) while its agent is
  being started, `restart` does not refuse a closed session (1170-1200), and the taken turn
  goes on to paste while the next one is admitted. The same with three turns and one close,
  after line 1019 has taken the reservation, and with three turns, an interrupt and one failed
  write: the write of `session.json` with which the first turn has released the session
  fails (961), and its catch frees the session (1002-1007) which the second turn has
  taken. `PanesHaveOneTurn` below therefore says "while no close was called and no write has
  failed" (`NobodyCloses`).
* `NamedWhileUnfinished` without its exception for overtaken turns, with a lookup
  (`session_crash`, `Lookup = {g}`): a `get` that found
  the driver dead marks the session stopped and its write of `session.json` stays in flight
  (`util.js:107`) while a restart and the admission of a turn write theirs; the older image
  lands last, and the file does not name the turn.
* `VerdictNeverFlips` and `HistoryAgrees` with a failed `finishTurn` and one failed write
  (`session_crash`, `MaxHistoryFaults = 1`): line 946 writes the record "completed" without
  a history record, the write of `session.json` fails, and the `catch` finalizes again at
  984 and, having no history to obey, writes "failed".
* `EndedTurnsHaveAVerdict` (`session_turn`): line 813 sets a submission that close has
  finalized back to running; with one interrupt and one failed write, 583 throws out of
  the catch before the reservation is released.
* `StoppedPromptStaysStopped` (`session_turn`): line 748 presses Enter for an interrupted
  prompt.
* `ExclusiveOwnership` (`runtime_lock`): `runtime-lock.js:69` removes a lock it did not
  judge, so a shutdown while another starter recovers lets two processes own the
  directory, against `README.md:13` of the repository.
* `AnsweredUnlessDisturbed` without its condition (`telegram_faults`): `telegram.js:1400`, a
  replayed burst goes under the key of a turn that holds only its first part; the other
  parts are deleted unanswered, against `README.md:185-186`.
* `NothingVanishes` (`telegram_faults`): the sends at `telegram.js:1226-1232` ("Set aside ...",
  "Interrupted.") and 1268 (the login's instructions) swallow their failures and the queue
  file goes all the same, against the comment at 1223-1225 ("must not vanish without a
  trace"); an error in the place of a `/stop`'s answer does not name what it dropped (881-886).
* `NumbersAreFresh`, `AcknowledgedSurvive` (`event_store`): `event-store.js:66` gives numbers
  again that a client has seen before a kill; after a torn append (130) the next event is
  glued to the torn line and dropped with it; and when the cut of `readTail` lies right
  before a line that the ring still shows, 26-29 drop that line (with `maxBytes = 300` and four lines
  of 100 bytes a kill leaves two of the three in the ring).
* `ShownPageIsNeverTaken` (`reauth`): `auth-manager.js:177` takes a failed query for a dead pane and
  `tmux.has` (`drivers/tmux.js:38-40`) any failure for no session, so one failed tmux command
  kills a living terminal whose page is in the chat (182).
* `JoinedIsAnswered` (`reauth`): a message that finds a login under way is promised that it
  will be resumed (`telegram.js:174-188`), but the record keeps its first message only (1270-1276).
* `PendingIsKept` (`workspace_turns`): `workspace-state.js:669` after one torn append, against
  `docs/guides/turn-state.md:59-61`. `DeliveredStaysDelivered` with two clients and two outputs: two calls of
  `acknowledgeOutputs` write back whole records from copies (`session-manager.js:1124-1135`)
  and one takes the other's output back to pending; the adapter sends one at a time.
  `LiveTurnsAreSpared` without its exception: the directories of a turn at work that has shown
  no progress for seven days go (`workspace-state.js:705`, 724-742).
* `ResumesItsConversation` (`artifact_watch`): all files feed one parser until one is bound
  (`artifacts.js:72`), and for Codex another file's `session_meta`
  (`artifact-parser.js:273-276`) becomes the conversation the session resumes
  (`session-manager.js:852-855`), against `docs/specs/0002-telegram-project-routing/spec.md:364-367`. It holds for
  Claude, where `VerdictIsTheAgents` includes it.
* `SilenceIsReal` (`artifact_watch`): the limit is tested before the file is looked at
  (`artifacts.js:94`, 112), so a turn whose terminal record is already written can end as inactive.
* `DeathsAreAlwaysAccounted` (`adapter_notices`): `notices.js:132` may read the marker of the
  dead run and stamp it clean, against `docs/specs/0005-restart-announcements/spec.md:80-95`.
  `NoDeathIsForgotten`: `notices.js:111-119` resets the count and takes the window before the
  announcement is sent (`telegram.js:1615`); a kill or a failed send in between, and the deaths it
  stood for are told to nobody, against lines 94-95 of the same file.

## What is proved

`SessionManagerProofs` (from `FibersAreDistinct`, `BoundsAreNaturals` and `NoneIsNoRecord` only,
for any number of turns, interrupts, control calls, lookups, incarnations and faults):

* `TypeCorrect`: `Spec => []TypeOK`. The type invariant is split in groups
  (memory, calls, disk, pane, counters) and each handler is taken through the
  groups it can disturb.
* `PanesHaveOneTurn`: `Spec => [](Calm => OneTurnPerPane)`, where `Calm` says that no close
  is or was called by the control calls under way and no write has failed. Without a close a
  key keeps its first incarnation (`Open`), and `Reservation` says that from the
  admission of a turn to the await on which it has given the session back (before
  `finally`), the session object names the turn and is busy, or stopped or starting, and that nobody is about to launch a driver or to
  probe one for an admission. It does not speak of the `active` map, which line 1019 may
  empty: what keeps the second turn out is the status in the object. Every step of a turn
  keeps its own reservation and leaves another's alone (`Minds`); every step of another
  call leaves all alone (`Spares`). While the process is not serving, no call is on an
  await (`Unserved`), so a boot may reset the object.
* `MutationsAreSerialized`: `Spec => []Serialized`. `Serialized` is not inductive:
  nothing in it says that a suspended locked fiber is the *head* of the chain. The
  strengthening says that a fiber is in the chain exactly while it is on a locked
  await, that the chain has no fiber twice, and that whoever is past "queued" is
  its head; then two such fibers are equal. Leaving the chain is always through
  `Goto`, so one lemma about it serves every handler, throws included.

* `TurnsKeepTheirPromise`: `Spec => ImplementsSubmittedTurn` for any number of turns,
  calls, incarnations, crashes and failed writes, if `MaxHistoryFaults = 0` (without this
  hypothesis it is false, see above). The abstract steps say nothing of memory or of who
  may still write; `HandoverInv` does. For each turn no close has taken, `Placed` says
  what its await implies of the record, the history and `handed`, and `Earned` that only
  a turn whose prompt was handed over can be written completed; `CloseInv` says that
  a close takes one turn and no other gets its place while it is under way, `BootInv` what
  `init` has read of the turn it fails, and `Quiet` that while the process is down or
  booting no call is under way. `InitHandover` and `StepHandover`
  map the initial state and every step to the abstract one or a stutter.

* `RecordAndHistoryAgree`: `Spec => []HistoryAgrees`, and `VerdictIsFinal`:
  `Spec => VerdictNeverFlips`, if `MaxHistoryFaults = 0` (both are false without it, see
  above). Over `HandoverInv`, `VerdictInv` says, for each await of a turn, of a close and of `init`, what it
  holds before `finishTurn` has answered (no history, or an interrupted turn's) and after (the
  history's verdict, in the turn's plan, in memory and on disk); whoever decides again (a
  close, the catch, `init`) is given the verdict of the history. The one that may
  differ is a close that overtakes the start of the turn: it gives the history the word
  running, and the turn is then an interrupted one. Turns a close has taken are included.

* `ReplacementsSpareTurns`: `Spec => []ReplacementFindsNoTurn`,
  `SessionsAreNotStranded`: `Spec => [](writeFaults = 0 => NoStrandedSession)`,
  `EndsAreRecorded`: `Spec => [](writeFaults = 0 => ServedTurnsHaveAVerdict)`,
  and `UnfinishedTurnsAreNamed`: `Spec => []NamedWhileUnfinished`.

  They assume nothing of the schedule: turns may overlap in every way the code allows. What
  the code does not guard is excepted in the properties, turn by turn: a `displaced` turn, whose
  entry line 1019 of an earlier one has deleted, and for the last property an `overtaken` one.
  The two with `writeFaults = 0` need it with one turn already: a failed write leaves a record
  unfinished, or throws out of the catch before the session is released.

  `EntryInv` says that the entry of the `active` map names a turn of the current object, that
  a control call past the head of the chain finds no entry unless it is a close, which has
  taken its turn, and what `init` has read. `OrderInv` says that a turn that is neither
  taken nor displaced keeps the entry until its record is finished, faults or not (`Keeps`);
  so a restart or a release that has passed its check has no such turn below it. What makes it
  inductive is that any number of turns may be past their record, and that deleting an entry
  displaces exactly the turn it was of. While no write has failed, `ServeInv` says the
  converse: an entry is of a turn that will still release it, an object that is busy has an
  entry or has had a displaced turn, on disk and in the images in flight as well, and what has
  ended has a finished record.

  `SoleInv` says that a turn is named, in memory, in `session.json` and in what is being written
  to it, only by the session object it was admitted to. With it `NameInv` can speak of what
  may still reach the disk: while a turn is under way that is neither taken, displaced nor
  overtaken, every write of `session.json` in flight is of its object and names it, and the
  file does once the admission has left the chain. An earlier turn that writes meanwhile can
  only write that object, which names the later one.

`WorkspaceTurnsProofs` (from `BoundIsNatural`, `SizesArePositive` and `JobsAreDistinct` only):

* `LockedAreQueued`: `Spec => []TypeOK`, with the queue of the workspace lock: it holds
  exactly the calls on a locked await, once each, whatever throws or is lost.
* `TurnsAreRecordedOnce`: `Spec => []OneRecordPerTurn`. The history is a set of
  numbered lines, so two appends are two lines; `HistoryInv` says that a turn whose call has
  not passed the append has none: a call that was lost looks there again.
* `RetentionSparesLiveTurns`: `Spec => []LiveTurnsAreSpared`. `SpareInv` says what
  `stageInputs` has made by each await, and that a prune that has read the active files
  retains every turn that has one: it holds the lock a turn needs to begin.
* `PendingOutputsAreKept`: `Spec => []PendingIsKeptUnlessTorn`, and `DeliveredOutputsAreLetGo`:
  `Spec => []DeliveredIsLetGo`. `WholeInv` says, while no append is torn, that what the call,
  the record, the history or a client's copy lists as pending and nobody has reported is in
  the ledger with its archive, and in the list of a prune that has read it; and that what
  they list as delivered is not pending there. For any number of turns, sessions, clients
  and outputs.

`EventStoreProofs` (from `LimitsArePositive` only, for limits of any size, any number of
events and readers' pages, failed and torn appends and kills):

* `FileStaysOrdered`: `Spec => []FileIsOrdered`. `QueueInv` and `FileInv` say that the queue
  is in order and behind `durableSequence` (whose event is the head while `compact`
  works), and that the file and what `compact` is about to put in its place are not
  beyond it.
* `WholeLinesAreRecovered`: `Spec => WholeLinesSurvive`, a line at the cut excepted. `ShownInv` says that an event that
  is in the file, queued or acknowledged is in the ring unless the ring starts behind it. So
  the events in the file from an acknowledged one of the ring on are at most as many as
  the ring holds (`Fits`), and neither the tail `init` reads nor the ring it fills can
  leave it out, but for the one line `readTail` drops when the file is longer than the ring.
* `ReadersMissNothing`: `Spec => NothingIsSkipped`, and `WaitersAreTold`:
  `Spec => []NobodyWaitsForNews`. `RingInv` says that the ring is in order, ends with the last
  number and, before the first kill, has no gap; what a page of it leaves out was never
  in it (`PageIsWhole`).

  The lemmas about data (an increasing sequence is cut in two by a number, a finite set of
  numbers has an order) go by the least counterexample: `Least` is an instance of the
  well-founded minimum theorem (`WFMin`), which, unlike the induction theorems, takes a set.

`RuntimeLockProofs` (from `TokensAreDistinct` and `BoundsAreNatural` only):

* `OneStarterWins`: `Spec => []ExclusiveAmongStarters`, and
  `WinnerKeepsTheLock`: `Spec => []OwnerIsRecorded`, for any set of processes. The
  inductive invariant (`Core`, under `Undisturbed`) says who the winner is (the one the
  lock file names), that before there is one at most one process recovers and the
  recovery file names it, that the lock file is missing only while it is replaced,
  and that what a recovering process has read is still true when it acts.
* `TypeCorrect`, with the fact that no starter loops more than four times.

`AdapterNoticesProofs` (from `NoticesAreNotices` and `NoticeBounds` only):

* `NoticesAreSentOnce`: `Spec => []NoticesAreSentOnceAndInTime`, for any number of notices
  and overlapping callbacks. The property says nothing of what a flush holds; the
  strengthening (`FlushInv`) says that a notice in the spool was never sent, that a
  collected one has left the spool, was not sent and had not expired, and that a file
  found by a flush is there until that flush removes it, which needs that at most one
  flush is under way.
* `DeathsStayAccounted`: `Spec => []DeathsAreAccounted`. The count is only a fact of the
  running process's marker; the invariant (`DeathInv`) says, while nothing has disturbed
  the marker, what the start's and the stop handlers' copies say of the one on disk, and
  what `died` is in every phase of a start: what an announcement stands for is neither
  reported nor counted while it is sent (`standing`).

`TelegramIngressProofs` (from `BoundsAreNatural` only, for any number of updates and any
number of each fault):

* `TypeCorrect`: `Spec => []TypeOK`, and `CancelledTurnsStop`: `Spec => []StoppedTurnsStop`.
* `UpdatesAreAnswered`: `Spec => []AnsweredUnlessDisturbed`, where a last word that did not arrive
  counts as sent.
* `TextsAreTurnedOnce`: `Spec => []TurnOnce`, and `TurnsKeepTheOrder`: `Spec => []InOrder`.

  They share one inductive invariant, `IInv`, since the properties speak of the daemon's
  turns and of the files and the steps that could break them are elsewhere. `RowInv` is its core:
  what is in flight stands in one row, the jobs of the chain, then the burst, then what the
  loop or a replay may still dispatch (`Coming`), and nothing is there twice (`Lined`). While
  the adapter is undisturbed nothing in the row was submitted before (`Fresh`); while a
  restart replays all (`ReplaysAll`) the row is ordered (`Ranked`) and comes after what was
  submitted (`Later`). `JobInv`, `CommandInv` and `TimersInv` say what an await of the job,
  of a command outside the chain and of a retry implies; `LoopInv` how the offset in memory, the
  one on disk, Telegram's and the batch are related at each await of the polling loop.
  `AnswerInv` says that what lies before any of the three offsets has its file, a turn, an
  answer or a last word that did not arrive, or is being named by a `/stop`, and that a job that removes files has one for each of them; `PriorInv` that
  the idempotency map names a turn with the update in it; `FiledInv` that before a
  crash every file is of an update in the row or about to go, which is what lets
  the order survive that crash; `StopInv` that a cancelled operation past its submission has an
  interrupt. Most steps only move updates along the row: one lemma for a step that appends,
  cuts, drops or rests (`RowJoins` and its like) serves several handlers.

  The attempt to prove them corrected two statements that the small runs could not refute:
  `TypeOK` bounded `attempts` by `MaxAttempts`, but an update that is served again after a stale
  offset and a crash is counted once more; and `InOrder` did not except the
  second crash.

`ReauthenticationProofs` (from `CallersAreFibers`, `ReauthBounds` and `AuthBounds` only):

* `ShownPagesStayLive`: `Spec => []ShownPageIsLive`, for any number of records, messages,
  lost logins and failing tmux commands. `AuthInv` says that the start lock's queue holds exactly the calls of
  `start`, that only its head is past the queue, that a call that is about to launch has
  found no terminal, so a terminal is replaced only when it has ended or a query for it has
  failed, and that the page
  each call carries is live. `FiberInv` says that a daemon call is under way only where
  the adapter awaits one, and that the route's record has its timer or its callback.
  Every step of the chat is shown to be one of the daemon's moves (`NextMoves`).

`ArtifactWatchProofs` (from `FilesAreFiles`, `BoundsArePositive` and `NoneIsNoLine` only, for
any number of files and lines, increments of any size and any limit):

* `WatchIsAReplay`: `Spec => []WatchAgreesWithReplay`. The replay is a recursive function
  over the lines, the watch a state machine over halves of them. `ReplayInv` says that they
  agree on the parser but for the conversation it names. For a step to keep it, `PlaceInv` says where the
  watch is in my file while it was not begun anew: it is not behind the baseline, the line it
  holds is the one its odd offset lies in (and none at the baseline, where the half before
  was never read), and the lines still to feed are those up to the offset. `WholeLinesAre`
  computes the lines an increment completes, whatever its length and wherever it cuts.
* `VerdictsAreTheAgents`: `Spec => []VerdictIsTheAgents`. `VerdictInv` says what the parser
  has seen since the prompt (`SeenSince`: no record that ends a turn; a text, for Codex an
  error) and, once it has a result, that the last line fed ended the turn with it
  (`EndedBy`). `BoundInv` says that only my file can bind the watch and that then only it is
  read, `ResumeInv` that Claude's parser then names its conversation.

  That the recursive function exists, that two agree on a common prefix, and what one more
  line does (`ReplayIsThere`, `ReplaysAgree`, `ReplayOfOneMore`) go by the least
  counterexample, as in `EventStoreProofs`.

Every invariant and every action property that a passing run checks is stated by a theorem,
six of them under a condition on the faults or calls (no failed write, no failed
`finishTurn`, no close), as said above. Only model-checked is liveness (out of the prover's
reach): `TurnsAreAnswered`, `CallsReturn`, `WatchEnds` and the other `~>` properties of the
runs.

## Not modelled, and the plan

Left out of `TelegramIngress`: the read-only commands, `/project` and `/driver`, output
delivery and a queue file that cannot be removed. Left
out of `Reauthentication`: bursts (one that waits for the login is resumed with its first
part only, `telegram.js:1099`, 1327), commands while a record is pending (`/stop`, `/reset`
and `/project` leave it), the restart of the adapter (which forgets it), and a second
loss of Claude's login while the terminal of the first still shows its success (which is
then found alive and gives no page, `auth-manager.js:175-180`; the model has it, but no
property is about it). Left out for good: the HTTP layer, argument and environment
parsing, driver command lines, screen heuristics and the navigation model call,
transcription, vendor JSONL formats, message wording, the route store and the project
catalog. They are data, pure I/O or a file whose last writer wins.

What could follow:

1. `TelegramIngress` with `Reauthentication`: the burst that waits for the login, the
   commands that leave the record, and `/project` and `/driver` as barriers.
2. `WorkspaceTurns`: a prune that fails half-way, and the verdict that an early
   acknowledgement may overwrite.
3. Proofs: that without the exception for displaced turns the theorems hold of a `finally`
   that deletes only its own entry.
