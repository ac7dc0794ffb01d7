-------------------------- MODULE Reauthentication --------------------------
(***************************************************************************)
(* A login repaired through the chat (surface/telegram.js 1064-1346, spec  *)
(* 0023): the messages of one route against the daemon's AuthManager and    *)
(* session.  A message that finds the login gone starts the login terminal, *)
(* sends its page to the chat and leaves a pending record behind; a timer   *)
(* polls the status, or a pasted code is submitted, and the message is      *)
(* handled again.                                                           *)
(*                                                                          *)
(* Two kinds of call overlap: 0 is the route's chain, which handles one     *)
(* message at a time; p > 0 is the timer's callback of pending record p,    *)
(* which handles the record's message again, outside the chain.             *)
(*                                                                          *)
(* Whatever is sent may not arrive.  The sends of the repair swallow that;  *)
(* an answer that fails is followed by an error message, and is `unsaid` if *)
(* that fails too.                                                          *)
(***************************************************************************)
EXTENDS AuthManager

CONSTANTS
  MaxMessage,  \* bound: messages sent
  MaxPending,  \* bound: pending records made
  MaxCodes     \* bound: codes sent

Message == 1 .. MaxMessage
Record == 1 .. MaxPending
Fiber == 0 .. MaxPending

ASSUME CallersAreFibers == Caller = Fiber
ASSUME ReauthBounds == MaxMessage \in Nat /\ MaxPending \in Nat /\ MaxCodes \in Nat

VARIABLES
  sent,        \* messages sent to the chat so far
  inbox,       \* what waits for the chain: [text, code], one of them 0
  codes,       \* codes sent (bookkeeping, for the bound)
  pc,          \* [Fiber -> the await the call is on]
  handling,    \* [Fiber -> the message it handles]
  existing,    \* [Fiber -> the pending record beginReauth has read]
  code,        \* the code the chain submits, and for which record
  pending,     \* pendingReauth of the route: a record, or 0
  original,    \* [Record -> its message]
  urlSent,     \* [Record -> whether the chat has a page]
  late,        \* [Record -> whether its deadline has passed]
  made,        \* records made
  turn,        \* [Message -> the turn under its idempotency key]
  told,        \* [Message -> what its sender knows]
  shown,       \* pages sent to the chat
  disturbed    \* the login went while a message waited, or a status was stale

route == <<sent, inbox, codes>>
fibers == <<pc, handling, existing, code>>
records == <<pending, original, urlSent, late, made>>
outcome == <<turn, told, shown>>
vars == <<authVars, route, fibers, records, outcome, disturbed>>

Init ==
  /\ AuthInit
  /\ sent = 0 /\ inbox = <<>> /\ codes = 0
  /\ pc = [f \in Fiber |-> IF f = 0 THEN "idle" ELSE "off"]
  /\ handling = [f \in Fiber |-> 0] /\ existing = [f \in Fiber |-> 0]
  /\ code = [value |-> 0, record |-> 0]
  /\ pending = 0 /\ made = 0
  /\ original = [p \in Record |-> 0]
  /\ urlSent = [p \in Record |-> FALSE] /\ late = [p \in Record |-> FALSE]
  /\ turn = [m \in Message |-> "none"] /\ told = [m \in Message |-> "nothing"]
  /\ shown = {} /\ disturbed = FALSE

Goto(f, label) == pc' = [pc EXCEPT ![f] = label]
Tell(m, what) == told' = [told EXCEPT ![m] = what]

(* Taking the answer of a call, and beginning the next one. *)
Taken(f) == call' = [call EXCEPT ![f] = Idle]
AuthButCall == <<flow, loggedIn, cached, terminal, exited, startLock, troubles>>
AuthButFailures == <<flow, loggedIn, cached, terminal, exited, startLock, call, losses, mistaken>>
AuthButCallAndFailures == <<flow, loggedIn, cached, terminal, exited, startLock, losses, mistaken>>

(* The last words to a sender, which may not arrive; and a page, the same. *)
Say(m, what) ==
  \/ Tell(m, what) /\ UNCHANGED failures
  \/ Tell(m, "unsaid") /\ Fails
Show(url) ==
  \/ shown' = shown \cup ({url} \ {0}) /\ UNCHANGED failures
  \/ url # 0 /\ UNCHANGED shown /\ Fails

-----------------------------------------------------------------------------
(* The chat.  A code comes from a page that was shown and approved. *)
SendText ==
  /\ sent < MaxMessage /\ sent' = sent + 1
  /\ inbox' = Append(inbox, [text |-> sent + 1, code |-> 0])
  /\ UNCHANGED <<authVars, codes, fibers, records, outcome, disturbed>>

SendCode(n) ==
  /\ flow = Paste /\ n \in shown /\ codes < MaxCodes /\ codes' = codes + 1
  /\ inbox' = Append(inbox, [text |-> 0, code |-> n])
  /\ UNCHANGED <<authVars, sent, fibers, records, outcome, disturbed>>

(* handle: a code goes to the pending record, or is an ordinary message if      *)
(* there is none (which is left out); a text is an ordinary message.            *)
Take ==
  /\ pc[0] = "idle" /\ inbox # <<>> /\ inbox' = Tail(inbox)
  /\ LET message == Head(inbox)
     IN \/ /\ message.text # 0
           /\ Goto(0, "ensure") /\ handling' = [handling EXCEPT ![0] = message.text]
           /\ UNCHANGED code
        \/ /\ message.code # 0 /\ pending # 0
           /\ Goto(0, "code") /\ code' = [value |-> message.code, record |-> pending]
           /\ UNCHANGED handling
        \/ message.code # 0 /\ pending = 0 /\ UNCHANGED <<pc, handling, code>>
  /\ UNCHANGED <<authVars, sent, codes, existing, records, outcome, disturbed>>

-----------------------------------------------------------------------------
(* handleOrdinary is over: the chain takes the next message; a timer's callback *)
(* comes to its finally, and polls on if its record is the route's own.  (The   *)
(* first form, for a mutant, polls on only while the page is missing.)          *)
AfterRunOnlyUntilThePage(f) == IF f = 0 THEN "idle" ELSE IF pending' = f /\ ~urlSent[f] THEN "armed" ELSE "off"
AfterRun(f) == IF f = 0 THEN "idle" ELSE IF pending' = f THEN "armed" ELSE "off"
Over(f) == Goto(f, AfterRun(f)) /\ handling' = [handling EXCEPT ![f] = 0]

(* beginReauth reads the pending record, then awaits the start of the login. *)
BeginReauth(f) ==
  /\ Goto(f, "starting")
  /\ existing' = [existing EXCEPT ![f] = pending]
  /\ CallStart(f)

(* ensureSession and restart: the driver shows its composer or its login. *)
Ensure(f) ==
  /\ pc[f] = "ensure"
  /\ \/ loggedIn /\ Goto(f, "turn") /\ UNCHANGED <<existing, authVars>>
     \/ ~loggedIn /\ BeginReauth(f)
  /\ UNCHANGED <<route, handling, code, records, outcome, disturbed>>

(* The submission and its wait.  The daemon answers a message it knows with the  *)
(* turn it has, and refuses a new one while another is running; a turn fails      *)
(* when the login goes before it ends, and the session then needs a login.       *)
Turn(f) ==
  LET m == handling[f]
  IN /\ pc[f] = "turn" /\ UNCHANGED records
     /\ \/ /\ turn[m] # "none"
           /\ Say(m, IF turn[m] = "completed" THEN "answered" ELSE "error") /\ Over(f)
           /\ UNCHANGED <<turn, existing, AuthButFailures>>
        \/ /\ turn[m] = "none" /\ \E g \in Fiber \ {f} : pc[g] = "turn" /\ handling[g] # m
           /\ Say(m, "busy") /\ Over(f)
           /\ UNCHANGED <<turn, existing, AuthButFailures>>
        \/ /\ turn[m] = "none" /\ loggedIn
           /\ turn' = [turn EXCEPT ![m] = "completed"] /\ Say(m, "answered") /\ Over(f)
           /\ UNCHANGED <<existing, AuthButFailures>>
        \/ /\ turn[m] = "none" /\ ~loggedIn
           /\ turn' = [turn EXCEPT ![m] = "failed"] /\ UNCHANGED <<told, handling>>
           /\ BeginReauth(f)
     /\ UNCHANGED <<route, code, shown, disturbed>>

(* The start has returned and its instructions are sent, with the page if there  *)
(* is one: the record read before is refreshed, or a new one made and its timer   *)
(* set.  The record resumes its own message only: one that joins it is told to   *)
(* log in, and is over.                                                          *)
Register(f) ==
  /\ pc[f] = "starting" /\ Answered(f) /\ Taken(f)
  /\ LET url == call[f].url
     IN /\ Show(url)
        /\ IF existing[f] # 0
             THEN /\ late' = [late EXCEPT ![existing[f]] = FALSE]
                  /\ urlSent' = [urlSent EXCEPT ![existing[f]] = @ \/ url # 0]
                  /\ Tell(handling[f], "joined") /\ UNCHANGED <<pending, original, made>>
                  /\ Goto(f, AfterRun(f))
             ELSE /\ made < MaxPending
                  /\ made' = made + 1 /\ pending' = made'
                  /\ original' = [original EXCEPT ![made'] = handling[f]]
                  /\ urlSent' = [urlSent EXCEPT ![made'] = url # 0]
                  /\ Tell(handling[f], "waits")
                  /\ pc' = [pc EXCEPT ![f] = AfterRun(f), ![made'] = "armed"]
                  /\ UNCHANGED late
  /\ handling' = [handling EXCEPT ![f] = 0] /\ existing' = [existing EXCEPT ![f] = 0]
  /\ UNCHANGED <<AuthButCallAndFailures, route, code, turn, disturbed>>

-----------------------------------------------------------------------------
(* finishReauth, by a timer's callback or by the chain: the route's record goes, *)
(* whichever it is, the finished one's timer is cleared, and its message is      *)
(* handled again.                                                                *)
FinishReauth(f, p) ==
  /\ pending' = 0
  /\ handling' = [handling EXCEPT ![f] = original[p]]
  /\ pc' = [g \in Fiber |-> CASE g = f -> "ensure"
                              [] g = p /\ g # f /\ pc[g] = "armed" -> "off"
                              [] OTHER -> pc[g]]

(* completeReauthWithCode. *)
SubmitCode ==
  /\ pc[0] = "code" /\ CallSubmit(0, code.value) /\ Goto(0, "submitted")
  /\ UNCHANGED <<route, handling, existing, code, records, outcome, disturbed>>

CodeAnswered ==
  /\ pc[0] = "submitted" /\ Answered(0) /\ Taken(0)
  /\ IF call[0].ok
       THEN FinishReauth(0, code.record)
       ELSE Goto(0, "idle") /\ UNCHANGED <<pending, handling>>
  /\ code' = [value |-> 0, record |-> 0]
  /\ UNCHANGED <<AuthButCall, route, existing, original, urlSent, late, made, outcome, disturbed>>

(* The timer fires.  A record that is no longer the route's is left alone; a     *)
(* late one is given up with a notice.                                           *)
Poll(p) ==
  /\ pc[p] = "armed"
  /\ \/ /\ pending # p /\ Goto(p, "off") /\ UNCHANGED <<authVars, pending, told>>
     \/ /\ pending = p /\ late[p]
        /\ pending' = 0 /\ Say(original[p], "expired") /\ Goto(p, "off")
        /\ UNCHANGED AuthButFailures
     \/ /\ pending = p /\ ~late[p]
        /\ CallStatus(p) /\ Goto(p, "status") /\ UNCHANGED <<pending, told>>
  /\ UNCHANGED <<route, handling, existing, code, original, urlSent, late, made, turn, shown, disturbed>>

(* The status has come: the message is resumed, or a missing page is asked for. *)
PollAnswered(p) ==
  /\ pc[p] = "status" /\ Answered(p)
  /\ \/ /\ call[p].ok /\ Taken(p) /\ FinishReauth(p, p)
        /\ UNCHANGED <<AuthButCall>>
     \/ /\ ~call[p].ok /\ urlSent[p] /\ Taken(p) /\ UNCHANGED <<AuthButCall, pending, handling>>
        /\ Goto(p, AfterRun(p))
     \/ /\ ~call[p].ok /\ ~urlSent[p] /\ Goto(p, "refresh")
        /\ call' = [call EXCEPT ![p] = [Idle EXCEPT !.at = "queued"]]
        /\ startLock' = Append(startLock, p)
        /\ UNCHANGED <<flow, loggedIn, cached, terminal, exited, troubles, pending, handling>>
  /\ UNCHANGED <<route, existing, code, original, urlSent, late, made, outcome, disturbed>>

Refreshed(p) ==
  /\ pc[p] = "refresh" /\ Answered(p) /\ Taken(p)
  /\ urlSent' = [urlSent EXCEPT ![p] = @ \/ call[p].url # 0]
  /\ Show(call[p].url)
  /\ UNCHANGED <<AuthButCallAndFailures, route, handling, existing, code, pending, original, late, made, turn, told, disturbed>>
  /\ Goto(p, AfterRun(p))

(* A deadline passes. *)
Late(p) ==
  /\ p <= made /\ ~late[p] /\ pending = p
  /\ late' = [late EXCEPT ![p] = TRUE]
  /\ UNCHANGED <<authVars, route, fibers, pending, original, urlSent, made, outcome, disturbed>>

FiberStep(f) ==
  Ensure(f) \/ Turn(f) \/ Register(f)

TimerStep(p) ==
  Poll(p) \/ PollAnswered(p) \/ Refreshed(p)

ChainStep == Take \/ SubmitCode \/ CodeAnswered

DaemonStep(c) == AuthStep(c) /\ UNCHANGED <<route, fibers, records, outcome, disturbed>>

Runs(f) ==
  \/ FiberStep(f) \/ DaemonStep(f)
  \/ f = 0 /\ ChainStep
  \/ f # 0 /\ TimerStep(f)

Repairing ==
  (\E m \in Message : told[m] = "waits") \/ (\E p \in Record : pc[p] # "off")

WorldStep ==
  /\ World
  /\ disturbed' = (disturbed \/ (cached' /\ ~loggedIn')
                     \/ (loggedIn /\ ~loggedIn' /\ Repairing))
  /\ UNCHANGED <<route, fibers, records, outcome>>

Next ==
  \/ SendText
  \/ \E n \in shown : SendCode(n)
  \/ \E f \in Fiber : Runs(f)
  \/ \E p \in Record : Late(p)
  \/ WorldStep

Spec == Init /\ [][Next]_vars

(* Calls of the daemon and sends to Telegram end, timers fire, a deadline comes, *)
(* a minute passes.  Nothing is assumed of the human, the terminal or the vendor. *)
FairSpec ==
  /\ Spec
  /\ \A f \in Fiber : WF_vars(Runs(f))
  /\ \A p \in Record : WF_vars(Late(p))

-----------------------------------------------------------------------------
TypeOK ==
  /\ AuthTypeOK
  /\ pc[0] \in {"idle", "ensure", "turn", "starting", "code", "submitted"}
  /\ \A p \in Record :
       /\ pc[p] \in {"off", "armed", "status", "refresh", "ensure", "turn", "starting"}
       /\ p > made => pc[p] = "off"
  /\ \A f \in Fiber : call[f].at # "idle" => pc[f] \in {"starting", "submitted", "status", "refresh"}
  /\ pending \in 0 .. made /\ (pending # 0 => pc[pending] # "off")

(* Every page that was sent to the chat is the one of the terminal there is, or  *)
(* of one that ended by itself or was taken for ended because tmux failed:        *)
(* nobody who is told to log in has the terminal taken away by another message's  *)
(* start (auth-manager.js:52, 175-182).                                           *)
ShownPageIsLive ==
  TypeOK /\ \A n \in shown : n = terminal.n \/ n \in exited \/ n \in mistaken

(* The same without the exception, which no run checks.  It fails: a query that   *)
(* fails counts as a dead pane (auth-manager.js:177) or as no session             *)
(* (tmux.js:38-40), and the terminal whose page was shown is killed (182).        *)
ShownPageIsNeverTaken ==
  \A n \in shown : n = terminal.n \/ n \in exited

(* A message that waits for the login is answered, or its sender is told that    *)
(* the attempt expired, whatever else is sent meanwhile (telegram.js:1262-1346); *)
(* unless these words could not be sent, the login went again while it waited,   *)
(* or a status was out of date.                                                  *)
Settled == {"answered", "busy", "error", "expired", "unsaid"}
WaitingIsAnswered ==
  \A m \in Message : told[m] = "waits" ~> (told[m] \in Settled \/ disturbed)

(* So is a message that found the repair under way, which was promised the same   *)
(* (telegram.js:174-188).  No run checks it, for it fails: the record keeps the   *)
(* first message only (1270-1276).                                                *)
JoinedIsAnswered ==
  \A m \in Message : told[m] = "joined" ~> (told[m] \in Settled \/ disturbed)

(* A resumed message gets a turn that runs with the login (0023's "re-runs the   *)
(* original message").  It fails: the turn that lost the login is found again by *)
(* the message's idempotency key (session-manager.js:605-608).                   *)
ResumptionReruns ==
  ~disturbed => \A f \in Fiber : pc[f] = "turn" => turn[handling[f]] # "failed"

=============================================================================
