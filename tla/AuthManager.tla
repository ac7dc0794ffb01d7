---------------------------- MODULE AuthManager ----------------------------
(***************************************************************************)
(* The daemon's login of one driver (drivers/auth-manager.js): the terminal *)
(* the login runs in, the cached status, and the calls of callers that may  *)
(* overlap.  `start` runs under the driver's start lock, `status` and       *)
(* `submit` do not.  An action is the code between two awaits; the many     *)
(* polls of a screen are one await that ends in any way the polls can.      *)
(*                                                                          *)
(* A terminal is a number, the how-manieth it is; its login page and the    *)
(* code it accepts carry that number.  Any tmux command may fail: `has` then *)
(* says there is no session, a pane that cannot be read counts as dead, and  *)
(* the other commands throw, so that the call returns with nothing.  The     *)
(* auth navigator only chooses keys and is left out, as is the operator's    *)
(* `--force`.                                                                *)
(***************************************************************************)
EXTENDS Naturals, Sequences, FiniteSets

CONSTANTS
  Caller,        \* calls that may be under way at once
  MaxTroubles,   \* bound: terminals that have ended, losses of the login and failures, when one more comes
  Device, Paste  \* the two login flows: codex's and claude's

ASSUME FlowsDiffer == Device # Paste
ASSUME AuthBounds == MaxTroubles \in Nat

VARIABLES
  flow,       \* which driver it is
  loggedIn,   \* whether the vendor accepts the driver's login
  cached,     \* statusCache says "authenticated" and has not expired
  terminal,   \* [n, phase] of cli-auth-<driver>
  exited,     \* terminals that ended by themselves (bookkeeping)
  startLock,  \* startLocks: the holder, then the waiters
  call,       \* [Caller -> where the call is and what it has found]
  losses,     \* times the login was lost (bookkeeping, for the bound)
  failures,   \* tmux commands and sends that failed (bookkeeping, for the bound)
  mistaken    \* terminals killed alive, for a query that failed (bookkeeping)

authVars == <<flow, loggedIn, cached, terminal, exited, startLock, call, losses, failures, mistaken>>
troubles == <<losses, failures, mistaken>>

(* parseAuthPrompt: "starting" shows neither a page nor a success, "awaiting" *)
(* shows the login page; "bare" is a shell the login was not started in; "none" *)
(* has no tmux session, "dead" a dead pane.                                     *)
Phases == {"none", "bare", "starting", "awaiting", "completed", "dead"}
Alive == terminal.phase \in {"bare", "starting", "awaiting", "completed"}

(* A call that is not under way; `url` is the page found, 0 for none; `ok` is  *)
(* `authenticated`, or for a submitted code that the screen says so; `code` is *)
(* the one being submitted.                                                    *)
Idle == [at |-> "idle", url |-> 0, ok |-> FALSE, code |-> 0]

AuthInit ==
  /\ flow \in {Device, Paste}
  /\ loggedIn \in BOOLEAN /\ cached \in {FALSE, loggedIn}
  /\ terminal = [n |-> 0, phase |-> "none"]
  /\ exited = {} /\ startLock = <<>> /\ losses = 0 /\ failures = 0 /\ mistaken = {}
  /\ call = [c \in Caller |-> Idle]

At(c, place) == call[c].at = place
Move(c, place) == call' = [call EXCEPT ![c].at = place]
MoreTrouble == Cardinality(exited) + losses + failures < MaxTroubles
Fails == MoreTrouble /\ failures' = failures + 1
Return(c, url, ok) == call' = [call EXCEPT ![c] = [at |-> "returned", url |-> url, ok |-> ok, code |-> 0]]

-----------------------------------------------------------------------------
(* What a caller does: begin a call, and take its answer. *)
CallStatus(c) ==
  /\ At(c, "idle")
  /\ IF cached THEN Return(c, 0, TRUE) ELSE Move(c, "probe")
  /\ UNCHANGED <<flow, loggedIn, cached, terminal, exited, startLock, troubles>>

CallStart(c) ==
  /\ At(c, "idle") /\ Move(c, "queued")
  /\ startLock' = Append(startLock, c)
  /\ UNCHANGED <<flow, loggedIn, cached, terminal, exited, troubles>>

(* A code needs a terminal; without one, or if it is not found, the call is     *)
(* refused.                                                                     *)
CallSubmit(c, code) ==
  /\ At(c, "idle")
  /\ \/ terminal.phase # "none" /\ call' = [call EXCEPT ![c] = [Idle EXCEPT !.at = "typing", !.code = code]]
        /\ UNCHANGED failures
     \/ terminal.phase = "none" /\ Return(c, 0, FALSE) /\ UNCHANGED failures
     \/ terminal.phase # "none" /\ Fails /\ Return(c, 0, FALSE)
  /\ UNCHANGED <<flow, loggedIn, cached, terminal, exited, startLock, losses, mistaken>>

(* To be used with one of the caller's own actions. *)
Answered(c) == At(c, "returned")

-----------------------------------------------------------------------------
(* status: the vendor's command has run.  It may fail, which is "unknown"; only *)
(* an authenticated answer is kept, for a minute.                               *)
Probe(c) ==
  /\ At(c, "probe")
  /\ \/ /\ loggedIn /\ cached' = TRUE /\ Return(c, 0, TRUE)
     \/ UNCHANGED cached /\ Return(c, 0, FALSE)
  /\ UNCHANGED <<flow, loggedIn, terminal, exited, startLock, troubles>>

(* withStartLock and the head of startLocked: a terminal that is alive is used  *)
(* again whatever it shows, any other one is killed.  (The first form of the    *)
(* lock's test, for a mutant, lets every caller in.)                            *)
NoLock(c) == TRUE
HoldsLock(c) == Head(startLock) = c
ReleaseLock == startLock' = Tail(startLock)
Throw(c) == Return(c, 0, FALSE) /\ ReleaseLock

Reuse(c) ==
  /\ Alive /\ Return(c, IF terminal.phase = "awaiting" THEN terminal.n ELSE 0, FALSE)
  /\ ReleaseLock /\ UNCHANGED <<terminal, failures, mistaken>>

(* A query that failed has said of a living terminal that it is not there, or    *)
(* that its pane is dead: it is killed as well.                                  *)
Replace(c) ==
  /\ \/ ~Alive /\ UNCHANGED <<failures, mistaken>>
     \/ Alive /\ Fails /\ mistaken' = mistaken \cup {terminal.n}
  /\ terminal' = [terminal EXCEPT !.phase = "none"]
  /\ Move(c, "launch") /\ UNCHANGED startLock

(* The screen cannot be read; or the terminal that should go has not gone, and   *)
(* createShell will not have it.                                                 *)
Stuck(c) == terminal.phase # "none" /\ Fails /\ Throw(c) /\ UNCHANGED <<terminal, mistaken>>

StartLocked(c) ==
  /\ At(c, "queued") /\ HoldsLock(c)
  /\ Reuse(c) \/ Replace(c) \/ Stuck(c)
  /\ UNCHANGED <<flow, loggedIn, cached, exited, losses>>

(* createShell and startCommand; either may throw.  *)
Launch(c) ==
  /\ At(c, "launch")
  /\ \/ /\ Move(c, "walk") /\ terminal' = [n |-> terminal.n + 1, phase |-> "starting"]
        /\ UNCHANGED <<startLock, failures>>
     \/ /\ Fails /\ Throw(c)
        /\ terminal' \in {terminal, [n |-> terminal.n + 1, phase |-> "bare"]}
  /\ UNCHANGED <<flow, loggedIn, cached, exited, losses, mistaken>>

(* The walk ends at a login page, a success, a dead pane, or its deadline.  The   *)
(* screen of a dead pane, or of one that cannot be read any more, may still show  *)
(* the page, and it is returned.                                                  *)
PagesOnScreen ==
  CASE terminal.phase = "awaiting" -> {terminal.n}
    [] terminal.phase = "dead"     -> {0, terminal.n}
    [] OTHER                       -> {0}

Walk(c) ==
  /\ At(c, "walk")
  /\ \/ \E url \in PagesOnScreen : Return(c, url, FALSE) /\ ReleaseLock /\ UNCHANGED failures
     \/ Fails /\ Throw(c)
  /\ UNCHANGED <<flow, loggedIn, cached, terminal, exited, losses, mistaken>>

(* submit types the code into the terminal there is now; its own page takes it. *)
(* It throws if there is none any more, or if a command fails.                  *)
Typed(c) ==
  /\ At(c, "typing")
  /\ \/ /\ terminal.phase # "none" /\ Move(c, "watching") /\ UNCHANGED failures
        /\ LET accepted == flow = Paste /\ terminal = [n |-> call[c].code, phase |-> "awaiting"]
           IN /\ loggedIn' = (loggedIn \/ accepted)
              /\ terminal' = IF accepted THEN [terminal EXCEPT !.phase = "completed"] ELSE terminal
     \/ /\ Return(c, 0, FALSE) /\ UNCHANGED <<loggedIn, terminal>>
        /\ (terminal.phase = "none" /\ UNCHANGED failures) \/ (terminal.phase # "none" /\ Fails)
  /\ UNCHANGED <<flow, cached, exited, startLock, losses, mistaken>>

(* The screen shows a success, a failure or neither until the deadline; then    *)
(* status, from the cache or the vendor, has the last word if it is positive.   *)
(* A screen that cannot be read throws.                                         *)
Watched(c) ==
  /\ At(c, "watching")
  /\ \/ /\ cached \/ loggedIn
        /\ cached' = TRUE /\ Return(c, 0, TRUE) /\ UNCHANGED failures
     \/ /\ ~cached /\ UNCHANGED <<cached, failures>>
        /\ Return(c, 0, terminal.phase = "completed")
     \/ Fails /\ Return(c, 0, FALSE) /\ UNCHANGED cached
  /\ UNCHANGED <<flow, loggedIn, terminal, exited, startLock, losses, mistaken>>

AuthStep(c) ==
  Probe(c) \/ StartLocked(c) \/ Launch(c) \/ Walk(c) \/ Typed(c) \/ Watched(c)

-----------------------------------------------------------------------------
(* The world: the terminal draws its page or exits, a human approves in the    *)
(* browser (the device flow ends and its command exits), a minute passes, the  *)
(* vendor takes the login away.                                                *)
Draw ==
  /\ terminal.phase = "starting" /\ terminal' = [terminal EXCEPT !.phase = "awaiting"]
  /\ UNCHANGED <<flow, loggedIn, cached, exited, startLock, call, troubles>>

Exit ==
  /\ Alive /\ MoreTrouble /\ terminal' = [terminal EXCEPT !.phase = "dead"] /\ exited' = exited \cup {terminal.n}
  /\ UNCHANGED <<flow, loggedIn, cached, startLock, call, troubles>>

Approve ==
  /\ flow = Device /\ terminal.phase = "awaiting" /\ ~loggedIn
  /\ loggedIn' = TRUE
  /\ terminal' = [terminal EXCEPT !.phase = "dead"] /\ exited' = exited \cup {terminal.n}
  /\ UNCHANGED <<flow, cached, startLock, call, troubles>>

CacheExpires ==
  /\ cached /\ cached' = FALSE
  /\ UNCHANGED <<flow, loggedIn, terminal, exited, startLock, call, troubles>>

Lose ==
  /\ loggedIn /\ MoreTrouble
  /\ loggedIn' = FALSE /\ losses' = losses + 1
  /\ UNCHANGED <<flow, cached, terminal, exited, startLock, call, failures, mistaken>>

World == Draw \/ Exit \/ Approve \/ CacheExpires \/ Lose

(* The holder of the start lock is past the queue, the waiters are in it. *)
AuthTypeOK ==
  /\ flow \in {Device, Paste} /\ loggedIn \in BOOLEAN /\ cached \in BOOLEAN
  /\ terminal \in [n : Nat, phase : Phases]
  /\ losses \in Nat /\ failures \in Nat /\ mistaken \subseteq Nat
  /\ startLock \in Seq(Caller)
  /\ \A c \in Caller :
       /\ call[c].at \in {"idle", "probe", "queued", "launch", "walk", "typing", "watching", "returned"}
       /\ call[c].at \in {"queued", "launch", "walk"} <=> \E i \in 1 .. Len(startLock) : startLock[i] = c
       /\ call[c].at \in {"launch", "walk"} => Head(startLock) = c

=============================================================================
