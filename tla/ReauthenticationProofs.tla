------------------------- MODULE ReauthenticationProofs -------------------------
(***************************************************************************)
(* Proofs about Reauthentication and AuthManager, for any number of         *)
(* messages, pending records, overlapping calls and lost logins.            *)
(***************************************************************************)
EXTENDS Reauthentication, TLAPS

Places == {"idle", "probe", "queued", "launch", "walk", "typing", "watching", "returned"}
InLine == {"queued", "launch", "walk"}
ACall  == [at : Places, url : Nat, ok : BOOLEAN, code : Nat]

CallTypes == call \in [Caller -> ACall] /\ startLock \in Seq(Caller)

(* The start lock has no call twice, has exactly the calls in line, and only its  *)
(* head is past the queue.                                                       *)
LockInv ==
  /\ \A i, j \in 1 .. Len(startLock) : startLock[i] = startLock[j] => i = j
  /\ \A c \in Caller : call[c].at \in InLine <=> \E i \in 1 .. Len(startLock) : startLock[i] = c
  /\ \A c \in Caller : call[c].at \in {"launch", "walk"} => startLock # <<>> /\ Head(startLock) = c

Live(n) == n = 0 \/ n = terminal.n \/ n \in exited \/ n \in mistaken

(* A terminal is replaced only when it has ended, or tmux failed to say that it has *)
(* not, and the page a call has found is the terminal's there is or such a one's.   *)
PageInv ==
  /\ terminal \in [n : Nat, phase : Phases]
  /\ terminal.phase \in {"none", "dead"} => terminal.n = 0 \/ terminal.n \in exited \/ terminal.n \in mistaken
  /\ \A c \in Caller : call[c].at = "launch" => terminal.phase = "none"
  /\ \A c \in Caller : Live(call[c].url)

AuthInv == CallTypes /\ LockInv /\ PageInv

-----------------------------------------------------------------------------
(* What a step of the chat does to the daemon's calls. *)
MayFail == failures' \in {failures, failures + 1}

TakeAnswer(c) == Answered(c) /\ Taken(c) /\ UNCHANGED AuthButCallAndFailures /\ MayFail

AskAgain(c) ==
  /\ Answered(c)
  /\ call' = [call EXCEPT ![c] = [Idle EXCEPT !.at = "queued"]]
  /\ startLock' = Append(startLock, c)
  /\ UNCHANGED <<flow, loggedIn, cached, terminal, exited, troubles>>

AuthMove ==
  \/ \E c \in Caller :
       \/ CallStatus(c) \/ CallStart(c) \/ TakeAnswer(c) \/ AskAgain(c) \/ AuthStep(c)
       \/ \E n \in Nat : CallSubmit(c, n)
  \/ World
  \/ UNCHANGED AuthButFailures /\ MayFail

LEMMA AuthInvInitially == AuthInit => AuthInv
  BY DEF AuthInit, AuthInv, CallTypes, LockInv, PageInv, ACall, Places, InLine, Live, Idle, Phases

(* A call joins the line. *)
LEMMA Joins ==
  ASSUME CallTypes, LockInv, NEW c \in Caller, call[c].at \notin InLine,
         NEW r \in ACall, r.at = "queued", call' = [call EXCEPT ![c] = r],
         startLock' = Append(startLock, c)
  PROVE  CallTypes' /\ LockInv'
<1>1. CallTypes' BY DEF CallTypes
<1>2. /\ Len(startLock') = Len(startLock) + 1 /\ startLock'[Len(startLock) + 1] = c
      /\ \A i \in 1 .. Len(startLock) : startLock'[i] = startLock[i] /\ startLock[i] \in Caller
      /\ Len(startLock) \in Nat
  BY DEF CallTypes
<1>3. \A i \in 1 .. Len(startLock) : startLock[i] # c BY DEF LockInv
<1>4. \A d \in Caller : call'[d] = IF d = c THEN r ELSE call[d] BY DEF CallTypes
<1>5. \A i, j \in 1 .. Len(startLock') : startLock'[i] = startLock'[j] => i = j
  BY <1>2, <1>3 DEF LockInv
<1>6. \A d \in Caller : call'[d].at \in InLine <=> \E i \in 1 .. Len(startLock') : startLock'[i] = d
  BY <1>2, <1>3, <1>4 DEF LockInv, InLine
<1>7. \A d \in Caller : call'[d].at \in {"launch", "walk"} => startLock' # <<>> /\ Head(startLock') = d
  <2> TAKE d \in Caller
  <2> HAVE call'[d].at \in {"launch", "walk"}
  <2>1. d # c /\ startLock # <<>> /\ Head(startLock) = d BY <1>4 DEF LockInv
  <2> QED BY <2>1 DEF CallTypes
<1> QED BY <1>1, <1>5, <1>6, <1>7 DEF LockInv

(* The head of the line leaves it. *)
LEMMA Leaves ==
  ASSUME CallTypes, LockInv, NEW c \in Caller, startLock # <<>>, Head(startLock) = c,
         NEW r \in ACall, r.at \notin InLine, call' = [call EXCEPT ![c] = r],
         startLock' = Tail(startLock)
  PROVE  CallTypes' /\ LockInv'
<1>1. CallTypes' BY DEF CallTypes
<1>2. /\ Len(startLock') = Len(startLock) - 1 /\ startLock[1] = c
      /\ \A i \in 1 .. Len(startLock') : startLock'[i] = startLock[i + 1]
      /\ Len(startLock) \in Nat /\ Len(startLock) > 0
  BY DEF CallTypes
<1>3. \A d \in Caller : call'[d] = IF d = c THEN r ELSE call[d] BY DEF CallTypes
<1>4. \A i \in 1 .. Len(startLock') : i + 1 \in 1 .. Len(startLock) /\ startLock[i + 1] # c
  BY <1>2 DEF LockInv
<1>5. \A i, j \in 1 .. Len(startLock') : startLock'[i] = startLock'[j] => i = j
  BY <1>2, <1>4 DEF LockInv
<1>6. \A d \in Caller : call'[d].at \in InLine <=> \E i \in 1 .. Len(startLock') : startLock'[i] = d
  <2> TAKE d \in Caller
  <2>1. CASE d = c BY <1>2, <1>3, <1>4, <2>1
  <2>2. CASE d # c
    <3>1. call'[d] = call[d] BY <1>3, <2>2
    <3>2. ASSUME NEW i \in 1 .. Len(startLock), startLock[i] = d PROVE \E k \in 1 .. Len(startLock') : startLock'[k] = d
      <4>1. i # 1 BY <1>2, <2>2, <3>2
      <4>2. i - 1 \in 1 .. Len(startLock') /\ startLock'[i - 1] = d BY <1>2, <3>2, <4>1
      <4> QED BY <4>2
    <3>3. ASSUME NEW i \in 1 .. Len(startLock'), startLock'[i] = d PROVE \E k \in 1 .. Len(startLock) : startLock[k] = d
      BY <1>2, <1>4, <3>3
    <3> QED BY <3>1, <3>2, <3>3 DEF LockInv
  <2> QED BY <2>1, <2>2
<1>7. \A d \in Caller : call'[d].at \notin {"launch", "walk"}
  BY <1>3 DEF LockInv, InLine
<1> QED BY <1>1, <1>5, <1>6, <1>7 DEF LockInv

(* A call moves without leaving or joining; only the head goes past the queue. *)
LEMMA Stays ==
  ASSUME CallTypes, LockInv, NEW c \in Caller, NEW r \in ACall,
         r.at \in InLine <=> call[c].at \in InLine,
         r.at \in {"launch", "walk"} => startLock # <<>> /\ Head(startLock) = c,
         call' = [call EXCEPT ![c] = r], startLock' = startLock
  PROVE  CallTypes' /\ LockInv'
<1>1. CallTypes' BY DEF CallTypes
<1>2. \A d \in Caller : call'[d] = IF d = c THEN r ELSE call[d] BY DEF CallTypes
<1> QED BY <1>1, <1>2 DEF LockInv

(* A call moves and the terminal stays. *)
LEMMA PageStays ==
  ASSUME CallTypes, PageInv, NEW c \in Caller, NEW r \in ACall, Live(r.url),
         r.at = "launch" => terminal.phase = "none",
         call' = [call EXCEPT ![c] = r], UNCHANGED <<terminal, exited, mistaken>>
  PROVE  PageInv'
<1>1. \A d \in Caller : call'[d] = IF d = c THEN r ELSE call[d] BY DEF CallTypes
<1> QED BY <1>1 DEF PageInv, Live

LEMMA IdleIsACall == Idle \in ACall /\ Idle.at = "idle" /\ Idle.url = 0
  BY DEF Idle, ACall, Places

LEMMA Answer ==
  ASSUME NEW url \in Nat, NEW ok \in BOOLEAN
  PROVE  LET r == [at |-> "returned", url |-> url, ok |-> ok, code |-> 0]
         IN r \in ACall /\ r.at = "returned" /\ r.url = url
  BY DEF ACall, Places

LEMMA MoveIsACall ==
  ASSUME NEW r \in ACall, NEW place \in Places
  PROVE  [r EXCEPT !.at = place] \in ACall /\ [r EXCEPT !.at = place].at = place /\ [r EXCEPT !.at = place].url = r.url
  BY DEF ACall

(* The steps of one call. *)
LEMMA CallsKeepAuthInv ==
  ASSUME AuthInv, NEW c \in Caller,
         \/ CallStatus(c) \/ CallStart(c) \/ TakeAnswer(c) \/ AskAgain(c) \/ AuthStep(c)
         \/ \E n \in Nat : CallSubmit(c, n)
  PROVE  AuthInv'
<1>1. CallTypes /\ LockInv /\ PageInv /\ call[c] \in ACall /\ Live(call[c].url) /\ terminal.n \in Nat
  BY DEF AuthInv, CallTypes, PageInv
<1>2. Live(0) /\ Live(terminal.n) BY DEF Live
<1>3. ASSUME NEW r \in ACall, call' = [call EXCEPT ![c] = r], UNCHANGED <<terminal, exited, mistaken, startLock>>,
             r.at \notin InLine, call[c].at \notin InLine, Live(r.url)
      PROVE  AuthInv'
  BY <1>1, <1>3, Stays, PageStays DEF AuthInv, InLine
<1>4. CASE CallStatus(c)
  <2>1. CASE cached
    <3>1. [at |-> "returned", url |-> 0, ok |-> TRUE, code |-> 0] \in ACall BY Answer
    <3> QED BY <1>2, <1>3, <1>4, <2>1, <3>1 DEF CallStatus, At, Return, InLine, troubles
  <2>2. CASE ~cached
    <3>1. [call[c] EXCEPT !.at = "probe"] \in ACall /\ [call[c] EXCEPT !.at = "probe"].at = "probe"
          /\ [call[c] EXCEPT !.at = "probe"].url = call[c].url
      BY <1>1, MoveIsACall DEF Places
    <3> QED BY <1>1, <1>3, <1>4, <2>2, <3>1 DEF CallStatus, At, Move, InLine, troubles
  <2> QED BY <2>1, <2>2
<1>5. CASE CallStart(c)
  <2>1. [call[c] EXCEPT !.at = "queued"] \in ACall /\ [call[c] EXCEPT !.at = "queued"].at = "queued"
        /\ [call[c] EXCEPT !.at = "queued"].url = call[c].url
    BY <1>1, MoveIsACall DEF Places
  <2>2. /\ call' = [call EXCEPT ![c] = [call[c] EXCEPT !.at = "queued"]] /\ call[c].at \notin InLine
        /\ startLock' = Append(startLock, c) /\ UNCHANGED <<terminal, exited, mistaken>>
    BY <1>5 DEF CallStart, At, Move, InLine, troubles
  <2> QED BY <1>1, <2>1, <2>2, Joins, PageStays DEF AuthInv
<1>6. CASE TakeAnswer(c)
  BY <1>2, <1>3, <1>6, IdleIsACall DEF TakeAnswer, Answered, At, Taken, AuthButCallAndFailures, InLine
<1>7. CASE AskAgain(c)
  <2>1. [Idle EXCEPT !.at = "queued"] \in ACall /\ [Idle EXCEPT !.at = "queued"].at = "queued"
        /\ [Idle EXCEPT !.at = "queued"].url = 0
    BY IdleIsACall, MoveIsACall DEF Places
  <2>2. /\ call' = [call EXCEPT ![c] = [Idle EXCEPT !.at = "queued"]] /\ call[c].at \notin InLine
        /\ startLock' = Append(startLock, c) /\ UNCHANGED <<terminal, exited, mistaken>>
    BY <1>7 DEF AskAgain, Answered, At, InLine, troubles
  <2> QED BY <1>1, <1>2, <2>1, <2>2, Joins, PageStays DEF AuthInv
<1>8. ASSUME NEW n \in Nat, CallSubmit(c, n) PROVE AuthInv'
  <2>1. [at |-> "returned", url |-> 0, ok |-> FALSE, code |-> 0] \in ACall BY Answer
  <2>2. [Idle EXCEPT !.at = "typing", !.code = n] \in ACall
        /\ [Idle EXCEPT !.at = "typing", !.code = n].at = "typing" /\ [Idle EXCEPT !.at = "typing", !.code = n].url = 0
    BY DEF Idle, ACall, Places
  <2>3. call[c].at \notin InLine /\ UNCHANGED <<terminal, exited, mistaken, startLock>> BY <1>8 DEF CallSubmit, At, InLine
  <2>4. CASE Return(c, 0, FALSE) BY <1>2, <1>3, <2>1, <2>3, <2>4 DEF InLine, Return
  <2>5. CASE call' = [call EXCEPT ![c] = [Idle EXCEPT !.at = "typing", !.code = n]]
    BY <1>2, <1>3, <2>2, <2>3, <2>5 DEF InLine
  <2> QED BY <1>8, <2>4, <2>5 DEF CallSubmit
<1>9. CASE Probe(c)
  <2>1. \E ok \in BOOLEAN : Return(c, 0, ok) BY <1>9 DEF Probe
  <2>2. PICK ok \in BOOLEAN : call' = [call EXCEPT ![c] = [at |-> "returned", url |-> 0, ok |-> ok, code |-> 0]]
    BY <2>1 DEF Return
  <2>3. [at |-> "returned", url |-> 0, ok |-> ok, code |-> 0] \in ACall BY Answer
  <2>4. call[c].at \notin InLine /\ UNCHANGED <<terminal, exited, mistaken, startLock>> BY <1>9 DEF Probe, At, InLine, troubles
  <2> QED BY <1>2, <1>3, <2>2, <2>3, <2>4 DEF InLine
<1>10. CASE Watched(c)
  <2>1. \E ok \in BOOLEAN : Return(c, 0, ok) BY <1>10 DEF Watched
  <2>2. PICK ok \in BOOLEAN : call' = [call EXCEPT ![c] = [at |-> "returned", url |-> 0, ok |-> ok, code |-> 0]]
    BY <2>1 DEF Return
  <2>3. [at |-> "returned", url |-> 0, ok |-> ok, code |-> 0] \in ACall BY Answer
  <2>4. call[c].at \notin InLine /\ UNCHANGED <<terminal, exited, mistaken, startLock>> BY <1>10 DEF Watched, At, InLine
  <2> QED BY <1>2, <1>3, <2>2, <2>3, <2>4 DEF InLine
<1>11. CASE StartLocked(c)
  <2>0. [at |-> "returned", url |-> 0, ok |-> FALSE, code |-> 0] \in ACall BY Answer
  <2>1. call[c].at = "queued" /\ Head(startLock) = c /\ startLock # <<>> /\ UNCHANGED exited
    BY <1>1, <1>11 DEF StartLocked, At, HoldsLock, LockInv, InLine, CallTypes
  <2>2. CASE Reuse(c)
    <3> DEFINE url == IF terminal.phase = "awaiting" THEN terminal.n ELSE 0
               r == [at |-> "returned", url |-> url, ok |-> FALSE, code |-> 0]
    <3>1. call' = [call EXCEPT ![c] = r] /\ startLock' = Tail(startLock) /\ UNCHANGED <<terminal, mistaken>>
      BY <2>2 DEF Reuse, Return, ReleaseLock
    <3>2. url \in Nat /\ Live(url) BY <1>1, <1>2
    <3> HIDE DEF url
    <3>3. r \in ACall /\ r.at = "returned" /\ r.url = url BY <3>2, Answer
    <3> HIDE DEF r
    <3> QED BY <1>1, <2>1, <3>1, <3>2, <3>3, Leaves, PageStays DEF AuthInv, InLine
  <2>3. CASE Replace(c)
    <3> DEFINE r == [call[c] EXCEPT !.at = "launch"]
    <3>1. call' = [call EXCEPT ![c] = r] /\ startLock' = startLock
          /\ terminal' = [terminal EXCEPT !.phase = "none"]
      BY <2>3 DEF Replace, Move
    <3>2. r \in ACall /\ r.at = "launch" /\ r.url = call[c].url BY <1>1, MoveIsACall DEF Places
    <3> HIDE DEF r
    <3>3. CallTypes' /\ LockInv' BY <1>1, <2>1, <3>1, <3>2, Stays DEF InLine
    <3>4. terminal' \in [n : Nat, phase : Phases] /\ terminal'.n = terminal.n /\ terminal'.phase = "none"
      BY <3>1 DEF AuthInv, PageInv, Phases
    <3>5. /\ mistaken \subseteq mistaken'
          /\ terminal.phase \in {"none", "dead"} \/ terminal.n \in mistaken'
      BY <2>3 DEF Replace, AuthInv, PageInv, Alive, Phases
    <3>6. \A d \in Caller : call'[d].url = call[d].url BY <1>1, <3>1, <3>2 DEF CallTypes
    <3>7. PageInv' BY <1>1, <2>1, <3>4, <3>5, <3>6 DEF PageInv, Live
    <3> QED BY <3>3, <3>7 DEF AuthInv
  <2>4. CASE Stuck(c)
    <3>1. /\ call' = [call EXCEPT ![c] = [at |-> "returned", url |-> 0, ok |-> FALSE, code |-> 0]]
          /\ startLock' = Tail(startLock) /\ UNCHANGED <<terminal, mistaken>>
      BY <2>4 DEF Stuck, Throw, Return, ReleaseLock
    <3> QED BY <1>1, <1>2, <2>0, <2>1, <3>1, Leaves, PageStays DEF AuthInv, InLine
  <2> QED BY <1>11, <2>2, <2>3, <2>4 DEF StartLocked
<1>12. CASE Launch(c)
  <2>1. call[c].at = "launch" /\ UNCHANGED <<exited, mistaken>> BY <1>12 DEF Launch, At
  <2>2. startLock # <<>> /\ Head(startLock) = c BY <1>1, <2>1 DEF LockInv
  <2>3. terminal.n = 0 \/ terminal.n \in exited \/ terminal.n \in mistaken BY <1>1, <2>1 DEF PageInv
  <2>4. \A d \in Caller : d # c => call[d].at # "launch" BY <1>1, <2>2 DEF LockInv
  <2>5. ASSUME NEW r \in ACall, r.at # "launch", Live(r.url), call' = [call EXCEPT ![c] = r],
               NEW phase \in Phases \ {"none", "dead"}, terminal' = [n |-> terminal.n + 1, phase |-> phase]
        PROVE  PageInv'
    <3>1. \A d \in Caller : Live(call[d].url)' BY <1>1, <2>1, <2>3, <2>5 DEF CallTypes, PageInv, Live
    <3>2. \A d \in Caller : call'[d].at # "launch" BY <1>1, <2>4, <2>5 DEF CallTypes
    <3>3. terminal' \in [n : Nat, phase : Phases] /\ terminal'.phase = phase BY <1>1, <2>5
    <3> QED BY <2>5, <3>1, <3>2, <3>3 DEF PageInv
  <2>6. CASE Move(c, "walk") /\ terminal' = [n |-> terminal.n + 1, phase |-> "starting"] /\ UNCHANGED startLock
    <3> DEFINE r == [call[c] EXCEPT !.at = "walk"]
    <3>1. call' = [call EXCEPT ![c] = r] BY <2>6 DEF Move
    <3>2. r \in ACall /\ r.at = "walk" /\ r.url = call[c].url BY <1>1, MoveIsACall DEF Places
    <3> HIDE DEF r
    <3>3. CallTypes' /\ LockInv' BY <1>1, <2>1, <2>2, <2>6, <3>1, <3>2, Stays DEF InLine
    <3>4. "starting" \in Phases \ {"none", "dead"} BY DEF Phases
    <3>5. PageInv' BY <1>1, <2>5, <2>6, <3>1, <3>2, <3>4
    <3> QED BY <3>3, <3>5 DEF AuthInv
  <2>7. CASE Throw(c) /\ terminal' \in {terminal, [n |-> terminal.n + 1, phase |-> "bare"]}
    <3> DEFINE r == [at |-> "returned", url |-> 0, ok |-> FALSE, code |-> 0]
    <3>1. call' = [call EXCEPT ![c] = r] /\ startLock' = Tail(startLock) BY <2>7 DEF Throw, Return, ReleaseLock
    <3>2. r \in ACall /\ r.at = "returned" /\ r.url = 0 BY Answer
    <3> HIDE DEF r
    <3>3. CallTypes' /\ LockInv' BY <1>1, <2>2, <3>1, <3>2, Leaves DEF InLine
    <3>4. "bare" \in Phases \ {"none", "dead"} BY DEF Phases
    <3>5. CASE terminal' = terminal BY <1>1, <1>2, <2>1, <3>1, <3>2, <3>3, <3>5, PageStays DEF AuthInv
    <3>6. CASE terminal' = [n |-> terminal.n + 1, phase |-> "bare"]
      <4>1. PageInv' BY <1>2, <2>5, <3>1, <3>2, <3>4, <3>6
      <4> QED BY <3>3, <4>1 DEF AuthInv
    <3> QED BY <2>7, <3>5, <3>6
  <2> QED BY <1>12, <2>6, <2>7 DEF Launch
<1>13. CASE Walk(c)
  <2>0. \E url \in PagesOnScreen \cup {0} : Return(c, url, FALSE) BY <1>13 DEF Walk, Throw
  <2>1. PICK url \in PagesOnScreen \cup {0} :
          call' = [call EXCEPT ![c] = [at |-> "returned", url |-> url, ok |-> FALSE, code |-> 0]]
    BY <2>0 DEF Return
  <2> DEFINE r == [at |-> "returned", url |-> url, ok |-> FALSE, code |-> 0]
  <2>2. startLock' = Tail(startLock) /\ UNCHANGED <<terminal, exited, mistaken>> /\ call[c].at = "walk"
    BY <1>13 DEF Walk, Throw, ReleaseLock, At
  <2>3. url \in Nat /\ Live(url) BY <1>1, <1>2, <2>1 DEF PagesOnScreen
  <2>4. r \in ACall /\ r.at = "returned" /\ r.url = url BY <2>3, Answer
  <2>5. startLock # <<>> /\ Head(startLock) = c BY <1>1, <2>2 DEF LockInv
  <2>6. call' = [call EXCEPT ![c] = r] BY <2>1
  <2> HIDE DEF r
  <2> QED BY <1>1, <2>2, <2>3, <2>4, <2>5, <2>6, Leaves, PageStays DEF AuthInv, InLine
<1>14. CASE Typed(c)
  <2>1. call[c].at = "typing" /\ UNCHANGED <<startLock, exited, mistaken>> BY <1>14 DEF Typed, At
  <2>2. CASE Return(c, 0, FALSE) /\ UNCHANGED terminal
    <3>1. [at |-> "returned", url |-> 0, ok |-> FALSE, code |-> 0] \in ACall BY Answer
    <3> QED BY <1>2, <1>3, <2>1, <2>2, <3>1 DEF Return, InLine
  <2>3. CASE Move(c, "watching")
    <3> DEFINE r == [call[c] EXCEPT !.at = "watching"]
    <3>1. call' = [call EXCEPT ![c] = r] BY <2>3 DEF Move
    <3>2. terminal' = terminal \/ (terminal.phase = "awaiting" /\ terminal' = [terminal EXCEPT !.phase = "completed"])
      <4>1. \/ terminal' = terminal
            \/ /\ terminal = [n |-> call[c].code, phase |-> "awaiting"]
               /\ terminal' = [terminal EXCEPT !.phase = "completed"]
        BY <1>14, Zenon DEF Typed
      <4>2. terminal = [n |-> call[c].code, phase |-> "awaiting"] => terminal.phase = "awaiting" OBVIOUS
      <4> QED BY <4>1, <4>2
    <3>3. r \in ACall /\ r.at = "watching" /\ r.url = call[c].url BY <1>1, MoveIsACall DEF Places
    <3> HIDE DEF r
    <3>4. CallTypes' /\ LockInv' BY <1>1, <2>1, <3>1, <3>3, Stays DEF InLine
    <3>5. CASE terminal' = terminal BY <1>1, <2>1, <3>1, <3>3, <3>4, <3>5, PageStays DEF AuthInv
    <3>6. CASE terminal.phase = "awaiting" /\ terminal' = [terminal EXCEPT !.phase = "completed"]
      <4>1. terminal' \in [n : Nat, phase : Phases] /\ terminal'.n = terminal.n /\ terminal'.phase = "completed"
        BY <1>1, <3>6 DEF PageInv, Phases
      <4>2. \A d \in Caller : call'[d].url = call[d].url /\ call'[d].at # "launch"
        BY <1>1, <2>1, <3>1, <3>3, <3>6 DEF CallTypes, PageInv
      <4>3. PageInv' BY <1>1, <2>1, <4>1, <4>2 DEF PageInv, Live
      <4> QED BY <3>4, <4>3 DEF AuthInv
    <3> QED BY <3>2, <3>5, <3>6
  <2> QED BY <1>14, <2>2, <2>3 DEF Typed
<1> QED BY <1>4, <1>5, <1>6, <1>7, <1>8, <1>9, <1>10, <1>11, <1>12, <1>13, <1>14 DEF AuthStep

(* The steps of the world: a terminal that exits is remembered. *)
LEMMA WorldKeepsAuthInv == ASSUME AuthInv, World PROVE AuthInv'
<1>1. UNCHANGED <<call, startLock, mistaken>> BY DEF World, Draw, Exit, Approve, CacheExpires, Lose, troubles
<1>2. CallTypes' /\ LockInv' BY <1>1 DEF AuthInv, CallTypes, LockInv
<1>3. \/ UNCHANGED <<terminal, exited, mistaken>>
      \/ terminal.phase = "starting" /\ terminal' = [terminal EXCEPT !.phase = "awaiting"] /\ UNCHANGED exited
      \/ Alive /\ terminal' = [terminal EXCEPT !.phase = "dead"] /\ exited' = exited \cup {terminal.n}
  BY <1>1 DEF World, Draw, Exit, Approve, CacheExpires, Lose, Alive
<1>4. CASE UNCHANGED <<terminal, exited, mistaken>> BY <1>1, <1>2, <1>4 DEF AuthInv, PageInv, Live
<1>5. CASE terminal.phase = "starting" /\ terminal' = [terminal EXCEPT !.phase = "awaiting"] /\ UNCHANGED exited
  <2>1. terminal' \in [n : Nat, phase : Phases] /\ terminal'.n = terminal.n /\ terminal'.phase = "awaiting"
    BY <1>5 DEF AuthInv, PageInv, Phases
  <2> QED BY <1>1, <1>2, <1>5, <2>1 DEF AuthInv, PageInv, Live
<1>6. CASE Alive /\ terminal' = [terminal EXCEPT !.phase = "dead"] /\ exited' = exited \cup {terminal.n}
  <2>1. terminal' \in [n : Nat, phase : Phases] /\ terminal'.n = terminal.n /\ terminal'.phase = "dead"
    BY <1>6 DEF AuthInv, PageInv, Phases
  <2>2. \A c \in Caller : call[c].at # "launch" BY <1>6 DEF AuthInv, PageInv, Alive
  <2> QED BY <1>1, <1>2, <1>6, <2>1, <2>2 DEF AuthInv, PageInv, Live
<1> QED BY <1>3, <1>4, <1>5, <1>6

LEMMA MovesKeepAuthInv == ASSUME AuthInv, AuthMove PROVE AuthInv'
<1>1. CASE UNCHANGED AuthButFailures
  BY <1>1 DEF AuthButFailures, AuthInv, CallTypes, LockInv, PageInv, Live
<1> QED BY <1>1, CallsKeepAuthInv, WorldKeepsAuthInv DEF AuthMove

(* What was live stays live, for a terminal goes only when it has ended. *)
LEMMA LiveStays ==
  ASSUME AuthInv, AuthMove, NEW n, Live(n)
  PROVE  Live(n)'
<1> USE DEF Live
<1>1. ASSUME UNCHANGED <<terminal, exited, mistaken>> PROVE Live(n)' BY <1>1
<1>2. CASE UNCHANGED AuthButFailures BY <1>1, <1>2 DEF AuthButFailures
<1>3. CASE World
  <2>1. exited \subseteq exited' /\ mistaken' = mistaken /\ terminal'.n = terminal.n
    BY <1>3 DEF World, Draw, Exit, Approve, CacheExpires, Lose, troubles, AuthInv, PageInv
  <2> QED BY <2>1
<1>4. ASSUME NEW c \in Caller,
             \/ CallStatus(c) \/ CallStart(c) \/ TakeAnswer(c) \/ AskAgain(c)
             \/ Probe(c) \/ Walk(c) \/ Watched(c) \/ \E m \in Nat : CallSubmit(c, m)
      PROVE  Live(n)'
  BY <1>1, <1>4 DEF CallStatus, CallStart, TakeAnswer, AskAgain, AuthButCallAndFailures, CallSubmit, Probe, Walk, Watched, troubles
<1>5. ASSUME NEW c \in Caller, StartLocked(c) \/ Typed(c) PROVE Live(n)'
  <2>1. exited' = exited /\ mistaken \subseteq mistaken' /\ terminal'.n = terminal.n
    BY <1>5 DEF StartLocked, Reuse, Replace, Stuck, Typed, AuthInv, PageInv
  <2> QED BY <2>1
<1>6. ASSUME NEW c \in Caller, Launch(c) PROVE Live(n)'
  <2>1. terminal.n = 0 \/ terminal.n \in exited \/ terminal.n \in mistaken BY <1>6 DEF Launch, At, AuthInv, PageInv
  <2>2. exited' = exited /\ mistaken' = mistaken BY <1>6 DEF Launch
  <2> QED BY <2>1, <2>2
<1> QED BY <1>2, <1>3, <1>4, <1>5, <1>6 DEF AuthMove, AuthStep

-----------------------------------------------------------------------------
(* The chat: its calls are under way only where the code awaits them. *)
Calling == {"starting", "submitted", "status", "refresh"}
ChainAt == {"idle", "ensure", "turn", "starting", "code", "submitted"}
TimerAt == {"off", "armed", "status", "refresh", "ensure", "turn", "starting"}

ChatInv ==
  /\ inbox \in Seq([text : Nat, code : Nat]) /\ sent \in Nat
  /\ code \in [value : Nat, record : Nat]
  /\ shown \subseteq Nat \ {0} /\ \A n \in shown : Live(n)

FiberInv ==
  /\ pc \in [Fiber -> ChainAt \cup TimerAt] /\ pc[0] \in ChainAt /\ \A p \in Record : pc[p] \in TimerAt
  /\ made \in 0 .. MaxPending /\ pending \in 0 .. made
  /\ \A p \in Record : p > made => pc[p] = "off"
  /\ pending # 0 => pc[pending] # "off"
  /\ \A f \in Fiber : call[f].at # "idle" => pc[f] \in Calling

IInv == AuthInv /\ ChatInv /\ FiberInv

(* A page is sent to the chat as the answer of a call. *)
LEMMA NextMoves ==
  ASSUME IInv, [Next]_vars
  PROVE  AuthMove /\ \E c \in Caller : shown' \subseteq shown \cup ({call[c].url} \ {0})
<1> USE DEF outcome, records, fibers, route, AuthMove
<1>a. UNCHANGED authVars => UNCHANGED AuthButFailures /\ MayFail BY DEF authVars, AuthButFailures, MayFail
<1>b. \A m, what : Say(m, what) => MayFail BY DEF Say, Fails, MayFail
<1>c. \A url : Show(url) => MayFail /\ shown' \subseteq shown \cup ({url} \ {0}) BY DEF Show, Fails, MayFail
<1>d. UNCHANGED AuthButCall => UNCHANGED AuthButCallAndFailures /\ MayFail
  BY DEF AuthButCall, AuthButCallAndFailures, troubles, MayFail
<1>0. 0 \in Caller /\ Fiber = Caller /\ Record \subseteq Caller
  BY CallersAreFibers, ReauthBounds DEF CallersAreFibers, ReauthBounds, Fiber, Record
<1>1. CASE UNCHANGED vars BY <1>0, <1>a, <1>1 DEF vars
<1>2. CASE SendText BY <1>0, <1>a, <1>2 DEF SendText
<1>3. ASSUME NEW n \in shown, SendCode(n) PROVE AuthMove /\ UNCHANGED shown BY <1>a, <1>3 DEF SendCode
<1>4. ASSUME NEW p \in Record, Late(p) PROVE AuthMove /\ UNCHANGED shown BY <1>a, <1>4 DEF Late
<1>5. CASE WorldStep BY <1>0, <1>5 DEF WorldStep
<1>6. ASSUME NEW f \in Fiber, Runs(f) PROVE AuthMove /\ \E c \in Caller : shown' \subseteq shown \cup ({call[c].url} \ {0})
  <2>1. CASE Ensure(f) BY <1>0, <1>a, <2>1 DEF Ensure, BeginReauth
  <2>2. CASE Turn(f) BY <1>0, <1>b, <2>2 DEF Turn, BeginReauth
  <2>3. CASE Register(f) BY <1>0, <1>c, <2>3 DEF Register, TakeAnswer
  <2>4. CASE DaemonStep(f) BY <1>0, <2>4 DEF DaemonStep
  <2>5. CASE f = 0 /\ Take BY <1>0, <1>a, <2>5 DEF Take
  <2>6. CASE f = 0 /\ SubmitCode BY <1>0, <2>6 DEF SubmitCode, IInv, ChatInv
  <2>7. CASE f = 0 /\ CodeAnswered BY <1>0, <1>d, <2>7 DEF CodeAnswered, TakeAnswer
  <2>8. CASE Poll(f) BY <1>0, <1>a, <1>b, <2>8 DEF Poll
  <2>9. CASE PollAnswered(f) BY <1>0, <1>d, <2>9 DEF PollAnswered, TakeAnswer, AskAgain
  <2>10. CASE Refreshed(f) BY <1>0, <1>c, <2>10 DEF Refreshed, TakeAnswer
  <2> QED
    BY <1>6, <2>1, <2>2, <2>3, <2>4, <2>5, <2>6, <2>7, <2>8, <2>9, <2>10 DEF Runs, FiberStep, ChainStep, TimerStep
<1> QED BY <1>0, <1>1, <1>2, <1>3, <1>4, <1>5, <1>6 DEF Next

LEMMA Parts == ASSUME NEW S, NEW s \in Seq(S), s # <<>> PROVE Tail(s) \in Seq(S) /\ Head(s) \in S
  OBVIOUS

LEMMA ChatInvIsInductive == ASSUME IInv, [Next]_vars PROVE ChatInv'
<1>1. shown' \subseteq Nat \ {0} /\ \A n \in shown' : Live(n)'
  <2>1. PICK c \in Caller : shown' \subseteq shown \cup ({call[c].url} \ {0}) BY NextMoves
  <2>2. call[c].url \in Nat /\ Live(call[c].url) BY DEF IInv, AuthInv, CallTypes, ACall, PageInv
  <2>3. \A n \in shown' : n \in Nat \ {0} /\ Live(n) BY <2>1, <2>2 DEF IInv, ChatInv
  <2> QED BY <2>3, NextMoves, LiveStays DEF IInv
<1>2. inbox' \in Seq([text : Nat, code : Nat]) /\ sent' \in Nat /\ code' \in [value : Nat, record : Nat]
  <2> USE DEF IInv, ChatInv
  <2>1. CASE SendText
    <3>1. [text |-> sent + 1, code |-> 0] \in [text : Nat, code : Nat] OBVIOUS
    <3>2. inbox' = Append(inbox, [text |-> sent + 1, code |-> 0]) /\ sent' = sent + 1 /\ code' = code
      BY <2>1 DEF SendText, fibers
    <3> QED BY <3>1, <3>2
  <2>2. ASSUME NEW n \in shown, SendCode(n)
        PROVE  inbox' \in Seq([text : Nat, code : Nat]) /\ sent' \in Nat /\ code' \in [value : Nat, record : Nat]
    <3>1. [text |-> 0, code |-> n] \in [text : Nat, code : Nat] OBVIOUS
    <3>2. inbox' = Append(inbox, [text |-> 0, code |-> n]) /\ sent' = sent /\ code' = code
      BY <2>2 DEF SendCode, fibers
    <3> QED BY <3>1, <3>2
  <2>3. CASE Take
    <3>1. inbox # <<>> /\ inbox' = Tail(inbox) /\ sent' = sent
          /\ (code' = code \/ code' = [value |-> Head(inbox).code, record |-> pending])
      BY <2>3 DEF Take
    <3>2. inbox' \in Seq([text : Nat, code : Nat]) /\ Head(inbox) \in [text : Nat, code : Nat]
      <4>1. inbox \in Seq([text : Nat, code : Nat]) OBVIOUS
      <4> QED BY <3>1, <4>1, Parts
    <3>3. pending \in Nat BY DEF IInv, FiberInv
    <3>4. [value |-> Head(inbox).code, record |-> pending] \in [value : Nat, record : Nat] BY <3>2, <3>3
    <3> QED BY <3>1, <3>2, <3>4
  <2>4. CASE CodeAnswered
    <3>1. code' = [value |-> 0, record |-> 0] /\ UNCHANGED <<inbox, sent>> BY <2>4 DEF CodeAnswered, route
    <3> QED BY <3>1
  <2>5. CASE UNCHANGED <<inbox, sent, code>> BY <2>5
  <2>6. ASSUME NEW f \in Fiber, Runs(f), ~Take, ~CodeAnswered PROVE UNCHANGED <<inbox, sent, code>>
    <3> USE DEF route, fibers
    <3>1. CASE FiberStep(f) BY <3>1 DEF FiberStep, Ensure, Turn, Register
    <3>2. CASE TimerStep(f) BY <3>2 DEF TimerStep, Poll, PollAnswered, Refreshed
    <3>3. CASE SubmitCode BY <3>3 DEF SubmitCode
    <3>4. CASE DaemonStep(f) BY <3>4 DEF DaemonStep
    <3> QED BY <2>6, <3>1, <3>2, <3>3, <3>4 DEF Runs, ChainStep
  <2>7. CASE (\E p \in Record : Late(p)) \/ WorldStep \/ UNCHANGED vars
    BY <2>7 DEF Late, WorldStep, vars, route, fibers
  <2> QED BY <2>1, <2>2, <2>3, <2>4, <2>5, <2>6, <2>7 DEF Next
<1> QED BY <1>1, <1>2 DEF ChatInv

-----------------------------------------------------------------------------
(* Where the calls of the chat are.  Besides the step's own call only a record's *)
(* timer is set or cleared.                                                      *)
LEMMA Indices == /\ Caller = Fiber /\ 0 \in Fiber /\ Record \subseteq Fiber /\ Fiber \subseteq Nat
                 /\ \A f \in Fiber : f # 0 <=> f \in Record
                 /\ MaxPending \in Nat
  BY CallersAreFibers, ReauthBounds DEF CallersAreFibers, ReauthBounds, Fiber, Record

(* A call of the chat goes on: it takes its daemon call's answer, begins one or   *)
(* goes without.                                                                 *)
LEMMA GoesOn ==
  ASSUME IInv, NEW f \in Fiber, NEW label,
         IF f = 0 THEN label \in ChainAt ELSE label \in TimerAt,
         pc[f] # "off", label = "off" => pending' # f,
         Goto(f, label), made' = made, pending' \in {0, pending},
         \A g \in Fiber : g # f => call'[g] = call[g],
         call'[f].at = "idle" \/ label \in Calling
  PROVE  FiberInv'
<1>1. \A g \in Fiber : pc'[g] = IF g = f THEN label ELSE pc[g]
  BY DEF Goto, IInv, FiberInv
<1>2. pc' \in [Fiber -> ChainAt \cup TimerAt] BY Indices DEF Goto, IInv, FiberInv
<1>3. pc'[0] \in ChainAt /\ \A p \in Record : pc'[p] \in TimerAt
  BY <1>1, Indices DEF IInv, FiberInv
<1>4. made' \in 0 .. MaxPending /\ pending' \in 0 .. made' BY Indices DEF IInv, FiberInv
<1>5. \A p \in Record : p > made' => pc'[p] = "off" BY <1>1, Indices DEF IInv, FiberInv
<1>6. pending' # 0 => pc'[pending'] # "off"
  <2>1. pending' # 0 => pending' \in Fiber BY <1>4, Indices DEF Fiber
  <2> QED BY <1>1, <2>1 DEF IInv, FiberInv
<1>7. \A g \in Fiber : call'[g].at # "idle" => pc'[g] \in Calling BY <1>1 DEF IInv, FiberInv
<1> QED BY <1>2, <1>3, <1>4, <1>5, <1>6, <1>7 DEF FiberInv

(* What the chat's action does to the daemon's calls: only its own moves. *)
LEMMA OwnCall ==
  ASSUME IInv, NEW f \in Fiber,
         \/ CallStatus(f) \/ CallStart(f) \/ Taken(f) \/ AskAgain(f) \/ AuthStep(f)
         \/ (\E n \in Nat : CallSubmit(f, n)) \/ UNCHANGED call
  PROVE  \A g \in Fiber : g # f => call'[g] = call[g]
<1>1. call \in [Fiber -> ACall] BY Indices DEF IInv, AuthInv, CallTypes
<1> QED
  BY <1>1 DEF CallStatus, CallStart, Taken, AskAgain, AuthStep, CallSubmit, Probe, StartLocked, Launch,
     Reuse, Replace, Stuck, Throw, Walk, Typed, Watched, Move, Return

LEMMA Took == ASSUME IInv, NEW f \in Fiber, Taken(f) PROVE call'[f].at = "idle"
  BY Indices DEF Taken, IInv, AuthInv, CallTypes, Idle

(* A repaired message: the record is let go, its timer cleared. *)
LEMMA Finishes ==
  ASSUME IInv, NEW f \in Fiber, NEW p, FinishReauth(f, p), Taken(f), made' = made, pc[f] # "off"
  PROVE  FiberInv'
<1>1. \A g \in Fiber :
        \/ g = f /\ pc'[g] = "ensure"
        \/ g # f /\ pc'[g] = pc[g]
        \/ g # f /\ g = p /\ pc[g] = "armed" /\ pc'[g] = "off"
  BY DEF FinishReauth
<1>2. pc' \in [Fiber -> ChainAt \cup TimerAt]
  <2>1. \A g \in Fiber : pc'[g] \in ChainAt \cup TimerAt BY <1>1 DEF IInv, FiberInv, ChainAt, TimerAt
  <2>2. pc' = [g \in Fiber |-> pc'[g]] BY DEF FinishReauth
  <2> QED BY <2>1, <2>2
<1>3. pc'[0] \in ChainAt /\ \A q \in Record : pc'[q] \in TimerAt
  BY <1>1, Indices DEF IInv, FiberInv, ChainAt, TimerAt
<1>4. made' \in 0 .. MaxPending /\ pending' = 0 BY DEF IInv, FiberInv, FinishReauth
<1>5. \A q \in Record : q > made' => pc'[q] = "off" BY <1>1, Indices DEF IInv, FiberInv
<1>6. \A g \in Fiber : g # f => call'[g] = call[g] BY OwnCall
<1>7. call'[f].at = "idle" BY Took
<1>8. \A g \in Fiber : call'[g].at # "idle" => pc'[g] \in Calling
  BY <1>1, <1>6, <1>7 DEF IInv, FiberInv, Calling
<1> QED BY <1>2, <1>3, <1>4, <1>5, <1>8 DEF FiberInv

(* A turn or an answer is over, or the login is gone and its start is awaited. *)
LEMMA AfterTurn ==
  ASSUME IInv, NEW f \in Fiber, Goto(f, AfterRun(f)) \/ BeginReauth(f), pc[f] # "off",
         Taken(f) \/ UNCHANGED call \/ BeginReauth(f), Goto(f, AfterRun(f)) => call[f].at = "idle" \/ Taken(f),
         UNCHANGED <<pending, made>>
  PROVE  FiberInv'
<1>1. CASE BeginReauth(f)
  <2>1. Goto(f, "starting") /\ \A g \in Fiber : g # f => call'[g] = call[g]
    BY <1>1, OwnCall DEF BeginReauth
  <2>2. IF f = 0 THEN "starting" \in ChainAt ELSE "starting" \in TimerAt BY DEF ChainAt, TimerAt
  <2>3. "starting" \in Calling BY DEF Calling
  <2> QED BY <2>1, <2>2, <2>3, GoesOn
<1>2. CASE Goto(f, AfterRun(f)) /\ ~BeginReauth(f)
  <2> DEFINE label == AfterRun(f)
  <2>1. IF f = 0 THEN label \in ChainAt ELSE label \in TimerAt BY DEF AfterRun, ChainAt, TimerAt
  <2>2. label = "off" => pending' # f BY DEF AfterRun
  <2>3. \A g \in Fiber : g # f => call'[g] = call[g] BY <1>2, OwnCall
  <2>4. call'[f].at = "idle" BY <1>2, Took
  <2>5. Goto(f, label) BY <1>2
  <2> HIDE DEF label
  <2> QED BY <2>1, <2>2, <2>3, <2>4, <2>5, GoesOn
<1> QED BY <1>1, <1>2
(* Nothing of the chat moves. *)
LEMMA ChatRests ==
  ASSUME IInv, UNCHANGED <<pc, pending, made>>,
         \A g \in Fiber : call'[g].at # "idle" => call[g].at # "idle"
  PROVE  FiberInv'
  BY DEF IInv, FiberInv

(* A message is registered as pending, under a new record or the one read before. *)
LEMMA RegisterKeepsFiberInv == ASSUME IInv, NEW f \in Fiber, Register(f) PROVE FiberInv'
<1>1. pc[f] = "starting" /\ Taken(f) /\ call'[f].at = "idle" BY Took DEF Register
<1>2. CASE existing[f] # 0
  <2>1. Goto(f, AfterRun(f)) /\ UNCHANGED <<pending, made>> BY <1>2 DEF Register
  <2> QED BY <1>1, <2>1, AfterTurn
<1>3. CASE existing[f] = 0
  <2>1. /\ made < MaxPending /\ made' = made + 1 /\ pending' = made'
        /\ pc' = [pc EXCEPT ![f] = AfterRun(f), ![made'] = "armed"]
    BY <1>3 DEF Register
  <2>2. made \in Nat /\ MaxPending \in Nat /\ made' \in Record /\ made' \in Fiber /\ made' <= MaxPending
    BY <2>1, Indices DEF IInv, FiberInv, Record, Fiber
  <2>3. pc[made'] = "off" BY <2>1, <2>2 DEF IInv, FiberInv
  <2>4. f # made' BY <1>1, <2>3
  <2>5. \A g \in Fiber : pc'[g] = IF g = made' THEN "armed" ELSE IF g = f THEN AfterRun(f) ELSE pc[g]
    BY <2>1, <2>2, <2>4 DEF IInv, FiberInv
  <2>6. AfterRun(f) = IF f = 0 THEN "idle" ELSE "off" BY <2>1, <2>4 DEF AfterRun
  <2>7. \A g \in Fiber : pc'[g] \in ChainAt \cup TimerAt
    BY <2>5, <2>6 DEF IInv, FiberInv, ChainAt, TimerAt
  <2>8. pc' \in [Fiber -> ChainAt \cup TimerAt]
    <3>1. pc' = [g \in Fiber |-> pc'[g]] BY <2>1 DEF IInv, FiberInv
    <3> QED BY <2>7, <3>1
  <2>9. pc'[0] \in ChainAt BY <2>2, <2>5, <2>6, Indices DEF IInv, FiberInv, ChainAt
  <2>10. \A q \in Record : pc'[q] \in TimerAt BY <2>5, <2>6, Indices DEF IInv, FiberInv, TimerAt
  <2>11. \A q \in Record : q > made' => pc'[q] = "off"
    <3> TAKE q \in Record
    <3> HAVE q > made'
    <3>1. q \in Fiber /\ q \in Nat /\ q # 0 BY Indices
    <3>2. q > made /\ q # made' BY <2>1, <2>2, <3>1
    <3>3. pc[q] = "off" BY <3>2 DEF IInv, FiberInv
    <3> QED BY <1>1, <2>5, <3>1, <3>2, <3>3
  <2>12. pending' # 0 => pc'[pending'] # "off"
    <3>1. pc'[made'] = "armed" BY <2>2, <2>5
    <3>2. pending' = made' BY <2>1
    <3> QED BY <3>1, <3>2
  <2>13. \A g \in Fiber : g # f => call'[g] = call[g] BY <1>1, OwnCall
  <2>14. \A g \in Fiber : call'[g].at # "idle" => pc'[g] \in Calling
    <3> TAKE g \in Fiber
    <3>1. CASE g = f BY <1>1, <3>1
    <3>2. CASE g = made'
      <4>1. call[g].at = "idle" BY <2>3, <3>2 DEF IInv, FiberInv, Calling
      <4> QED BY <2>4, <2>13, <3>2, <4>1
    <3>3. CASE g # f /\ g # made' BY <2>5, <2>13, <3>3 DEF IInv, FiberInv
    <3> QED BY <3>1, <3>2, <3>3
  <2>15. made' \in 0 .. MaxPending /\ pending' \in 0 .. made' BY <2>1, <2>2
  <2> QED BY <2>8, <2>9, <2>10, <2>11, <2>12, <2>14, <2>15 DEF FiberInv
<1> QED BY <1>2, <1>3

LEMMA FiberInvIsInductive == ASSUME IInv, [Next]_vars PROVE FiberInv'
<1>1. CASE UNCHANGED vars \/ SendText \/ (\E n \in shown : SendCode(n)) \/ (\E p \in Record : Late(p))
  <2>1. UNCHANGED <<pc, pending, made, call>>
    BY <1>1 DEF vars, SendText, SendCode, Late, authVars, fibers, records
  <2> QED BY <2>1, ChatRests
<1>2. CASE WorldStep
  <2>1. UNCHANGED <<pc, pending, made, call>>
    BY <1>2 DEF WorldStep, World, Draw, Exit, Approve, CacheExpires, Lose, fibers, records, troubles
  <2> QED BY <2>1, ChatRests
<1>3. ASSUME NEW f \in Fiber, Runs(f) PROVE FiberInv'
  <2>1. CASE Ensure(f)
    <3>1. pc[f] = "ensure" /\ UNCHANGED <<pending, made>> BY <2>1 DEF Ensure, records
    <3>2. CASE BeginReauth(f)
      <4>1. call[f].at = "idle" BY <3>2 DEF BeginReauth, CallStart, At
      <4> QED BY <3>1, <3>2, <4>1, AfterTurn
    <3>3. CASE Goto(f, "turn") /\ UNCHANGED authVars
      <4>1. call'[f].at = "idle" /\ \A g \in Fiber : g # f => call'[g] = call[g]
        BY <3>1, <3>3 DEF authVars, IInv, FiberInv, Calling
      <4>2. IF f = 0 THEN "turn" \in ChainAt ELSE "turn" \in TimerAt BY DEF ChainAt, TimerAt
      <4> QED BY <3>1, <3>3, <4>1, <4>2, GoesOn
    <3> QED BY <2>1, <3>2, <3>3 DEF Ensure
  <2>2. CASE Turn(f)
    <3>1. pc[f] = "turn" /\ UNCHANGED <<pending, made>> BY <2>2 DEF Turn, records
    <3>2. BeginReauth(f) \/ (Goto(f, AfterRun(f)) /\ UNCHANGED call) BY <2>2 DEF Turn, Over, AuthButFailures
    <3>3. call[f].at = "idle" BY <3>1 DEF IInv, FiberInv, Calling
    <3> QED BY <3>1, <3>2, <3>3, AfterTurn
  <2>3. CASE Register(f) BY <2>3, RegisterKeepsFiberInv
  <2>4. CASE DaemonStep(f)
    <3>1. call[f].at # "idle" /\ \A g \in Fiber : g # f => call'[g] = call[g]
      BY <2>4, OwnCall
         DEF DaemonStep, AuthStep, Probe, StartLocked, Launch, Walk, Typed, Watched, At
    <3> QED BY <2>4, <3>1, ChatRests DEF DaemonStep, fibers, records
  <2>5. CASE f = 0 /\ Take
    <3>1. pc[0] = "idle" /\ UNCHANGED <<pending, made, authVars>> BY <2>5 DEF Take, records
    <3>2. call'[f].at = "idle" /\ \A g \in Fiber : g # f => call'[g] = call[g]
      BY <2>5, <3>1 DEF authVars, IInv, FiberInv, Calling
    <3>3. CASE UNCHANGED pc BY <3>1, <3>3, ChatRests DEF authVars
    <3>4. ASSUME NEW label \in {"ensure", "code"}, Goto(f, label) PROVE FiberInv'
      <4>1. label \in ChainAt /\ label # "off" BY <3>4 DEF ChainAt
      <4> QED BY <2>5, <3>1, <3>2, <3>4, <4>1, GoesOn
    <3> QED BY <2>5, <3>3, <3>4 DEF Take
  <2>6. CASE f = 0 /\ SubmitCode
    <3>1. /\ pc[f] = "code" /\ Goto(f, "submitted") /\ UNCHANGED <<pending, made>>
          /\ code.value \in Nat /\ CallSubmit(f, code.value)
      BY <2>6 DEF SubmitCode, records, IInv, ChatInv
    <3>2. \A g \in Fiber : g # f => call'[g] = call[g] BY <3>1, OwnCall
    <3>3. "submitted" \in ChainAt /\ "submitted" \in Calling BY DEF ChainAt, Calling
    <3> QED BY <2>6, <3>1, <3>2, <3>3, GoesOn
  <2>7. CASE f = 0 /\ CodeAnswered
    <3>1. pc[f] = "submitted" /\ Taken(f) /\ UNCHANGED made BY <2>7 DEF CodeAnswered
    <3>2. CASE FinishReauth(f, code.record) BY <3>1, <3>2, Finishes
    <3>3. CASE Goto(f, "idle") /\ UNCHANGED pending
      BY <2>7, <3>1, <3>3, AfterTurn DEF AfterRun
    <3> QED BY <2>7, <3>2, <3>3 DEF CodeAnswered
  <2>8. CASE f # 0 /\ Poll(f)
    <3>1. pc[f] = "armed" /\ UNCHANGED made BY <2>8 DEF Poll
    <3>2. call[f].at = "idle" BY <3>1 DEF IInv, FiberInv, Calling
    <3>3. {"off", "status"} \subseteq TimerAt /\ "status" \in Calling BY DEF TimerAt, Calling
    <3>4. CASE /\ Goto(f, "off") /\ UNCHANGED call
               /\ (pending # f /\ UNCHANGED pending) \/ pending' = 0
      BY <2>8, <3>1, <3>2, <3>3, <3>4, OwnCall, GoesOn
    <3>5. CASE CallStatus(f) /\ Goto(f, "status") /\ UNCHANGED pending
      BY <2>8, <3>1, <3>3, <3>5, OwnCall, GoesOn
    <3> QED BY <2>8, <3>4, <3>5 DEF Poll, authVars, AuthButFailures
  <2>9. CASE f # 0 /\ PollAnswered(f)
    <3>1. pc[f] = "status" /\ UNCHANGED made BY <2>9 DEF PollAnswered
    <3>2. CASE Taken(f) /\ FinishReauth(f, f) BY <3>1, <3>2, Finishes
    <3>3. CASE Taken(f) /\ Goto(f, AfterRun(f)) /\ UNCHANGED pending BY <3>1, <3>3, AfterTurn
    <3>4. CASE AskAgain(f) /\ Goto(f, "refresh") /\ UNCHANGED pending
      <4>1. "refresh" \in TimerAt /\ "refresh" \in Calling BY DEF TimerAt, Calling
      <4> QED BY <2>9, <3>1, <3>4, <4>1, OwnCall, GoesOn
    <3> QED BY <2>9, <3>2, <3>3, <3>4 DEF PollAnswered, AskAgain
  <2>10. CASE f # 0 /\ Refreshed(f)
    BY <2>10, AfterTurn DEF Refreshed
  <2> QED
    BY <1>3, <2>1, <2>2, <2>3, <2>4, <2>5, <2>6, <2>7, <2>8, <2>9, <2>10 DEF Runs, FiberStep, ChainStep, TimerStep
<1> QED BY <1>1, <1>2, <1>3 DEF Next
-----------------------------------------------------------------------------
(* The rest of the type invariant. *)
FlagsInv ==
  /\ flow \in {Device, Paste} /\ loggedIn \in BOOLEAN /\ cached \in BOOLEAN
  /\ losses \in Nat /\ failures \in Nat /\ mistaken \subseteq Nat

LEMMA FlagsInvIsInductive == ASSUME FlagsInv, IInv, [Next]_vars PROVE FlagsInv'
<1> USE DEF FlagsInv
<1>1. AuthMove BY NextMoves
<1>2. terminal.n \in Nat BY DEF IInv, AuthInv, PageInv
<1>3. losses \in Nat /\ losses + 1 \in Nat /\ failures \in Nat /\ failures + 1 \in Nat OBVIOUS
<1>4. CASE UNCHANGED AuthButFailures /\ MayFail BY <1>3, <1>4 DEF AuthButFailures, MayFail
<1>5. CASE World BY <1>3, <1>5 DEF World, Draw, Exit, Approve, CacheExpires, Lose, troubles
<1>6. ASSUME NEW c \in Caller,
             \/ CallStatus(c) \/ CallStart(c) \/ TakeAnswer(c) \/ AskAgain(c) \/ \E m \in Nat : CallSubmit(c, m)
      PROVE  FlagsInv'
  BY <1>3, <1>6
     DEF CallStatus, CallStart, TakeAnswer, AskAgain, AuthButCallAndFailures, MayFail, CallSubmit, Fails, troubles
<1>7. ASSUME NEW c \in Caller, StartLocked(c) \/ Launch(c) \/ Walk(c) PROVE FlagsInv'
  BY <1>2, <1>3, <1>7 DEF StartLocked, Reuse, Replace, Stuck, Launch, Walk, Fails
<1>8. ASSUME NEW c \in Caller, Probe(c) \/ Typed(c) \/ Watched(c) PROVE FlagsInv'
  BY <1>3, <1>8 DEF Probe, Typed, Watched, Fails, troubles
<1> QED BY <1>1, <1>4, <1>5, <1>6, <1>7, <1>8 DEF AuthMove, AuthStep

LEMMA Initially == Init => IInv /\ FlagsInv
<1> SUFFICES ASSUME Init PROVE IInv /\ FlagsInv OBVIOUS
<1>1. AuthInv BY AuthInvInitially DEF Init
<1>2. FlagsInv
  <2>1. flow \in {Device, Paste} /\ loggedIn \in BOOLEAN /\ cached \in {FALSE, loggedIn} BY DEF Init, AuthInit
  <2>2. cached \in BOOLEAN BY <2>1
  <2>3. losses = 0 /\ failures = 0 /\ mistaken = {} BY DEF Init, AuthInit
  <2> QED BY <2>1, <2>2, <2>3 DEF FlagsInv
<1>3. ChatInv BY DEF Init, ChatInv
<1>4. FiberInv
  <2>1. \A f \in Fiber : call[f].at = "idle" BY Indices DEF Init, AuthInit, Idle
  <2>2. pc \in [Fiber -> ChainAt \cup TimerAt] /\ pc[0] \in ChainAt
    BY Indices DEF Init, ChainAt, TimerAt
  <2>3. \A p \in Record : pc[p] = "off" BY Indices DEF Init
  <2>4. made = 0 /\ pending = 0 BY DEF Init
  <2> QED BY <2>1, <2>2, <2>3, <2>4, Indices DEF FiberInv, TimerAt
<1> QED BY <1>1, <1>2, <1>3, <1>4 DEF IInv

(* What the invariant says of the pages. *)
LEMMA PagesAreLive == ASSUME IInv, FlagsInv PROVE ShownPageIsLive
<1>1. AuthTypeOK
  <2>1. \A c \in Caller : call[c].at \in Places BY DEF IInv, AuthInv, CallTypes, ACall
  <2> QED BY <2>1 DEF IInv, AuthInv, CallTypes, LockInv, PageInv, FlagsInv, AuthTypeOK, Places, InLine
<1>2. TypeOK BY <1>1 DEF IInv, FiberInv, TypeOK, ChainAt, TimerAt, Calling
<1>3. \A n \in shown : n = terminal.n \/ n \in exited \/ n \in mistaken
  BY DEF IInv, ChatInv, Live
<1> QED BY <1>2, <1>3 DEF ShownPageIsLive

(* Every page that was sent to the chat is the page of the terminal there is, or  *)
(* of one that ended by itself or that tmux failed to find alive, however many      *)
(* messages, timers, starts and failures overlap                                   *)
(* (auth-manager.js:52, 175-182; telegram.js:1262-1311).                          *)
THEOREM ShownPagesStayLive == Spec => []ShownPageIsLive
<1>1. Init => IInv /\ FlagsInv BY Initially
<1>2. IInv /\ FlagsInv /\ [Next]_vars => (IInv /\ FlagsInv)'
  BY NextMoves, MovesKeepAuthInv, ChatInvIsInductive, FiberInvIsInductive, FlagsInvIsInductive DEF IInv
<1>3. IInv /\ FlagsInv => ShownPageIsLive BY PagesAreLive
<1> QED BY <1>1, <1>2, <1>3, PTL DEF Spec
=============================================================================
