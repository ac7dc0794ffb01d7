--------------------------- MODULE ArtifactWatch ---------------------------
(***************************************************************************)
(* The watch of one turn over the JSONL files its driver's vendor writes   *)
(* (core/artifacts.js, core/artifact-parser.js).  All sessions of a driver *)
(* share one directory of files; the watch must find the file its prompt   *)
(* landed in (it is "bound" to it), follow it while it is being written,   *)
(* and report the record that ends the turn.                               *)
(*                                                                         *)
(* A file is a sequence of lines.  A line is written and read in two       *)
(* halves: a position in a file is a number of halves, and an odd one is   *)
(* inside a line.  Time is counted in ticks, as far as limits tell.        *)
(***************************************************************************)
EXTENDS Naturals, Sequences, FiniteSets

CONSTANTS
  Files,          \* the vendor files of the driver
  Mine,           \* the one this turn's prompt lands in
  None,           \* no file, no conversation, no line
  Old,            \* bound: files that may be there when the baseline is listed
  MaxWrites,      \* bound: lines begun since, and times my file is begun anew
  Chunk,          \* maxIncrementBytes, in halves
  Limit           \* inactivityMs, in ticks, when it is on

ASSUME FilesAreFiles == Mine \in Files /\ None \notin Files /\ Old \subseteq Files
ASSUME BoundsArePositive ==
  /\ Chunk \in Nat \ {0} /\ Limit \in Nat \ {0}
  /\ MaxWrites \in Nat

VARIABLES
  driver,     \* "claude" or "codex"
  limit,      \* inactivityLimit of this turn; 0 is off
  content,    \* [Files -> the lines begun]
  size,       \* [Files -> halves written]: stat.size
  offset,     \* `offsets`: where the watch reads on in a file
  held,       \* `remainders`: the line whose first half has been read
  pc,         \* the await the watch is on, or how it ended
  todo,       \* the files this sweep has still to stat
  file,       \* the file being read
  cursor,     \* `offset` of the inner loop
  upto,       \* the stat.size the inner loop reads to
  lines,      \* the lines of the increment not yet parsed
  parser,     \* the parser's state
  boundFile,  \* the file the turn is bound to
  quiet,      \* ticks since `lastActivityAt`, up to the limit
  resumes,    \* session.providerSessionId: the conversation resumed next
  baseline,   \* the offsets the watch began with
  cuts,       \* times my file was cut short since the baseline (bookkeeping)
  begun       \* lines begun (bookkeeping, for the bound)

agent == <<content, size, cuts, begun>>
reading == <<file, cursor, upto, lines>>
watch == <<offset, held, pc, todo, reading, parser, boundFile, resumes>>
vars == <<driver, limit, agent, watch, quiet, baseline>>

-----------------------------------------------------------------------------
(* The lines the watch tells apart.  "meta" names the conversation; "prompt" *)
(* has this turn's marker; "talk" has assistant text; "step" is any other    *)
(* record; "error" is an error the vendor reports; "aborted" is codex's      *)
(* turn_aborted or claude's token limit; "end" ends a turn with a text,      *)
(* "blank" without one.                                                      *)
Lines == {"meta", "prompt", "talk", "step", "error", "aborted", "end", "blank"}

ASSUME NoneIsNoLine == None \notin Lines

(* createArtifactParser: `text` is whether lastAssistantMessage is not empty, *)
(* `error` whether lastError is set, `result` what feed returned last.        *)
Unbound == [bound |-> FALSE, provider |-> None, text |-> FALSE, error |-> FALSE, result |-> "none"]

(* Every record of claude names its conversation, bound or not.  An error and  *)
(* a token limit end the turn; an end of turn counts only if it has a text.    *)
ParseClaude(s, line, conversation) ==
  LET t == [s EXCEPT !.provider = conversation, !.bound = @ \/ line = "prompt"]
  IN IF ~t.bound THEN [t EXCEPT !.result = "none"]
     ELSE CASE line \in {"error", "aborted"} -> [t EXCEPT !.error = TRUE, !.result = "failed"]
            [] line = "end"  -> [t EXCEPT !.text = TRUE, !.result = "completed"]
            [] line = "talk" -> [t EXCEPT !.text = TRUE, !.result = "progress"]
            [] OTHER         -> [t EXCEPT !.result = "progress"]

(* A plausible bug: an error is forgotten when the task completes. *)
ParseCodexForgets(s, line, conversation) ==
  LET t == [s EXCEPT !.bound = @ \/ line = "prompt", !.text = @ \/ line \in {"talk", "end"}]
  IN IF ~t.bound THEN [t EXCEPT !.result = "none"]
     ELSE CASE line = "aborted" -> [t EXCEPT !.result = "failed"]
            [] line \in {"end", "blank"} ->
                 [t EXCEPT !.result = IF t.text THEN "completed" ELSE "failed"]
            [] OTHER -> [t EXCEPT !.result = "progress"]

(* Codex names the conversation in session_meta only.  An error is kept and    *)
(* makes the completion a failure, as does a completion without any text.      *)
ParseCodex(s, line, conversation) ==
  LET t == [s EXCEPT !.provider = IF line = "meta" THEN conversation ELSE @,
                     !.bound = @ \/ line = "prompt"]
      text == t.text \/ line = "end"
  IN IF ~t.bound THEN [t EXCEPT !.result = "none"]
     ELSE CASE line = "aborted" -> [t EXCEPT !.result = "failed"]
            [] line \in {"end", "blank"} ->
                 [t EXCEPT !.text = text,
                           !.result = IF text /\ ~t.error THEN "completed" ELSE "failed"]
            [] line = "talk"  -> [t EXCEPT !.text = TRUE, !.result = "progress"]
            [] line = "error" -> [t EXCEPT !.error = TRUE, !.result = "progress"]
            [] OTHER          -> [t EXCEPT !.result = "progress"]

Feed(s, line, conversation) ==
  IF driver = "claude" THEN ParseClaude(s, line, conversation) ELSE ParseCodex(s, line, conversation)

IsTerminal(s) == s.result \in {"completed", "failed"}

Ended == {"done", "inactive", "interrupted", "threw"}

(* A plausible bug: the deadline itself is never reached. *)
ExpiredLate == limit # 0 /\ quiet > limit

(* The `expired` closure.  The absolute limit is off by default. *)
Expired == limit # 0 /\ quiet >= limit

-----------------------------------------------------------------------------
(* The conversation is resumed from a file that holds an earlier turn, whose  *)
(* last line is still on its way, or it is fresh and has no file yet; another *)
(* file may be there.                                                         *)
(* The listing of baselineArtifacts is done; its stats follow.                *)
Init ==
  /\ driver \in {"claude", "codex"}
  /\ limit \in {0, Limit}
  /\ content \in [Files -> {<<>>, <<"meta", "end">>}]
  /\ {f \in Files : content[f] # <<>>} \subseteq Old
  /\ size = [f \in Files |-> IF content[f] = <<>> THEN 0 ELSE IF f = Mine THEN 3 ELSE 4]
  /\ offset = [f \in Files |-> 0] /\ baseline = offset
  /\ held = [f \in Files |-> None]
  /\ pc = "baseline" /\ todo = {f \in Files : size[f] > 0}
  /\ file = None /\ cursor = 0 /\ upto = 0 /\ lines = <<>>
  /\ parser = Unbound /\ boundFile = None
  /\ quiet = 0
  /\ resumes = IF size[Mine] = 0 THEN None ELSE Mine
  /\ cuts = 0 /\ begun = 0

Goto(label) == pc' = label

(* baselineArtifacts: one stat after the other, files growing meanwhile. *)
Baseline(f) ==
  /\ pc = "baseline" /\ f \in todo
  /\ offset' = [offset EXCEPT ![f] = size[f]] /\ baseline' = offset'
  /\ todo' = todo \ {f}
  /\ UNCHANGED <<driver, limit, agent, held, pc, reading, parser, boundFile, resumes, quiet>>

(* watchArtifacts is called; its clock starts. *)
Watch ==
  /\ pc = "baseline" /\ todo = {}
  /\ Goto("sweep") /\ quiet' = 0
  /\ UNCHANGED <<driver, limit, agent, offset, held, todo, reading, parser, boundFile, resumes, baseline>>

(* The loop looks at its limits when it wakes from its sleep, the sweep being   *)
(* over, and before it reads an increment.                                      *)
Asleep == pc = "sweep" /\ todo = {}
BeforeIncrement == pc = "read" /\ lines = <<>> /\ cursor < upto
AtCheck == Asleep \/ BeforeIncrement

(* A limit has run out at the top of the loop or before an increment. *)
Expire ==
  /\ AtCheck
  /\ Expired /\ Goto("inactive")
  /\ UNCHANGED <<driver, limit, agent, offset, held, todo, reading, parser, boundFile, resumes, quiet, baseline>>

(* The signal is found set at the same places: an interrupt, a close, a prompt   *)
(* nobody accepted in time, or the drain of an exited driver that ran out. Which *)
(* of the two tests comes first (94, 96, 111, 112) only chooses the error.       *)
Interrupted ==
  /\ AtCheck
  /\ Goto("interrupted")
  /\ UNCHANGED <<driver, limit, agent, offset, held, todo, reading, parser, boundFile, resumes, quiet, baseline>>

(* A sweep: the bound file, or every file there is. *)
Sweep ==
  /\ Asleep /\ ~Expired /\ UNCHANGED pc
  /\ todo' = IF boundFile # None THEN {boundFile} ELSE {f \in Files : size[f] > 0}
  /\ UNCHANGED <<driver, limit, agent, offset, held, reading, parser, boundFile, resumes, quiet, baseline>>

(* fs.stat.  A file shorter than what was read of it is read from its start. *)
Stat(f) ==
  LET shrunk == size[f] < offset[f]
      from   == IF shrunk THEN 0 ELSE offset[f]
  IN /\ pc = "sweep" /\ f \in todo
     /\ todo' = todo \ {f}
     /\ held' = IF shrunk THEN [held EXCEPT ![f] = None] ELSE held
     /\ IF size[f] = from
          THEN UNCHANGED <<pc, reading>>
          ELSE Goto("read") /\ file' = f /\ cursor' = from /\ upto' = size[f] /\ lines' = <<>>
     /\ UNCHANGED <<driver, limit, agent, offset, parser, boundFile, resumes, quiet, baseline>>

(* A plausible bug: what is left of an increment is thrown away. *)
LinesOfIncrement(f, from, to) ==
  LET whole == {i \in 1 .. Len(content[f]) : from < 2 * i - 1 /\ 2 * i <= to}
      first == (from + 1) \div 2
  IN [k \in 1 .. Cardinality(whole) |-> content[f][first + k]]

(* The lines that end in (from, to] and can be parsed: the first one, if its    *)
(* first half is neither in this increment nor the one held, is cut or glued to *)
(* another, and dropped.                                                        *)
WholeLines(f, from, to) ==
  LET first   == from \div 2 + 1
      dropped == from % 2 = 1 /\ held[f] # content[f][first]
  IN SubSeq(content[f], IF dropped THEN first + 1 ELSE first, to \div 2)

(* The file is closed. *)
Closed == Goto("sweep") /\ file' = None /\ cursor' = 0 /\ upto' = 0 /\ lines' = <<>>

Read ==
  LET left == IF upto < size[file] THEN upto ELSE size[file]
      to   == IF left < cursor + Chunk THEN left ELSE cursor + Chunk
  IN /\ BeforeIncrement /\ ~Expired
     /\ IF to <= cursor  \* bytesRead is 0: the file was cut since its stat
          THEN Closed /\ UNCHANGED <<offset, held>>
          ELSE /\ cursor' = to /\ UNCHANGED <<file, upto, pc>>
               /\ offset' = [offset EXCEPT ![file] = to]
               /\ lines' = WholeLines(file, cursor, to)
               /\ held' = [held EXCEPT ![file] = IF to % 2 = 1 THEN content[file][(to + 1) \div 2] ELSE None]
     /\ UNCHANGED <<driver, limit, agent, todo, parser, boundFile, resumes, quiet, baseline>>

(* One line goes to the parser, which all files share until one is bound. *)
(* The bound file's records, and only they, restart the clock.            *)
FeedLine ==
  LET next == Feed(parser, Head(lines), file)
  IN /\ pc = "read" /\ lines # <<>>
     /\ lines' = Tail(lines)
     /\ IF next.bound /\ boundFile = None
          THEN /\ boundFile' = file /\ Goto("bind")
               /\ parser' = IF next.provider = None THEN [next EXCEPT !.provider = file] ELSE next
               /\ todo' = todo \cap {file}
               /\ UNCHANGED <<quiet, resumes>>
          ELSE /\ parser' = next
               /\ quiet' = IF boundFile = file THEN 0 ELSE quiet
               /\ CASE ~next.bound -> UNCHANGED pc
                    [] next.bound /\ ~IsTerminal(next) -> Goto("progress")
                    [] OTHER -> Goto("done")
               /\ resumes' = IF IsTerminal(next) THEN next.provider ELSE resumes
               /\ UNCHANGED <<boundFile, todo>>
     /\ UNCHANGED <<driver, limit, agent, offset, held, file, cursor, upto, baseline>>

(* onBound: the session resumes the conversation that the parser has seen, at *)
(* once; then the workspace is told.                                          *)
OnBound ==
  /\ pc = "bind"
  /\ resumes' = parser.provider
  /\ \/ Goto("progress") /\ quiet' = 0
     \/ Goto("threw") /\ UNCHANGED quiet
  /\ UNCHANGED <<driver, limit, agent, offset, held, todo, reading, parser, boundFile, baseline>>

(* onProgress waits for the workspace's lock and its file. *)
OnProgress ==
  /\ pc = "progress"
  /\ Goto("read") \/ Goto("threw")
  /\ UNCHANGED <<driver, limit, agent, offset, held, todo, reading, parser, boundFile, resumes, quiet, baseline>>

(* All that the stat saw is parsed: the handle is closed, the next file follows. *)
Close ==
  /\ pc = "read" /\ lines = <<>> /\ cursor = upto /\ Closed
  /\ UNCHANGED <<driver, limit, agent, offset, held, todo, parser, boundFile, resumes, quiet, baseline>>

WatchStep ==
  \/ \E f \in Files : Baseline(f) \/ Stat(f)
  \/ Watch \/ Expire \/ Sweep \/ Read \/ FeedLine \/ OnBound \/ OnProgress \/ Close

-----------------------------------------------------------------------------
Tick ==
  /\ limit # 0 /\ quiet < limit /\ pc # "baseline" /\ pc \notin Ended
  /\ quiet' = quiet + 1
  /\ UNCHANGED <<driver, limit, agent, watch, baseline>>

Prompted == \E i \in 1 .. Len(content[Mine]) : content[Mine][i] = "prompt"

(* What an agent may write: a file begins with its conversation; the marker   *)
(* comes once, into my file, and only when the watch runs, for the prompt is  *)
(* pasted after it began; the first word on the turn comes after the prompt,  *)
(* and the record of an earlier turn that comes before it is its end.         *)
MayWrite(f, line) ==
  /\ line = "meta" <=> content[f] = <<>>
  /\ line = "prompt" => f = Mine /\ ~Prompted /\ pc # "baseline"
  /\ line \in {"talk", "step", "error", "aborted", "blank"} => f = Mine /\ Prompted

Write(f) ==
  /\ pc \notin Ended
  /\ size' = [size EXCEPT ![f] = @ + 1]
  /\ IF size[f] % 2 = 1
       THEN UNCHANGED <<content, begun>>
       ELSE /\ begun + cuts < MaxWrites /\ begun' = begun + 1
            /\ \E line \in Lines : MayWrite(f, line) /\ content' = [content EXCEPT ![f] = Append(@, line)]
  /\ UNCHANGED <<driver, limit, cuts, watch, quiet, baseline>>

(* The vendor begins my file anew. *)
Truncate ==
  /\ pc \notin Ended /\ begun + cuts < MaxWrites /\ size[Mine] > 0
  /\ content' = [content EXCEPT ![Mine] = <<>>] /\ size' = [size EXCEPT ![Mine] = 0]
  /\ cuts' = cuts + 1
  /\ UNCHANGED <<driver, limit, begun, watch, quiet, baseline>>

Next ==
  \/ WatchStep
  \/ Interrupted
  \/ Tick
  \/ \E f \in Files : Write(f)
  \/ Truncate

Spec == Init /\ [][Next]_vars

(* Node resumes the watch when its await is over, callbacks end, time passes. *)
FairSpec == Spec /\ WF_vars(WatchStep) /\ WF_vars(Tick)

-----------------------------------------------------------------------------
(* Types: the bound file is one the parser has bound to, and what is read of  *)
(* a file that was never cut is never ahead of it.                            *)
TypeOK ==
  /\ driver \in {"claude", "codex"} /\ limit \in {0, Limit}
  /\ content \in [Files -> Seq(Lines)] /\ size \in [Files -> Nat]
  /\ \A f \in Files : size[f] \in {2 * Len(content[f]), 2 * Len(content[f]) - 1}
  /\ \A f \in Files : (f = Mine => cuts = 0) => offset[f] <= size[f]
  /\ held \in [Files -> Lines \cup {None}]
  /\ pc \in {"baseline", "sweep", "read", "bind", "progress"} \cup Ended
  /\ todo \subseteq Files /\ file \in Files \cup {None}
  /\ lines \in Seq(Lines) /\ cursor <= upto
  /\ parser.provider \in Files \cup {None} /\ (boundFile # None <=> parser.bound)
  /\ resumes \in Files \cup {None} /\ quiet \in 0 .. Limit

(* replayArtifact (artifact-parser.js:332): the parser over the given lines. *)
Replay(seq) ==
  LET after[n \in 0 .. Len(seq)] ==
        IF n = 0 THEN Unbound ELSE Feed(after[n - 1], seq[n], Mine)
  IN after[Len(seq)]

(* The lines of my file that began after the baseline and have been parsed. *)
Parsed ==
  SubSeq(content[Mine], (baseline[Mine] + 1) \div 2 + 1,
         (offset[Mine] \div 2) - (IF file = Mine THEN Len(lines) ELSE 0))

SameButProvider(s, t) == [s EXCEPT !.provider = None] = [t EXCEPT !.provider = None]

(* However the file is cut into writes, polls and increments, whatever other  *)
(* files hold, the parser is where a replay of the file from the baseline is: *)
(* no line is lost, parsed twice or parsed in halves (offsets, remainders).   *)
WatchAgreesWithReplay ==
  /\ TypeOK
  /\ pc # "baseline" /\ cuts = 0 => SameButProvider(parser, Replay(Parsed))

(* The records that end a turn, by driver. *)
Terminal == IF driver = "claude" THEN {"error", "aborted", "end"} ELSE {"aborted", "end", "blank"}

(* Records first to last of my file hold one of the given kinds. *)
Has(kinds, first, last) == \E i \in first .. last : content[Mine][i] \in kinds

(* The record at e ends the turn whose prompt is at p. *)
EndsTurn(p, e) ==
  /\ content[Mine][p] = "prompt" /\ p < e
  /\ content[Mine][e] \in Terminal /\ ~Has(Terminal, p + 1, e - 1)

(* The session resumes the conversation its prompt landed in (session-manager.js: *)
(* 852, 944).  It fails for codex: the parser is shared by all files until one is *)
(* bound, and takes the session_meta of any (274, 138-144).                      *)
ResumesItsConversation == boundFile # None /\ pc # "bind" => resumes = boundFile

(* The verdict is the one the agent wrote for this turn: not an earlier turn's,  *)
(* not one of another file, and a completion has a text and, for codex, no error *)
(* since the prompt (artifacts.js:154, artifact-parser.js:251-268, 310-321); and *)
(* claude's session resumes the conversation its prompt landed in.               *)
VerdictIsTheAgents ==
  /\ driver = "claude" => ResumesItsConversation
  /\ pc = "done" /\ cuts = 0 =>
       \E p, e \in 1 .. Len(content[Mine]) :
         /\ EndsTurn(p, e)
         /\ parser.result = "completed" <=>
              IF driver = "claude"
                THEN content[Mine][e] = "end"
                ELSE /\ content[Mine][e] # "aborted" /\ ~Has({"error"}, p, e)
                     /\ Has({"talk", "end"}, p, e)

(* A turn that runs into its limit has written nothing unread.  It fails: the    *)
(* limit is tested before the file is looked at (artifacts.js:94, 112).          *)
SilenceIsReal ==
  pc = "inactive" /\ cuts = 0 /\ boundFile # None =>
    size[boundFile] \div 2 <= offset[boundFile] \div 2

(* The turn's last record is written whole. *)
EndWritten ==
  \E p, e \in 1 .. Len(content[Mine]) : EndsTurn(p, e) /\ 2 * e <= size[Mine]

(* A watch ends: at the record that ends the turn, however it is written, or,    *)
(* when the limit is on, after enough silence, whatever the agent does.          *)
WatchEnds ==
  (limit # 0 \/ EndWritten) ~> (pc \in Ended \/ (limit = 0 /\ cuts > 0))

=============================================================================
