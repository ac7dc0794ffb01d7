------------------------ MODULE ArtifactWatchProofs ------------------------
(***************************************************************************)
(* Proofs about ArtifactWatch, for any number of files, lines, cuts of a   *)
(* file, increments of any size and any limit: the incremental parser is   *)
(* where a replay would be, and the verdict is the agent's.                *)
(***************************************************************************)
EXTENDS ArtifactWatch, SequenceTheorems, WellFoundedInduction, TLAPS

Result == {"none", "progress", "completed", "failed"}
ParserState == [bound : BOOLEAN, provider : Files \cup {None}, text : BOOLEAN, error : BOOLEAN,
                result : Result]

(* The parser of a given driver, for lemmas that relate two states. *)
FeedBy(d, s, line, conversation) ==
  IF d = "claude" THEN ParseClaude(s, line, conversation) ELSE ParseCodex(s, line, conversation)

(* after is the function Replay applies to the length of seq. *)
IsReplay(after, d, seq, n) ==
  after = [k \in 0 .. n |-> IF k = 0 THEN Unbound ELSE FeedBy(d, after[k - 1], seq[k], Mine)]

ReplayBy(d, seq) ==
  LET after[n \in 0 .. Len(seq)] ==
        IF n = 0 THEN Unbound ELSE FeedBy(d, after[n - 1], seq[n], Mine)
  IN after[Len(seq)]

-----------------------------------------------------------------------------
(* The replay of a sequence: a recursive function exists, and there is one. *)
LEMMA LeastOf ==
  ASSUME NEW T \in SUBSET Nat, T # {}
  PROVE  \E n \in T : \A m \in T : n <= m
<1> DEFINE R == {ss \in Nat \X Nat : ss[1] < ss[2]}
<1>1. IsWellFoundedOn(R, Nat)
  BY NatLessThanWellFounded DEF OpToRel
<1>2. \E x \in T : \A y \in T : ~(<<y, x>> \in R)
  <2> HIDE DEF R
  <2> QED BY <1>1, WFMin, Zenon
<1>3. PICK x \in T : \A y \in T : ~(<<y, x>> \in R)
  BY <1>2, Zenon
<1>4. ASSUME NEW y \in T PROVE x <= y
  <2>1. y < x => <<y, x>> \in R
    OBVIOUS
  <2>2. ~(y < x)
    <3> HIDE DEF R
    <3> QED BY <1>3, <2>1, Zenon
  <2> QED BY <2>2
<1> QED BY <1>4

LEMMA ReplayIsThere ==
  ASSUME NEW d, NEW seq
  PROVE  \A n \in Nat : \E after : IsReplay(after, d, seq, n)
<1> DEFINE T == {n \in Nat : ~ \E after : IsReplay(after, d, seq, n)}
<1> SUFFICES ASSUME T # {} PROVE FALSE
  OBVIOUS
<1>1. PICK n \in T : \A m \in T : n <= m
  BY LeastOf
<1>2. CASE n = 0
  <2> DEFINE after == [k \in 0 .. 0 |-> Unbound]
  <2>1. IsReplay(after, d, seq, 0)
    BY DEF IsReplay
  <2> QED BY <1>1, <1>2, <2>1
<1>3. CASE n # 0
  <2>1. n - 1 \in Nat /\ n - 1 \notin T
    BY <1>1, <1>3
  <2>2. PICK before : IsReplay(before, d, seq, n - 1)
    BY <2>1
  <2> DEFINE after == [k \in 0 .. n |->
                         IF k = n THEN FeedBy(d, before[n - 1], seq[n], Mine) ELSE before[k]]
  <2>3. \A k \in 0 .. n : after[k] = IF k = 0 THEN Unbound ELSE FeedBy(d, after[k - 1], seq[k], Mine)
    <3> SUFFICES ASSUME NEW k \in 0 .. n
                 PROVE  after[k] = IF k = 0 THEN Unbound ELSE FeedBy(d, after[k - 1], seq[k], Mine)
      OBVIOUS
    <3>1. CASE k = n
      BY <1>1, <1>3, <3>1
    <3>2. CASE k # n
      <4>1. k \in 0 .. n - 1 /\ (k # 0 => k - 1 \in 0 .. n - 1)
        BY <1>1, <3>2
      <4>2. before[k] = IF k = 0 THEN Unbound ELSE FeedBy(d, before[k - 1], seq[k], Mine)
        BY <2>2, <4>1 DEF IsReplay
      <4> QED BY <1>1, <3>2, <4>1, <4>2
    <3> QED BY <3>1, <3>2
  <2>4. IsReplay(after, d, seq, n)
    BY <2>3 DEF IsReplay
  <2> QED BY <1>1, <2>4
<1> QED BY <1>2, <1>3

(* Two replays agree as far as their sequences do. *)
LEMMA ReplaysAgree ==
  ASSUME NEW d, NEW s, NEW t, NEW a, NEW b, NEW m \in Nat, NEW n \in Nat, m <= n,
         IsReplay(a, d, s, m), IsReplay(b, d, t, n), \A k \in 1 .. m : s[k] = t[k]
  PROVE  a[m] = b[m]
<1> DEFINE T == {k \in 0 .. m : a[k] # b[k]}
<1> SUFFICES ASSUME T # {} PROVE FALSE
  BY m \in 0 .. m
<1>0. T \subseteq Nat
  OBVIOUS
<1>1. PICK k \in T : \A j \in T : k <= j
  BY <1>0, LeastOf
<1>2. /\ a[k] = IF k = 0 THEN Unbound ELSE FeedBy(d, a[k - 1], s[k], Mine)
      /\ b[k] = IF k = 0 THEN Unbound ELSE FeedBy(d, b[k - 1], t[k], Mine)
  BY <1>1 DEF IsReplay
<1>3. CASE k = 0
  BY <1>1, <1>2, <1>3
<1>4. CASE k # 0
  <2>1. k - 1 \in 0 .. m /\ k - 1 \notin T /\ s[k] = t[k]
    BY <1>1, <1>4
  <2> QED BY <1>1, <1>2, <1>4, <2>1
<1> QED BY <1>3, <1>4

LEMMA ReplayIs ==
  ASSUME NEW d, NEW seq, Len(seq) \in Nat
  PROVE  \E after : IsReplay(after, d, seq, Len(seq)) /\ ReplayBy(d, seq) = after[Len(seq)]
<1> DEFINE f == CHOOSE after : IsReplay(after, d, seq, Len(seq))
<1>1. IsReplay(f, d, seq, Len(seq))
  BY ReplayIsThere
<1>2. ReplayBy(d, seq) = f[Len(seq)]
  BY DEF ReplayBy, IsReplay
<1> QED BY <1>1, <1>2

(* What the two ways to cut a line off a sequence mean for a replay. *)
LEMMA ReplayOfNothing ==
  ASSUME NEW d, NEW seq, Len(seq) = 0
  PROVE  ReplayBy(d, seq) = Unbound
BY ReplayIs DEF IsReplay

LEMMA ReplayOfOneMore ==
  ASSUME NEW d, NEW seq \in Seq(Lines), NEW line \in Lines
  PROVE  ReplayBy(d, Append(seq, line)) = FeedBy(d, ReplayBy(d, seq), line, Mine)
<1> DEFINE n == Len(seq)
           more == Append(seq, line)
<1>0. n \in Nat /\ Len(more) = n + 1 /\ more[n + 1] = line /\ \A k \in 1 .. n : seq[k] = more[k]
  OBVIOUS
<1> HIDE DEF n, more
<1>1. PICK a : IsReplay(a, d, seq, n) /\ ReplayBy(d, seq) = a[n]
  BY <1>0, ReplayIs DEF n
<1>2. PICK b : IsReplay(b, d, more, n + 1) /\ ReplayBy(d, more) = b[n + 1]
  BY <1>0, ReplayIs
<1>3. a[n] = b[n]
  <2> DEFINE m == n + 1
  <2>1. m \in Nat /\ n <= m
    BY <1>0
  <2>2. IsReplay(b, d, more, m)
    BY <1>2
  <2> HIDE DEF m
  <2> QED BY <1>0, <1>1, <2>1, <2>2, ReplaysAgree
<1>4. b[n + 1] = FeedBy(d, b[n], line, Mine)
  BY <1>0, <1>2 DEF IsReplay
<1> QED BY <1>1, <1>2, <1>3, <1>4 DEF more

LEMMA ReplayIsBy ==
  ASSUME NEW seq
  PROVE  Replay(seq) = ReplayBy(driver, seq)
BY DEF Replay, ReplayBy, Feed, FeedBy

-----------------------------------------------------------------------------
(* The parser *)
LEMMA SameIs ==
  ASSUME NEW s \in ParserState, NEW t \in ParserState
  PROVE  SameButProvider(s, t) <=>
           s.bound = t.bound /\ s.text = t.text /\ s.error = t.error /\ s.result = t.result
BY DEF ParserState, SameButProvider

LEMMA Parses ==
  ASSUME NEW s \in ParserState, NEW line \in Lines, NEW c \in Files, NEW d
  PROVE  /\ FeedBy(d, s, line, c) \in ParserState
         /\ FeedBy(d, s, line, c).bound = (s.bound \/ line = "prompt")
         /\ d = "claude" => FeedBy(d, s, line, c).provider = c
         /\ \A t \in ParserState, e \in Files :
              SameButProvider(s, t) =>
                SameButProvider(FeedBy(d, s, line, c), FeedBy(d, t, line, e))
         /\ Unbound \in ParserState
<1> USE DEF Lines, ParserState, Result
<1>1. \A t \in ParserState, e \in Files : FeedBy(d, t, line, e) \in ParserState
  <2> SUFFICES ASSUME NEW t \in ParserState, NEW e \in Files PROVE FeedBy(d, t, line, e) \in ParserState
    OBVIOUS
  <2>1. ParseClaude(t, line, e) \in ParserState
    BY DEF ParseClaude
  <2>2. ParseCodex(t, line, e) \in ParserState
    <3>1. CASE line = "end"
      BY <3>1 DEF ParseCodex
    <3>4. CASE line = "blank"
      BY <3>4 DEF ParseCodex
    <3>2. CASE line \in {"aborted", "error"}
      BY <3>2 DEF ParseCodex
    <3>3. CASE line \in {"meta", "prompt", "talk", "step"}
      BY <3>3 DEF ParseCodex
    <3> QED BY <3>1, <3>2, <3>3, <3>4
  <2> QED BY <2>1, <2>2 DEF FeedBy
<1>2. FeedBy(d, s, line, c).bound = (s.bound \/ line = "prompt")
  BY DEF FeedBy, ParseClaude, ParseCodex
<1>3. d = "claude" => FeedBy(d, s, line, c).provider = c
  BY DEF FeedBy, ParseClaude
<1>4. \A t \in ParserState, e \in Files :
        SameButProvider(s, t) => SameButProvider(FeedBy(d, s, line, c), FeedBy(d, t, line, e))
  <2> SUFFICES ASSUME NEW t \in ParserState, NEW e \in Files, SameButProvider(s, t)
               PROVE  SameButProvider(FeedBy(d, s, line, c), FeedBy(d, t, line, e))
    OBVIOUS
  <2>1. s.bound = t.bound /\ s.text = t.text /\ s.error = t.error /\ s.result = t.result
    BY SameIs
  <2>2. FeedBy(d, t, line, e) \in ParserState
    BY <1>1
  <2> DEFINE x == FeedBy(d, s, line, c)
             y == FeedBy(d, t, line, e)
  <2>3. x.bound = y.bound /\ x.text = y.text /\ x.error = y.error /\ x.result = y.result
    <3>1. CASE d = "claude"
      BY <2>1, <3>1 DEF FeedBy, ParseClaude
    <3>2. CASE d # "claude"
      <4>1. x = ParseCodex(s, line, c) /\ y = ParseCodex(t, line, e)
        BY <3>2 DEF FeedBy
      <4> HIDE DEF x, y
      <4>2. x.bound = y.bound /\ x.result = y.result
        BY <2>1, <4>1 DEF ParseCodex
      <4>3. x.text = y.text /\ x.error = y.error
        BY <2>1, <4>1 DEF ParseCodex
      <4> QED BY <4>2, <4>3
    <3> QED BY <3>1, <3>2
  <2> HIDE DEF x, y
  <2> QED BY <1>1, <2>2, <2>3, SameIs DEF x, y
<1>5. Unbound \in ParserState
  BY DEF Unbound
<1> QED BY <1>1, <1>2, <1>3, <1>4, <1>5

LEMMA ReplayTypes ==
  ASSUME NEW d, NEW seq \in Seq(Lines)
  PROVE  ReplayBy(d, seq) \in ParserState
<1> DEFINE n == Len(seq)
<1>0. n \in Nat /\ Unbound \in ParserState /\ Mine \in Files
  BY FilesAreFiles DEF Unbound, ParserState, Result
<1>1. PICK after : IsReplay(after, d, seq, n) /\ ReplayBy(d, seq) = after[n]
  BY <1>0, ReplayIs
<1> DEFINE T == {k \in 0 .. n : after[k] \notin ParserState}
<1> SUFFICES ASSUME T # {} PROVE FALSE
  BY <1>0, <1>1
<1>2. T \subseteq Nat
  OBVIOUS
<1>3. PICK k \in T : \A j \in T : k <= j
  BY <1>2, LeastOf
<1>4. after[k] = IF k = 0 THEN Unbound ELSE FeedBy(d, after[k - 1], seq[k], Mine)
  BY <1>1, <1>3 DEF IsReplay
<1>5. k # 0 /\ k \in 1 .. n
  BY <1>0, <1>3, <1>4
<1>6. after[k - 1] \in ParserState
  BY <1>0, <1>3, <1>5
<1>7. seq[k] \in Lines
  BY <1>5, ElementOfSeq
<1> QED BY <1>0, <1>3, <1>4, <1>5, <1>6, <1>7, Parses

(* Before the prompt a line leaves no trace but the conversation it names. *)
LEMMA UnboundStays ==
  ASSUME NEW s \in ParserState, SameButProvider(s, Unbound), NEW line \in Lines \ {"prompt"},
         NEW c \in Files, NEW d
  PROVE  SameButProvider(FeedBy(d, s, line, c), Unbound)
BY DEF Lines, ParserState, SameButProvider, Unbound, FeedBy, ParseClaude, ParseCodex

-----------------------------------------------------------------------------
(* The inductive invariant *)

(* A file whose lines are where they were when they were read. *)
Uncut(f) == f = Mine => cuts = 0

Types ==
  /\ driver \in {"claude", "codex"} /\ limit \in {0, Limit}
  /\ content \in [Files -> Seq(Lines)] /\ size \in [Files -> Nat]
  /\ \A f \in Files : size[f] \in {2 * Len(content[f]), 2 * Len(content[f]) - 1}
  /\ offset \in [Files -> Nat] /\ \A f \in Files : Uncut(f) => offset[f] <= size[f]
  /\ baseline \in [Files -> Nat]
  /\ held \in [Files -> Lines \cup {None}]
  /\ pc \in {"baseline", "sweep", "read", "bind", "progress"} \cup Ended
  /\ todo \subseteq Files /\ file \in Files \cup {None}
  /\ lines \in Seq(Lines) /\ cursor \in Nat /\ upto \in Nat /\ cursor <= upto
  /\ parser \in ParserState /\ boundFile \in Files \cup {None}
  /\ resumes \in Files \cup {None} /\ quiet \in 0 .. Limit /\ cuts \in Nat

(* What each await of the watch implies of the open file. *)
AwaitInv ==
  /\ pc \in {"baseline", "sweep"} => file = None /\ lines = <<>>
  /\ pc = "read" => file # None
  /\ pc \in {"bind", "progress", "done"} => boundFile = Mine /\ file = Mine
  /\ pc = "baseline" => boundFile = None

(* Only my file holds the prompt, so the turn is bound to it; until then no line *)
(* has left a trace in the parser, and from then on no other file is read.      *)
BoundInv ==
  /\ \A f \in Files \ {Mine} : \A i \in 1 .. Len(content[f]) : content[f][i] # "prompt"
  /\ file # Mine => \A i \in 1 .. Len(lines) : lines[i] # "prompt"
  /\ boundFile = IF parser.bound THEN Mine ELSE None
  /\ ~parser.bound => SameButProvider(parser, Unbound)
  /\ parser.bound => todo \subseteq {Mine} /\ file \in {Mine, None}

(* Each of Claude's records names its conversation. *)
ResumeInv ==
  driver = "claude" /\ parser.bound =>
    parser.provider = Mine /\ (pc # "bind" => resumes = Mine)

(* The first line parsed is the one after First, the last one is Last. *)
First == (baseline[Mine] + 1) \div 2
Last == offset[Mine] \div 2 - (IF file = Mine THEN Len(lines) ELSE 0)

(* Where the watch is in my file: a half line is held unless the baseline cut *)
(* it, and the lines of the increment are those that end where it ends.      *)
PlaceInv ==
  cuts = 0 =>
    /\ pc = "baseline" => baseline[Mine] = offset[Mine]
    /\ baseline[Mine] <= offset[Mine]
    /\ offset[Mine] = baseline[Mine] => held[Mine] = None
    /\ offset[Mine] > baseline[Mine] /\ offset[Mine] % 2 = 1 =>
         held[Mine] = content[Mine][offset[Mine] \div 2 + 1]
    /\ file = Mine =>
         /\ cursor = offset[Mine]
         /\ Len(lines) <= offset[Mine] \div 2
         /\ lines # <<>> => First <= Last
         /\ lines = SubSeq(content[Mine], Last + 1, offset[Mine] \div 2)

ReplayInv == cuts = 0 => SameButProvider(parser, ReplayBy(driver, Parsed))

(* What the parser has seen of the turn whose prompt is at p. *)
SeenSince(p) ==
  /\ content[Mine][p] = "prompt" /\ ~Has(Terminal, p + 1, Last)
  /\ parser.text <=> Has({"talk", "end"}, p, Last)
  /\ driver = "codex" => (parser.error <=> Has({"error"}, p, Last))

(* The record at e ended the turn whose prompt is at p, as it says. *)
EndedBy(p, e) ==
  /\ EndsTurn(p, e)
  /\ parser.result = "completed" <=>
       IF driver = "claude"
         THEN content[Mine][e] = "end"
         ELSE /\ content[Mine][e] # "aborted" /\ ~Has({"error"}, p, e)
              /\ Has({"talk", "end"}, p, e)

VerdictInv ==
  /\ pc = "done" <=> IsTerminal(parser)
  /\ cuts = 0 /\ parser.bound =>
       \E p \in First + 1 .. Last : IF IsTerminal(parser) THEN EndedBy(p, Last) ELSE SeenSince(p)

IInv == Types /\ AwaitInv /\ BoundInv /\ ResumeInv /\ PlaceInv /\ ReplayInv /\ VerdictInv

-----------------------------------------------------------------------------
(* Numbers and sequences *)
LEMMA Halves ==
  ASSUME NEW n \in Nat
  PROVE  n \div 2 \in Nat /\ n % 2 \in {0, 1} /\ n = 2 * (n \div 2) + (n % 2)
OBVIOUS

LEMMA Cuts ==
  ASSUME NEW c \in Seq(Lines), NEW m \in Nat \ {0}, NEW n \in Nat, n <= Len(c)
  PROVE  /\ SubSeq(c, m, n) \in Seq(Lines)
         /\ Len(SubSeq(c, m, n)) = IF m <= n THEN n - m + 1 ELSE 0
         /\ \A i \in 1 .. Len(SubSeq(c, m, n)) : SubSeq(c, m, n)[i] = c[m + i - 1]
BY SubSeqProperties

LEMMA EmptyCut ==
  ASSUME NEW c, NEW m \in Nat, NEW n \in Nat, n <= m
  PROVE  SubSeq(c, m + 1, n) = <<>>
<1> DEFINE k == m + 1
<1>1. k \in Int /\ n < k
  OBVIOUS
<1> HIDE DEF k
<1>2. SubSeq(c, k, n) = <<>>
  BY <1>1, SubSeqEmpty
<1> QED BY <1>2 DEF k

LEMMA CutTail ==
  ASSUME NEW c \in Seq(Lines), NEW m \in 1 .. Len(c), NEW n \in m .. Len(c)
  PROVE  /\ SubSeq(c, m, n) # <<>>
         /\ Head(SubSeq(c, m, n)) = c[m] /\ Tail(SubSeq(c, m, n)) = SubSeq(c, m + 1, n)
<1>1. Len(SubSeq(c, m, n)) # 0
  BY Cuts
<1> QED BY <1>1, HeadTailOfSubSeq, EmptySeq

LEMMA CutMore ==
  ASSUME NEW c \in Seq(Lines), NEW a \in Nat, NEW b \in Nat, a <= b, b + 1 <= Len(c)
  PROVE  SubSeq(c, a + 1, b + 1) = Append(SubSeq(c, a + 1, b), c[b + 1])
<1>1. SubSeq(c, a + 1, b + 1) = SubSeq(c, a + 1, b) \o <<c[b + 1]>>
  BY SubSeqRecursiveSecond
<1>2. SubSeq(c, a + 1, b) \in Seq(Lines) /\ c[b + 1] \in Lines
  BY Cuts
<1> QED BY <1>1, <1>2, AppendIsConcat

LEMMA CutGrows ==
  ASSUME NEW c \in Seq(Lines), NEW line \in Lines, NEW m \in Nat \ {0}, NEW n \in Nat, n <= Len(c)
  PROVE  SubSeq(Append(c, line), m, n) = SubSeq(c, m, n)
<1> DEFINE s == SubSeq(Append(c, line), m, n)
           t == SubSeq(c, m, n)
<1>1. Append(c, line) \in Seq(Lines) /\ Len(Append(c, line)) = Len(c) + 1
  OBVIOUS
<1>2. /\ s \in Seq(Lines) /\ Len(s) = IF m <= n THEN n - m + 1 ELSE 0
      /\ \A i \in 1 .. Len(s) : s[i] = Append(c, line)[m + i - 1]
  BY <1>1, Cuts
<1>3. /\ t \in Seq(Lines) /\ Len(t) = IF m <= n THEN n - m + 1 ELSE 0
      /\ \A i \in 1 .. Len(t) : t[i] = c[m + i - 1]
  BY Cuts
<1> HIDE DEF s, t
<1>4. \A i \in 1 .. Len(s) : s[i] = t[i]
  BY <1>2, <1>3
<1>5. s = t
  BY <1>2, <1>3, <1>4, SeqEqual
<1> QED BY <1>5 DEF s, t

-----------------------------------------------------------------------------
(* What a fed line does to the parser, whichever file it is of. *)
LEMMA FeedLineDoes ==
  ASSUME Types, AwaitInv, FeedLine
  PROVE  LET line == Head(lines)
             fed  == FeedBy(driver, parser, line, file)
         IN /\ line \in Lines /\ file \in Files /\ line = lines[1]
            /\ lines' = Tail(lines) /\ lines' \in Seq(Lines) /\ Len(lines) > 0
            /\ Len(lines') = Len(lines) - 1 /\ \A i \in 1 .. Len(lines') : lines'[i] = lines[i + 1]
            /\ parser' \in ParserState /\ SameButProvider(parser', fed)
            /\ parser'.bound = (parser.bound \/ line = "prompt")
            /\ driver = "claude" => parser'.provider = file
            /\ parser'.text = fed.text /\ parser'.error = fed.error /\ parser'.result = fed.result
<1> DEFINE line == Head(lines)
           fed  == FeedBy(driver, parser, line, file)
<1>1. file \in Files /\ lines \in Seq(Lines) /\ lines # <<>> /\ parser \in ParserState
  BY DEF FeedLine, Types, AwaitInv
<1>2. /\ line \in Lines /\ line = lines[1] /\ Tail(lines) \in Seq(Lines) /\ Len(lines) > 0
      /\ Len(Tail(lines)) = Len(lines) - 1
      /\ \A i \in 1 .. Len(Tail(lines)) : Tail(lines)[i] = lines[i + 1]
  BY <1>1, HeadTailProperties, EmptySeq
<1>3. /\ fed \in ParserState /\ fed.bound = (parser.bound \/ line = "prompt")
      /\ driver = "claude" => fed.provider = file
  BY <1>1, <1>2, Parses
<1>4. lines' = Tail(lines) /\ (parser' = fed \/ parser' = [fed EXCEPT !.provider = file])
  BY DEF FeedLine, Feed, FeedBy
<1> HIDE DEF line, fed
<1>5. /\ parser' \in ParserState /\ parser'.bound = fed.bound
      /\ parser'.text = fed.text /\ parser'.error = fed.error /\ parser'.result = fed.result
      /\ parser'.provider \in {fed.provider, file}
  BY <1>1, <1>3, <1>4 DEF ParserState
<1>6. SameButProvider(parser', fed)
  BY <1>3, <1>5, SameIs
<1> QED BY <1>1, <1>2, <1>3, <1>4, <1>5, <1>6 DEF line, fed

-----------------------------------------------------------------------------
(* Types *)
LEMMA ReadReads ==
  ASSUME Types, AwaitInv, Read, lines' # <<>> \/ pc' = "read"
  PROVE  /\ file \in Files /\ lines = <<>> /\ cursor < cursor' /\ cursor' <= upto
         /\ cursor' \in Nat /\ cursor' <= size[file] /\ cursor' \div 2 <= Len(content[file])
         /\ cursor' % 2 = 1 => cursor' \div 2 + 1 \in 1 .. Len(content[file])
         /\ offset' = [offset EXCEPT ![file] = cursor']
         /\ lines' = WholeLines(file, cursor, cursor')
         /\ held' = [held EXCEPT ![file] =
                       IF cursor' % 2 = 1 THEN content[file][cursor' \div 2 + 1] ELSE None]
         /\ UNCHANGED <<file, upto, pc>>
<1>1. file \in Files /\ lines = <<>> /\ cursor < upto /\ Chunk \in Nat \ {0}
  BY BoundsArePositive DEF Types, AwaitInv, Read, BeforeIncrement
<1>2. /\ cursor \in Nat /\ upto \in Nat /\ size[file] \in Nat
      /\ content[file] \in Seq(Lines) /\ Len(content[file]) \in Nat
  BY <1>1 DEF Types
<1>3. size[file] <= 2 * Len(content[file])
  <2>1. size[file] \in {2 * Len(content[file]), 2 * Len(content[file]) - 1}
    BY <1>1 DEF Types
  <2> QED BY <1>2, <2>1
<1> DEFINE left == IF upto < size[file] THEN upto ELSE size[file]
           to   == IF left < cursor + Chunk THEN left ELSE cursor + Chunk
<1>4. left \in Nat /\ left <= upto /\ left <= size[file]
  BY <1>2
<1>5. to \in Nat /\ to <= left
  BY <1>1, <1>2, <1>4
<1>6. /\ to > cursor
      /\ cursor' = to /\ UNCHANGED <<file, upto, pc>>
      /\ offset' = [offset EXCEPT ![file] = to]
      /\ lines' = WholeLines(file, cursor, to)
      /\ held' = [held EXCEPT ![file] =
                    IF to % 2 = 1 THEN content[file][(to + 1) \div 2] ELSE None]
  <2> HIDE DEF to
  <2>1. to <= cursor => lines' = <<>> /\ pc' = "sweep"
    BY DEF Read, Closed, Goto, to
  <2>2. ~(to <= cursor)
    BY <2>1
  <2>3. to > cursor
    BY <1>2, <1>5, <2>2
  <2> QED BY <2>2, <2>3 DEF Read, to
<1> HIDE DEF left, to
<1>7. to % 2 = 1 => (to + 1) \div 2 = to \div 2 + 1
  BY <1>5
<1>8. to <= upto /\ to <= size[file]
  BY <1>2, <1>4, <1>5
<1>9. to \div 2 <= Len(content[file]) /\ (to % 2 = 1 => to \div 2 + 1 <= Len(content[file]))
  BY <1>2, <1>3, <1>5, <1>8
<1>10. to \div 2 + 1 \in Nat \ {0}
  BY <1>5
<1>11. held' = [held EXCEPT ![file] =
                  IF cursor' % 2 = 1 THEN content[file][cursor' \div 2 + 1] ELSE None]
  BY <1>6, <1>7
<1>12. cursor' % 2 = 1 => cursor' \div 2 + 1 \in 1 .. Len(content[file])
  BY <1>2, <1>6, <1>9, <1>10
<1>13. cursor < cursor'
  BY <1>2, <1>5, <1>6
<1>14. /\ cursor' <= upto /\ cursor' \in Nat /\ cursor' <= size[file]
       /\ cursor' \div 2 <= Len(content[file])
       /\ offset' = [offset EXCEPT ![file] = cursor'] /\ lines' = WholeLines(file, cursor, cursor')
  BY <1>5, <1>6, <1>8, <1>9
<1> QED BY <1>1, <1>6, <1>11, <1>12, <1>13, <1>14

(* The lines of an increment are those of the file from one line on. *)
Start(f, from) ==
  IF from % 2 = 1 /\ held[f] # content[f][from \div 2 + 1] THEN from \div 2 + 2 ELSE from \div 2 + 1

LEMMA WholeLinesAre ==
  ASSUME NEW f \in Files, content[f] \in Seq(Lines), NEW from \in Nat, NEW to \in Nat, from < to,
         to \div 2 <= Len(content[f])
  PROVE  LET start == Start(f, from)
             whole == WholeLines(f, from, to)
         IN /\ start \in Nat \ {0} /\ start <= to \div 2 + 1
            /\ whole = SubSeq(content[f], start, to \div 2)
            /\ whole \in Seq(Lines) /\ Len(whole) = to \div 2 + 1 - start
            /\ \A i \in 1 .. Len(whole) : whole[i] = content[f][start + i - 1]
<1> DEFINE start == Start(f, from)
           whole == WholeLines(f, from, to)
           m     == from \div 2
           n     == to \div 2
<1>1. m \in Nat /\ n \in Nat /\ m <= n /\ (from % 2 = 1 => m + 1 <= n)
  OBVIOUS
<1>2. start = IF from % 2 = 1 /\ held[f] # content[f][m + 1] THEN m + 2 ELSE m + 1
  BY DEF Start
<1>3. whole = SubSeq(content[f], IF from % 2 = 1 /\ held[f] # content[f][m + 1] THEN m + 1 + 1 ELSE m + 1, n)
  BY DEF WholeLines
<1> HIDE DEF m, n, start, whole
<1>4. start \in Nat \ {0} /\ start <= n + 1
  BY <1>1, <1>2
<1>5. whole = SubSeq(content[f], start, n)
  BY <1>1, <1>2, <1>3
<1>6. n <= Len(content[f])
  BY DEF n
<1>7. whole \in Seq(Lines) /\ Len(whole) = n + 1 - start
  BY <1>1, <1>4, <1>5, <1>6, Cuts
<1>8. \A i \in 1 .. Len(whole) : whole[i] = content[f][start + i - 1]
  BY <1>1, <1>4, <1>5, <1>6, Cuts
<1> QED BY <1>4, <1>5, <1>7, <1>8 DEF start, whole, n

LEMMA InitTypes == Init => Types
<1> SUFFICES ASSUME Init PROVE Types
  OBVIOUS
<1>1. \A f \in Files : content[f] = <<>> \/ content[f] = <<"meta", "end">>
  BY DEF Init
<1>2. <<>> \in Seq(Lines) /\ <<"meta", "end">> \in Seq(Lines) /\ Len(<<>>) = 0
      /\ Len(<<"meta", "end">>) = 2
  BY DEF Lines
<1>3. content \in [Files -> Seq(Lines)] /\ size \in [Files -> Nat]
  BY <1>1, <1>2 DEF Init
<1>4. \A f \in Files : size[f] \in {2 * Len(content[f]), 2 * Len(content[f]) - 1}
  <2> SUFFICES ASSUME NEW f \in Files
               PROVE  size[f] = 2 * Len(content[f]) \/ size[f] = 2 * Len(content[f]) - 1
    OBVIOUS
  <2>1. size[f] = IF content[f] = <<>> THEN 0 ELSE IF f = Mine THEN 3 ELSE 4
    BY DEF Init
  <2>2. CASE content[f] = <<>>
    BY <1>2, <2>1, <2>2
  <2>3. CASE content[f] = <<"meta", "end">>
    <3>1. content[f] # <<>> /\ Len(content[f]) = 2
      BY <1>2, <2>3
    <3>2. size[f] = 3 \/ size[f] = 4
      BY <2>1, <3>1
    <3> QED BY <3>1, <3>2
  <2> QED BY <1>1, <2>2, <2>3
<1>5. \A f \in Files : offset[f] = 0 /\ offset \in [Files -> Nat] /\ baseline \in [Files -> Nat]
  BY DEF Init
<1>6. Unbound \in ParserState
  BY DEF Unbound, ParserState, Result
<1> QED BY <1>2, <1>3, <1>4, <1>5, <1>6, FilesAreFiles, BoundsArePositive
        DEF Init, Types, Uncut, Ended

LEMMA TypesKept ==
  ASSUME Types, AwaitInv, [Next]_vars
  PROVE  Types'
<1>1. ASSUME NEW f \in Files, Baseline(f) PROVE Types'
  <2>1. /\ UNCHANGED <<driver, limit, content, size, cuts, held, pc, file, cursor, upto, lines, parser,
                       boundFile, resumes, quiet>>
        /\ offset' = [offset EXCEPT ![f] = size[f]] /\ baseline' = offset' /\ todo' \subseteq todo
    BY <1>1 DEF Baseline, agent, reading
  <2>2. offset' \in [Files -> Nat] /\ \A g \in Files : offset'[g] \in {offset[g], size[g]}
    BY <2>1 DEF Types
  <2>3. \A g \in Files : Uncut(g) => offset'[g] <= size[g]
    <3> SUFFICES ASSUME NEW g \in Files, Uncut(g) PROVE offset'[g] <= size[g]
      OBVIOUS
    <3>1. offset[g] <= size[g] /\ size[g] \in Nat
      BY DEF Types
    <3> QED BY <2>2, <3>1
  <2> QED BY <2>1, <2>2, <2>3 DEF Types, Uncut
<1>2. ASSUME NEW f \in Files, Stat(f) PROVE Types'
  <2>1. offset[f] \in Nat /\ size[f] \in Nat
    BY DEF Types
  <2>2. UNCHANGED <<driver, limit, content, size, cuts, offset, parser, boundFile, resumes, quiet, baseline>>
    BY <1>2 DEF Stat, agent
  <2>3. todo' \subseteq Files /\ held' \in [Files -> Lines \cup {None}]
    BY <1>2 DEF Stat, Types
  <2>4. /\ pc' \in {"baseline", "sweep", "read", "bind", "progress"} \cup Ended
        /\ file' \in Files \cup {None} /\ lines' \in Seq(Lines) /\ cursor' \in Nat /\ upto' \in Nat
        /\ cursor' <= upto'
    <3> DEFINE from == IF size[f] < offset[f] THEN 0 ELSE offset[f]
    <3>1. from \in Nat /\ from <= size[f]
      BY <2>1
    <3>2. CASE size[f] = from
      BY <1>2, <3>2 DEF Stat, Types, reading
    <3>3. CASE size[f] # from
      <4>1. pc' = "read" /\ file' = f /\ cursor' = from /\ upto' = size[f] /\ lines' = <<>>
        BY <1>2, <3>3 DEF Stat, Goto
      <4> QED BY <2>1, <3>1, <4>1
    <3> QED BY <3>2, <3>3
  <2> QED BY <2>2, <2>3, <2>4 DEF Types, Uncut
<1>3. CASE Watch
  BY <1>3, BoundsArePositive DEF Watch, Goto, Types, agent, reading, Uncut
<1>4. CASE Expire \/ Interrupted
  BY <1>4 DEF Expire, Interrupted, Goto, Types, agent, reading, Uncut, Ended
<1>5. CASE Sweep
  BY <1>5 DEF Sweep, Types, agent, reading, Uncut
<1>6. CASE Read
  <2>0. UNCHANGED <<driver, limit, content, size, cuts, todo, parser, boundFile, resumes, quiet, baseline>>
    BY <1>6 DEF Read, agent
  <2>1. CASE lines' # <<>> \/ pc' = "read"
    <3>1. /\ file \in Files /\ cursor < cursor' /\ cursor' <= upto /\ cursor' \in Nat
          /\ cursor' <= size[file] /\ cursor' \div 2 <= Len(content[file])
          /\ cursor' % 2 = 1 => cursor' \div 2 + 1 \in 1 .. Len(content[file])
          /\ offset' = [offset EXCEPT ![file] = cursor'] /\ lines' = WholeLines(file, cursor, cursor')
          /\ held' = [held EXCEPT ![file] =
                        IF cursor' % 2 = 1 THEN content[file][cursor' \div 2 + 1] ELSE None]
          /\ UNCHANGED <<file, upto, pc>>
      BY <1>6, <2>1, ReadReads
    <3>2. content[file] \in Seq(Lines) /\ cursor \in Nat
      BY <3>1 DEF Types
    <3>3. lines' \in Seq(Lines)
      BY <3>1, <3>2, WholeLinesAre
    <3>4. held' \in [Files -> Lines \cup {None}]
      <4> DEFINE h == IF cursor' % 2 = 1 THEN content[file][cursor' \div 2 + 1] ELSE None
      <4>1. h \in Lines \cup {None}
        BY <3>1, <3>2, ElementOfSeq
      <4> HIDE DEF h
      <4>2. held' = [held EXCEPT ![file] = h]
        BY <3>1 DEF h
      <4> QED BY <4>1, <4>2 DEF Types
    <3> QED BY <2>0, <3>1, <3>3, <3>4 DEF Types, Uncut
  <2>2. CASE ~(lines' # <<>> \/ pc' = "read")
    <3>1. Closed /\ UNCHANGED <<offset, held>>
      BY <1>6, <2>2 DEF Read, BeforeIncrement
    <3> QED BY <2>0, <3>1 DEF Closed, Goto, Types, Uncut
  <2> QED BY <2>1, <2>2
<1>7. CASE FeedLine
  <2>1. lines' \in Seq(Lines) /\ parser' \in ParserState /\ file \in Files
    BY <1>7, FeedLineDoes
  <2>2. UNCHANGED <<driver, limit, content, size, cuts, offset, held, file, cursor, upto, baseline>>
    BY <1>7 DEF FeedLine, agent
  <2>3. todo' \subseteq Files /\ boundFile' \in Files \cup {None} /\ quiet' \in 0 .. Limit
    <3>1. /\ todo' = todo \/ todo' = todo \cap {file}
          /\ boundFile' \in {boundFile, file} /\ quiet' \in {0, quiet}
      BY <1>7 DEF FeedLine
    <3>2. todo \subseteq Files /\ boundFile \in Files \cup {None} /\ quiet \in 0 .. Limit
      BY DEF Types
    <3>3. 0 \in 0 .. Limit
      BY BoundsArePositive
    <3> QED BY <2>1, <3>1, <3>2, <3>3
  <2>4. pc' \in {"baseline", "sweep", "read", "bind", "progress"} \cup Ended
    BY <1>7 DEF FeedLine, Types, Goto, Ended
  <2>5. resumes' \in Files \cup {None}
    <3>1. Feed(parser, Head(lines), file) \in ParserState
      <4>1. Head(lines) \in Lines
        BY <1>7, FeedLineDoes
      <4>2. Feed(parser, Head(lines), file) = FeedBy(driver, parser, Head(lines), file)
        BY DEF Feed, FeedBy
      <4> QED BY <2>1, <4>1, <4>2, Parses DEF Types
    <3> QED BY <1>7, <3>1 DEF FeedLine, Types, ParserState
  <2> QED BY <2>1, <2>2, <2>3, <2>4, <2>5 DEF Types, Uncut
<1>8. CASE OnBound
  <2>1. parser.provider \in Files \cup {None}
    BY DEF Types, ParserState
  <2>2. pc' \in {"progress", "threw"} /\ quiet' \in {0, quiet} /\ resumes' = parser.provider
    BY <1>8 DEF OnBound, Goto
  <2>3. quiet' \in 0 .. Limit
    BY <2>2, BoundsArePositive DEF Types
  <2>4. UNCHANGED <<driver, limit, content, size, cuts, offset, held, todo, file, cursor, upto, lines,
                    parser, boundFile, baseline>>
    BY <1>8 DEF OnBound, agent, reading
  <2> QED BY <2>1, <2>2, <2>3, <2>4 DEF Types, Uncut, Ended
<1>14. CASE OnProgress
  <2>1. pc' \in {"read", "threw"}
    BY <1>14 DEF OnProgress, Goto
  <2>2. UNCHANGED <<driver, limit, content, size, cuts, offset, held, todo, file, cursor, upto, lines,
                    parser, boundFile, resumes, quiet, baseline>>
    BY <1>14 DEF OnProgress, agent, reading
  <2> QED BY <2>1, <2>2 DEF Types, Uncut, Ended
<1>9. CASE Close
  BY <1>9 DEF Close, Closed, Goto, Types, agent, Uncut
<1>10. CASE Tick
  BY <1>10, BoundsArePositive DEF Tick, Types, agent, watch, reading, Uncut
<1>11. ASSUME NEW f \in Files, Write(f) PROVE Types'
  <2>0. UNCHANGED <<driver, limit, cuts, offset, held, pc, todo, file, cursor, upto, lines, parser,
                    boundFile, resumes, quiet, baseline>>
    BY <1>11 DEF Write, watch, reading
  <2>1. content \in [Files -> Seq(Lines)] /\ size \in [Files -> Nat] /\ content[f] \in Seq(Lines)
        /\ Len(content[f]) \in Nat /\ size[f] \in Nat
        /\ size[f] \in {2 * Len(content[f]), 2 * Len(content[f]) - 1}
    <3>1. content \in [Files -> Seq(Lines)] /\ size \in [Files -> Nat]
      BY DEF Types
    <3>2. size[f] \in {2 * Len(content[f]), 2 * Len(content[f]) - 1}
      BY DEF Types
    <3>3. content[f] \in Seq(Lines) /\ size[f] \in Nat
      BY <3>1
    <3> QED BY <3>1, <3>2, <3>3, LenProperties
  <2>2. size' = [size EXCEPT ![f] = size[f] + 1]
    BY <1>11 DEF Write
  <2>3. size' \in [Files -> Nat] /\ \A g \in Files : size'[g] >= size[g]
    BY <2>1, <2>2
  <2>6. \A g \in Files : Uncut(g) => offset[g] <= size'[g]
    <3> SUFFICES ASSUME NEW g \in Files, Uncut(g) PROVE offset[g] <= size'[g]
      OBVIOUS
    <3>1. offset[g] <= size[g] /\ offset[g] \in Nat /\ size[g] \in Nat
      BY DEF Types
    <3>2. size'[g] \in Nat /\ size'[g] >= size[g]
      BY <2>3
    <3> QED BY <3>1, <3>2
  <2>7. /\ content' \in [Files -> Seq(Lines)]
        /\ \A g \in Files \ {f} : content'[g] = content[g] /\ size'[g] = size[g]
        /\ size'[f] \in {2 * Len(content'[f]), 2 * Len(content'[f]) - 1}
    <3>0. size'[f] = size[f] + 1
      BY <2>1, <2>2
    <3>1. CASE size[f] % 2 = 1
      <4>1. content' = content
        BY <1>11, <3>1 DEF Write
      <4>2. size[f] = 2 * Len(content[f]) - 1
        BY <2>1, <3>1
      <4>3. size'[f] = 2 * Len(content'[f])
        BY <2>1, <3>0, <4>1, <4>2
      <4> QED BY <2>1, <2>2, <4>1, <4>3
    <3>2. CASE size[f] % 2 # 1
      <4>1. PICK line \in Lines : content' = [content EXCEPT ![f] = Append(content[f], line)]
        BY <1>11, <3>2 DEF Write
      <4>2. size[f] = 2 * Len(content[f])
        BY <2>1, <3>2
      <4>3. Append(content[f], line) \in Seq(Lines) /\ Len(Append(content[f], line)) = Len(content[f]) + 1
        BY <2>1, AppendProperties
      <4>4. content' \in [Files -> Seq(Lines)] /\ content'[f] = Append(content[f], line)
        BY <2>1, <4>1, <4>3
      <4>5. size'[f] = 2 * Len(content'[f]) - 1
        BY <2>1, <3>0, <4>2, <4>3, <4>4
      <4>6. \A g \in Files \ {f} : content'[g] = content[g] /\ size'[g] = size[g]
        BY <2>1, <2>2, <4>1
      <4> QED BY <4>4, <4>5, <4>6
    <3> QED BY <3>1, <3>2
  <2>8. \A g \in Files : size'[g] \in {2 * Len(content'[g]), 2 * Len(content'[g]) - 1}
    <3> SUFFICES ASSUME NEW g \in Files PROVE size'[g] \in {2 * Len(content'[g]), 2 * Len(content'[g]) - 1}
      OBVIOUS
    <3>1. size[g] \in {2 * Len(content[g]), 2 * Len(content[g]) - 1}
      BY DEF Types
    <3>2. CASE g = f
      BY <2>7, <3>2
    <3>3. CASE g # f
      <4>1. content'[g] = content[g] /\ size'[g] = size[g]
        BY <2>7, <3>3
      <4> QED BY <3>1, <4>1, Zenon
    <3> QED BY <3>2, <3>3
  <2> QED BY <2>0, <2>3, <2>6, <2>7, <2>8 DEF Types, Uncut
<1>12. CASE Truncate
  <2>1. <<>> \in Seq(Lines) /\ Len(<<>>) = 0
    OBVIOUS
  <2>2. /\ UNCHANGED <<driver, limit, offset, held, pc, todo, file, cursor, upto, lines, parser,
                       boundFile, resumes, quiet, baseline>>
        /\ content' = [content EXCEPT ![Mine] = <<>>] /\ size' = [size EXCEPT ![Mine] = 0]
        /\ cuts' = cuts + 1
    BY <1>12 DEF Truncate, watch, reading
  <2>3. content' \in [Files -> Seq(Lines)] /\ size' \in [Files -> Nat]
    BY <2>1, <2>2 DEF Types
  <2>4. cuts' \in Nat /\ cuts' # 0
    BY <2>2 DEF Types
  <2>5. \A g \in Files : /\ size'[g] \in {2 * Len(content'[g]), 2 * Len(content'[g]) - 1}
                         /\ (g = Mine => cuts' = 0) => offset[g] <= size'[g]
    <3> SUFFICES ASSUME NEW g \in Files
                 PROVE  /\ size'[g] \in {2 * Len(content'[g]), 2 * Len(content'[g]) - 1}
                        /\ (g = Mine => cuts' = 0) => offset[g] <= size'[g]
      OBVIOUS
    <3>1. CASE g = Mine
      <4>1. size'[g] = 0 /\ content'[g] = <<>>
        BY <2>2, <3>1, FilesAreFiles DEF Types
      <4>2. size'[g] = 2 * Len(content'[g])
        BY <2>1, <4>1
      <4> QED BY <2>4, <3>1, <4>2
    <3>2. CASE g # Mine
      <4>1. size'[g] = size[g] /\ content'[g] = content[g]
        BY <2>2, <3>2 DEF Types
      <4>2. /\ size[g] \in {2 * Len(content[g]), 2 * Len(content[g]) - 1}
            /\ offset[g] <= size[g]
        BY <3>2 DEF Types, Uncut
      <4> QED BY <4>1, <4>2, Zenon
    <3> QED BY <3>1, <3>2
  <2> QED BY <2>2, <2>3, <2>4, <2>5 DEF Types, Uncut
<1>13. CASE UNCHANGED vars
  BY <1>13 DEF vars, Types, agent, watch, reading, Uncut
<1> QED BY <1>1, <1>2, <1>3, <1>4, <1>5, <1>6, <1>7, <1>8, <1>9, <1>10, <1>11, <1>12, <1>13, <1>14
        DEF Next, WatchStep

-----------------------------------------------------------------------------
(* The initial states *)
LEMMA InitInv == Init => IInv
<1> SUFFICES ASSUME Init PROVE IInv
  OBVIOUS
<1>1. Types
  BY InitTypes
<1>2. AwaitInv
  BY DEF Init, AwaitInv
<1>3. parser = Unbound /\ ~parser.bound /\ ~IsTerminal(parser)
  BY DEF Init, Unbound, IsTerminal
<1>4. BoundInv
  <2>1. \A f \in Files : content[f] = <<>> \/ content[f] = <<"meta", "end">>
    BY DEF Init
  <2>2. \A f \in Files : \A i \in 1 .. Len(content[f]) : content[f][i] # "prompt"
    BY <2>1
  <2> QED BY <1>3, <2>2, FilesAreFiles DEF Init, BoundInv, SameButProvider
<1>5. ResumeInv
  BY <1>3 DEF ResumeInv
<1>6. baseline[Mine] = 0 /\ offset[Mine] = 0 /\ held[Mine] = None /\ file = None /\ None # Mine
  BY FilesAreFiles DEF Init
<1>7. PlaceInv
  BY <1>6 DEF PlaceInv
<1>8. ReplayInv
  <2>1. Parsed = SubSeq(content[Mine], 1, 0)
    BY <1>6 DEF Parsed
  <2>2. Len(Parsed) = 0
    BY <1>1, <2>1, Cuts, FilesAreFiles DEF Types
  <2> QED BY <1>3, <2>2, ReplayOfNothing DEF ReplayInv, SameButProvider
<1>9. VerdictInv
  BY <1>3 DEF Init, VerdictInv
<1> QED BY <1>1, <1>2, <1>4, <1>5, <1>7, <1>8, <1>9 DEF IInv

-----------------------------------------------------------------------------
(* The steps that neither read a file nor change one, and those that close one. *)
Elsewhere ==
  /\ UNCHANGED <<driver, content, size, offset, baseline, held, file, cursor, lines, parser,
                 boundFile, cuts>>
  /\ pc' = "done" <=> pc = "done"
  /\ pc' = "baseline" => pc = "baseline"

Closes ==
  /\ pc = "read" /\ lines = <<>> /\ pc' = "sweep" /\ file' = None /\ lines' = <<>>
  /\ UNCHANGED <<driver, content, size, offset, baseline, held, parser, boundFile, cuts, todo, resumes>>

Reads ==
  /\ pc = "read" /\ pc' = "read" /\ Read
  /\ UNCHANGED <<driver, content, size, baseline, parser, boundFile, cuts, todo, resumes, file>>

LEMMA ReadOrCloseIs ==
  ASSUME Read \/ Close
  PROVE  Closes \/ Reads
<1>1. CASE Close
  BY <1>1 DEF Close, Closed, Goto, agent, Closes
<1>2. CASE Read
  BY <1>2 DEF Read, BeforeIncrement, Closed, Goto, agent, Closes, Reads
<1> QED BY <1>1, <1>2

LEMMA StepsAre ==
  ASSUME Types, AwaitInv, [Next]_vars
  PROVE  \/ Elsewhere \/ Closes \/ Reads \/ FeedLine \/ Truncate
         \/ \E f \in Files : Baseline(f) \/ Stat(f) \/ Write(f)
<1>1. CASE Watch
  BY <1>1 DEF Watch, Goto, agent, reading, Elsewhere
<1>2. CASE Expire \/ Interrupted
  BY <1>2 DEF Expire, Interrupted, AtCheck, Asleep, BeforeIncrement, Goto, agent, reading, Elsewhere
<1>3. CASE Sweep
  BY <1>3 DEF Sweep, agent, reading, Elsewhere
<1>4. CASE OnBound
  BY <1>4 DEF OnBound, Goto, agent, reading, Elsewhere
<1>5. CASE OnProgress
  BY <1>5 DEF OnProgress, Goto, agent, reading, Elsewhere
<1>6. CASE Tick
  BY <1>6 DEF Tick, agent, watch, reading, Elsewhere
<1>7. CASE UNCHANGED vars
  BY <1>7 DEF vars, agent, watch, reading, Elsewhere
<1> QED BY <1>1, <1>2, <1>3, <1>4, <1>5, <1>6, <1>7, ReadOrCloseIs DEF Next, WatchStep

LEMMA FeedLineIsMine ==
  ASSUME Types, AwaitInv, BoundInv, FeedLine, parser'.bound
  PROVE  file = Mine
<1>1. parser.bound \/ Head(lines) = "prompt"
  BY FeedLineDoes
<1>2. CASE parser.bound
  BY <1>2 DEF BoundInv, AwaitInv, FeedLine
<1>3. CASE Head(lines) = "prompt"
  <2>1. Head(lines) = lines[1] /\ Len(lines) > 0
    BY FeedLineDoes
  <2>2. 1 \in 1 .. Len(lines)
    BY <2>1 DEF Types
  <2> QED BY <1>3, <2>1, <2>2 DEF BoundInv
<1> QED BY <1>1, <1>2, <1>3

(* Where FeedLine goes, by what the parser has then. *)
LEMMA FeedLineGoes ==
  ASSUME Types, AwaitInv, BoundInv, FeedLine
  PROVE  /\ boundFile' = IF parser'.bound THEN Mine ELSE None
         /\ pc' = IF ~parser'.bound THEN "read"
                  ELSE IF ~parser.bound THEN "bind"
                  ELSE IF IsTerminal(parser') THEN "done" ELSE "progress"
         /\ resumes' = IF parser.bound /\ IsTerminal(parser') THEN parser'.provider ELSE resumes
         /\ todo' = IF parser'.bound /\ ~parser.bound THEN todo \cap {file} ELSE todo
         /\ UNCHANGED <<driver, content, size, cuts, offset, held, file, cursor, upto, baseline>>
<1> DEFINE next == Feed(parser, Head(lines), file)
<1>1. next = FeedBy(driver, parser, Head(lines), file)
  BY DEF Feed, FeedBy
<1> HIDE DEF next
<1>2. next \in ParserState /\ next.bound = parser'.bound /\ next.result = parser'.result
  BY <1>1, FeedLineDoes, Parses DEF Types, ParserState, SameButProvider
<1>3. boundFile = IF parser.bound THEN Mine ELSE None
  BY DEF BoundInv
<1>4. pc = "read" /\ (parser.bound => parser'.bound)
  BY FeedLineDoes DEF FeedLine
<1>5. UNCHANGED <<driver, content, size, cuts, offset, held, file, cursor, upto, baseline>>
  BY DEF FeedLine, agent
<1>6. Mine # None
  BY FilesAreFiles
<1>7. CASE parser'.bound /\ ~parser.bound
  <2>1. boundFile' = file /\ pc' = "bind" /\ todo' = todo \cap {file} /\ resumes' = resumes
    BY <1>2, <1>3, <1>7 DEF FeedLine, next, Goto
  <2> QED BY <1>5, <1>7, <2>1, FeedLineIsMine
<1>8. CASE ~(parser'.bound /\ ~parser.bound)
  <2>1. /\ parser' = next /\ boundFile' = boundFile /\ todo' = todo
        /\ resumes' = IF IsTerminal(next) THEN next.provider ELSE resumes
        /\ ~next.bound => pc' = pc
        /\ next.bound /\ ~IsTerminal(next) => pc' = "progress"
        /\ next.bound /\ IsTerminal(next) => pc' = "done"
    BY <1>2, <1>3, <1>4, <1>6, <1>8 DEF FeedLine, next, Goto
  <2>2. ~next.bound => ~IsTerminal(next)
    BY <1>1 DEF FeedBy, ParseClaude, ParseCodex, IsTerminal
  <2> QED BY <1>3, <1>4, <1>5, <1>8, <2>1, <2>2
<1> QED BY <1>7, <1>8

-----------------------------------------------------------------------------
(* The awaits, the binding and the conversation *)
LEMMA AwaitKept ==
  ASSUME Types, AwaitInv, BoundInv, [Next]_vars
  PROVE  AwaitInv'
<1>0. None \notin Files
  BY FilesAreFiles
<1>1. ASSUME NEW f \in Files, Baseline(f) PROVE AwaitInv'
  BY <1>1 DEF Baseline, AwaitInv, reading
<1>2. ASSUME NEW f \in Files, Stat(f) PROVE AwaitInv'
  BY <1>0, <1>2 DEF Stat, AwaitInv, reading, Goto
<1>3. CASE Watch
  BY <1>3 DEF Watch, Goto, AwaitInv, reading
<1>4. CASE Expire \/ Interrupted
  BY <1>4 DEF Expire, Interrupted, Goto, AwaitInv, reading
<1>5. CASE Sweep
  BY <1>5 DEF Sweep, AwaitInv, reading
<1>6. CASE Read
  BY <1>6 DEF Read, BeforeIncrement, Closed, Goto, AwaitInv
<1>7. CASE FeedLine
  BY <1>0, <1>7, FeedLineGoes, FeedLineIsMine DEF AwaitInv, FeedLine
<1>8. CASE OnBound \/ OnProgress
  BY <1>0, <1>8, FilesAreFiles DEF OnBound, OnProgress, Goto, AwaitInv, reading
<1>9. CASE Close
  BY <1>9 DEF Close, Closed, Goto, AwaitInv
<1>10. ASSUME UNCHANGED <<pc, reading, boundFile>> PROVE AwaitInv'
  BY <1>10 DEF AwaitInv, reading
<1>11. CASE Tick \/ UNCHANGED vars \/ Truncate \/ \E f \in Files : Write(f)
  BY <1>10, <1>11 DEF Tick, Truncate, Write, vars, watch
<1> QED BY <1>1, <1>2, <1>3, <1>4, <1>5, <1>6, <1>7, <1>8, <1>9, <1>11 DEF Next, WatchStep

LEMMA BoundKept ==
  ASSUME Types, AwaitInv, BoundInv, [Next]_vars
  PROVE  BoundInv'
<1>0. Mine \in Files /\ None # Mine
  BY FilesAreFiles
<1>1. ASSUME UNCHANGED <<content, file, lines, parser, boundFile, todo>> PROVE BoundInv'
  BY <1>1 DEF BoundInv
<1>2. ASSUME NEW f \in Files, Baseline(f) PROVE BoundInv'
  BY <1>2 DEF Baseline, BoundInv, agent, reading
<1>3. ASSUME NEW f \in Files, Stat(f) PROVE BoundInv'
  <2>1. /\ f \in todo /\ todo' = todo \ {f} /\ UNCHANGED <<content, parser, boundFile>>
        /\ (file' = f /\ lines' = <<>>) \/ UNCHANGED <<file, lines>>
    BY <1>3 DEF Stat, agent, reading
  <2> QED BY <2>1 DEF BoundInv
<1>4. CASE Sweep
  <2>1. /\ todo' = IF boundFile # None THEN {boundFile} ELSE {f \in Files : size[f] > 0}
        /\ UNCHANGED <<content, file, lines, parser, boundFile>>
    BY <1>4 DEF Sweep, agent, reading
  <2> QED BY <1>0, <2>1 DEF BoundInv
<1>5. CASE Closes
  BY <1>5 DEF Closes, BoundInv
<1>6. CASE Reads
  <2>1. /\ file \in Files /\ cursor < cursor' /\ cursor' \in Nat /\ cursor' \div 2 <= Len(content[file])
        /\ lines' = WholeLines(file, cursor, cursor')
    BY <1>6, ReadReads DEF Reads
  <2>2. content[file] \in Seq(Lines) /\ cursor \in Nat
    BY <2>1 DEF Types
  <2> DEFINE start == Start(file, cursor)
  <2>3. /\ start \in Nat \ {0} /\ start <= cursor' \div 2 + 1
        /\ lines' \in Seq(Lines) /\ Len(lines') = cursor' \div 2 + 1 - start
        /\ \A i \in 1 .. Len(lines') : lines'[i] = content[file][start + i - 1]
    BY <2>1, <2>2, WholeLinesAre
  <2> HIDE DEF start
  <2>4. ASSUME file # Mine, NEW i \in 1 .. Len(lines') PROVE lines'[i] # "prompt"
    <3>1. start + i - 1 \in 1 .. Len(content[file])
      BY <2>1, <2>2, <2>3, <2>4
    <3> QED BY <2>1, <2>3, <2>4, <3>1 DEF BoundInv
  <2> QED BY <1>6, <2>4 DEF Reads, BoundInv
<1>7. CASE FeedLine
  <2>1. /\ Len(lines') = Len(lines) - 1 /\ \A i \in 1 .. Len(lines') : lines'[i] = lines[i + 1]
        /\ lines' \in Seq(Lines) /\ file \in Files
        /\ parser'.bound = (parser.bound \/ Head(lines) = "prompt")
    BY <1>7, FeedLineDoes
  <2>2. /\ boundFile' = IF parser'.bound THEN Mine ELSE None
        /\ todo' = IF parser'.bound /\ ~parser.bound THEN todo \cap {file} ELSE todo
        /\ UNCHANGED <<content, file>>
    BY <1>7, FeedLineGoes
  <2>3. parser'.bound => file = Mine
    BY <1>7, FeedLineIsMine
  <2>4. ASSUME file' # Mine, NEW i \in 1 .. Len(lines') PROVE lines'[i] # "prompt"
    <3>1. i + 1 \in 1 .. Len(lines) /\ lines'[i] = lines[i + 1]
      BY <2>1 DEF Types
    <3> QED BY <2>2, <2>4, <3>1 DEF BoundInv
  <2>5. ASSUME ~parser'.bound PROVE SameButProvider(parser', Unbound)
    <3>1. ~parser.bound /\ Head(lines) \in Lines \ {"prompt"}
      BY <1>7, <2>1, <2>5, FeedLineDoes
    <3>2. SameButProvider(FeedBy(driver, parser, Head(lines), file), Unbound)
      BY <2>1, <3>1, UnboundStays DEF BoundInv, Types
    <3>3. SameButProvider(parser', FeedBy(driver, parser, Head(lines), file))
      BY <1>7, FeedLineDoes
    <3> QED BY <3>2, <3>3 DEF SameButProvider
  <2>6. parser'.bound => todo' \subseteq {Mine} /\ file' \in {Mine, None}
    BY <2>2, <2>3 DEF BoundInv
  <2> QED BY <2>2, <2>4, <2>5, <2>6 DEF BoundInv
<1>8. ASSUME NEW f \in Files, Write(f) PROVE BoundInv'
  <2>1. UNCHANGED <<file, lines, parser, boundFile, todo>>
    BY <1>8 DEF Write, watch, reading
  <2>2. CASE content' = content
    BY <1>1, <2>1, <2>2
  <2>3. CASE content' # content
    <3>1. PICK line \in Lines : MayWrite(f, line) /\ content' = [content EXCEPT ![f] = Append(content[f], line)]
      BY <1>8, <2>3 DEF Write
    <3>2. f # Mine => line # "prompt"
      BY <3>1 DEF MayWrite
    <3>3. ASSUME NEW g \in Files \ {Mine}, NEW i \in 1 .. Len(content'[g]) PROVE content'[g][i] # "prompt"
      <4>1. content[g] \in Seq(Lines)
        BY DEF Types
      <4>2. CASE g = f
        <5>1. content'[g] = Append(content[g], line)
          BY <3>1, <4>2 DEF Types
        <5>2. i = Len(content[g]) + 1 \/ i \in 1 .. Len(content[g])
          BY <3>3, <4>1, <5>1
        <5> QED BY <3>2, <4>1, <4>2, <5>1, <5>2 DEF BoundInv
      <4>3. CASE g # f
        <5>1. content'[g] = content[g]
          BY <3>1, <4>3 DEF Types
        <5> QED BY <5>1 DEF BoundInv
      <4> QED BY <4>2, <4>3
    <3> QED BY <2>1, <3>3 DEF BoundInv
  <2> QED BY <2>2, <2>3
<1>9. CASE Truncate
  <2>1. UNCHANGED <<file, lines, parser, boundFile, todo>> /\ content' = [content EXCEPT ![Mine] = <<>>]
    BY <1>9 DEF Truncate, watch, reading
  <2>2. \A g \in Files \ {Mine} : content'[g] = content[g]
    BY <2>1 DEF Types
  <2> QED BY <2>1, <2>2 DEF BoundInv
<1>10. CASE Watch \/ Expire \/ Interrupted \/ OnBound \/ OnProgress \/ Tick \/ UNCHANGED vars
  BY <1>1, <1>10 DEF Watch, Expire, Interrupted, OnBound, OnProgress, Tick, vars, agent, watch, reading
<1> QED BY <1>2, <1>3, <1>4, <1>5, <1>6, <1>7, <1>8, <1>9, <1>10, ReadOrCloseIs
        DEF Next, WatchStep

LEMMA ResumeKept ==
  ASSUME Types, AwaitInv, BoundInv, ResumeInv, [Next]_vars
  PROVE  ResumeInv'
<1>1. CASE FeedLine
  <2>1. driver = "claude" => parser'.provider = file
    BY <1>1, FeedLineDoes
  <2>2. parser'.bound => file = Mine
    BY <1>1, FeedLineIsMine
  <2>3. /\ resumes' = IF parser.bound /\ IsTerminal(parser') THEN parser'.provider ELSE resumes
        /\ pc' = IF ~parser'.bound THEN "read"
                 ELSE IF ~parser.bound THEN "bind"
                 ELSE IF IsTerminal(parser') THEN "done" ELSE "progress"
        /\ driver' = driver /\ pc = "read"
    BY <1>1, FeedLineGoes DEF FeedLine
  <2> QED BY <2>1, <2>2, <2>3 DEF ResumeInv
<1>2. CASE OnBound
  BY <1>2 DEF OnBound, ResumeInv
<1>3. ASSUME UNCHANGED <<driver, parser, resumes>>, pc' # "bind" => pc # "bind" PROVE ResumeInv'
  BY <1>3 DEF ResumeInv
<1>4. ASSUME NEW f \in Files, Baseline(f) \/ Stat(f) \/ Write(f) PROVE ResumeInv'
  BY <1>3, <1>4 DEF Baseline, Stat, Write, Goto, watch
<1>5. CASE Watch \/ Expire \/ Interrupted \/ Sweep \/ Close
  BY <1>3, <1>5 DEF Watch, Expire, Interrupted, AtCheck, Asleep, BeforeIncrement, Sweep, Close
<1>6. CASE Read \/ OnProgress
  BY <1>3, <1>6 DEF Read, BeforeIncrement, OnProgress
<1>7. CASE Tick \/ Truncate \/ UNCHANGED vars
  BY <1>3, <1>7 DEF Tick, Truncate, vars, watch
<1> QED BY <1>1, <1>2, <1>4, <1>5, <1>6, <1>7 DEF Next, WatchStep

-----------------------------------------------------------------------------
(* The place in my file *)
LEMMA MineTypes ==
  ASSUME Types
  PROVE  /\ offset[Mine] \in Nat /\ offset[Mine] \div 2 \in Nat
         /\ content[Mine] \in Seq(Lines) /\ Len(content[Mine]) \in Nat
<1>1. offset[Mine] \in Nat /\ content[Mine] \in Seq(Lines)
  BY FilesAreFiles DEF Types
<1> QED BY <1>1, Halves

LEMMA Places ==
  ASSUME Types, PlaceInv, cuts = 0
  PROVE  /\ content[Mine] \in Seq(Lines) /\ Len(content[Mine]) \in Nat
         /\ offset[Mine] \in Nat /\ offset[Mine] <= size[Mine] /\ baseline[Mine] \in Nat
         /\ offset[Mine] \div 2 \in Nat /\ offset[Mine] \div 2 <= Len(content[Mine])
         /\ offset[Mine] % 2 = 1 => offset[Mine] \div 2 + 1 \in 1 .. Len(content[Mine])
         /\ First \in Nat /\ Last \in Nat /\ Last <= offset[Mine] \div 2
         /\ (file # Mine \/ lines = <<>>) => Last = offset[Mine] \div 2
<1>1. /\ content[Mine] \in Seq(Lines) /\ offset[Mine] \in Nat /\ size[Mine] \in Nat
      /\ offset[Mine] <= size[Mine] /\ baseline[Mine] \in Nat /\ lines \in Seq(Lines)
      /\ size[Mine] \in {2 * Len(content[Mine]), 2 * Len(content[Mine]) - 1}
  BY FilesAreFiles DEF Types, Uncut
<1>2. Len(content[Mine]) \in Nat /\ Len(lines) \in Nat /\ (lines = <<>> => Len(lines) = 0)
  BY <1>1, EmptySeq
<1>3. /\ offset[Mine] \div 2 \in Nat /\ offset[Mine] \div 2 <= Len(content[Mine])
      /\ offset[Mine] % 2 = 1 => offset[Mine] \div 2 + 1 \in 1 .. Len(content[Mine])
  BY <1>1, <1>2
<1>4. First \in Nat
  BY <1>1 DEF First
<1>5. file = Mine => Len(lines) <= offset[Mine] \div 2
  BY DEF PlaceInv
<1> DEFINE o == offset[Mine] \div 2
           l == Len(lines)
<1>6. /\ Last = o - (IF file = Mine THEN l ELSE 0) /\ o \in Nat /\ l \in Nat
      /\ file = Mine => l <= o
  BY <1>2, <1>3, <1>5 DEF Last
<1> HIDE DEF o, l
<1>7. Last \in Nat /\ Last <= o /\ (file # Mine \/ l = 0 => Last = o)
  BY <1>6
<1> QED BY <1>1, <1>2, <1>3, <1>4, <1>7 DEF o, l

(* What an increment of my file does to the place in it. *)
LEMMA ReadsOn ==
  ASSUME Types, AwaitInv, PlaceInv, Reads, file = Mine, cuts = 0
  PROVE  /\ PlaceInv' /\ First' = First /\ First <= Last' /\ Last' \in Nat
         /\ Last' = Last \/ (First = Last' /\ Last < First)
<1>1. /\ file \in Files /\ lines = <<>> /\ cursor < cursor' /\ cursor' \in Nat
      /\ cursor' <= size[Mine] /\ cursor' \div 2 <= Len(content[Mine])
      /\ cursor' % 2 = 1 => cursor' \div 2 + 1 \in 1 .. Len(content[Mine])
      /\ offset' = [offset EXCEPT ![Mine] = cursor'] /\ lines' = WholeLines(Mine, cursor, cursor')
      /\ held' = [held EXCEPT ![Mine] =
                    IF cursor' % 2 = 1 THEN content[Mine][cursor' \div 2 + 1] ELSE None]
  BY ReadReads DEF Reads
<1>2. UNCHANGED <<content, size, baseline, cuts, file>> /\ pc' = "read"
  BY DEF Reads
<1>3. /\ content[Mine] \in Seq(Lines) /\ cursor = offset[Mine] /\ offset[Mine] \in Nat
      /\ offset[Mine] % 2 = 1 => offset[Mine] \div 2 + 1 \in 1 .. Len(content[Mine])
      /\ baseline[Mine] \in Nat /\ Last = offset[Mine] \div 2
      /\ baseline[Mine] <= offset[Mine]
      /\ offset[Mine] = baseline[Mine] => held[Mine] = None
      /\ offset[Mine] > baseline[Mine] /\ offset[Mine] % 2 = 1 =>
           held[Mine] = content[Mine][offset[Mine] \div 2 + 1]
  BY <1>1, Places DEF PlaceInv
<1> DEFINE from  == offset[Mine]
           to    == cursor'
           start == Start(Mine, from)
<1>4. /\ start \in Nat \ {0} /\ start <= to \div 2 + 1
      /\ lines' = SubSeq(content[Mine], start, to \div 2)
      /\ lines' \in Seq(Lines) /\ Len(lines') = to \div 2 + 1 - start
  <2>1. /\ from \in Nat /\ to \in Nat /\ from < to /\ to \div 2 <= Len(content[Mine])
        /\ lines' = WholeLines(Mine, from, to) /\ Mine \in Files /\ content[Mine] \in Seq(Lines)
    BY <1>1, <1>3, FilesAreFiles
  <2> HIDE DEF from, to
  <2> QED BY <2>1, WholeLinesAre
<1>5. from % 2 = 1 /\ held[Mine] # content[Mine][from \div 2 + 1] <=> from % 2 = 1 /\ from = baseline[Mine]
  <2>1. from % 2 = 1 => content[Mine][from \div 2 + 1] \in Lines
    BY <1>3, ElementOfSeq
  <2>2. from % 2 = 1 => content[Mine][from \div 2 + 1] # None
    BY <2>1, NoneIsNoLine
  <2> QED BY <1>3, <2>2
<1>6. start = IF from % 2 = 1 /\ from = baseline[Mine] THEN from \div 2 + 2 ELSE from \div 2 + 1
  BY <1>5 DEF Start
<1>7. /\ offset'[Mine] = to /\ held'[Mine] = IF to % 2 = 1 THEN content[Mine][to \div 2 + 1] ELSE None
  BY <1>1, <1>3, FilesAreFiles DEF Types
<1>8. from \in Nat /\ baseline[Mine] \in Nat /\ baseline[Mine] <= from /\ from < to /\ to \in Nat
  BY <1>1, <1>3
<1> DEFINE b == baseline[Mine]
<1>9. Last = from \div 2 /\ First = (b + 1) \div 2 /\ First' = First
  BY <1>2, <1>3 DEF First
<1>10. Last' = to \div 2 - Len(lines')
  BY <1>2, <1>7 DEF Last
<1> HIDE DEF from, to, start, b
<1>11. Last' = start - 1
  BY <1>4, <1>8, <1>10
<1>12. First <= start - 1 /\ (start - 1 = Last \/ (First = start - 1 /\ Last < First))
  <2>0. b \in Nat /\ b <= from /\ start = IF from % 2 = 1 /\ from = b THEN from \div 2 + 2 ELSE from \div 2 + 1
    BY <1>6, <1>8 DEF b
  <2>1. CASE from % 2 = 1 /\ from = b
    BY <1>8, <1>9, <2>0, <2>1
  <2>2. CASE ~(from % 2 = 1 /\ from = b)
    BY <1>8, <1>9, <2>0, <2>2
  <2> QED BY <2>1, <2>2
<1>13. Last' \in Nat /\ First <= Last' /\ (Last' = Last \/ (First = Last' /\ Last < First))
  BY <1>4, <1>11, <1>12
<1>14. /\ lines' = SubSeq(content'[Mine], Last' + 1, offset'[Mine] \div 2)
       /\ Len(lines') <= offset'[Mine] \div 2 /\ cursor' = offset'[Mine]
  <2>1. Last' + 1 = start
    BY <1>4, <1>11
  <2>2. Len(lines') <= to \div 2
    BY <1>4, <1>8
  <2> QED BY <1>2, <1>4, <1>7, <2>1, <2>2 DEF to
<1>15. PlaceInv'
  <2>1. /\ baseline'[Mine] <= offset'[Mine] /\ offset'[Mine] # baseline'[Mine]
        /\ offset'[Mine] % 2 = 1 => held'[Mine] = content'[Mine][offset'[Mine] \div 2 + 1]
    BY <1>2, <1>7, <1>8
  <2> QED BY <1>2, <1>9, <1>13, <1>14, <2>1 DEF PlaceInv
<1> QED BY <1>9, <1>13, <1>15

(* What feeding a line of my file does to it. *)
LEMMA FeedsOn ==
  ASSUME Types, AwaitInv, BoundInv, PlaceInv, FeedLine, file = Mine, cuts = 0
  PROVE  /\ PlaceInv' /\ First' = First /\ First <= Last /\ Last \in Nat /\ Last' = Last + 1
         /\ Last + 1 \in 1 .. Len(content[Mine]) /\ Head(lines) = content[Mine][Last + 1]
<1>1. /\ lines' = Tail(lines) /\ Len(lines) > 0 /\ Len(lines') = Len(lines) - 1
      /\ lines \in Seq(Lines)
  BY FeedLineDoes DEF Types
<1>2. UNCHANGED <<content, size, baseline, offset, held, cursor, file, cuts>> /\ pc = "read"
  BY FeedLineGoes DEF FeedLine
<1>3. /\ content[Mine] \in Seq(Lines) /\ Len(content[Mine]) \in Nat
      /\ offset[Mine] \div 2 \in Nat /\ offset[Mine] \div 2 <= Len(content[Mine])
      /\ First \in Nat /\ Last \in Nat
  BY Places
<1>4. /\ cursor = offset[Mine] /\ Len(lines) <= offset[Mine] \div 2
      /\ First <= Last /\ lines = SubSeq(content[Mine], Last + 1, offset[Mine] \div 2)
  BY <1>1, EmptySeq DEF PlaceInv
<1> DEFINE n == offset[Mine] \div 2
           m == Last
<1>5. m = n - Len(lines) /\ Last' = n - Len(lines') /\ First' = First
  BY <1>2 DEF Last, First
<1>6. n \in Nat /\ n <= Len(content[Mine]) /\ m \in Nat /\ m + 1 <= n /\ Last' = m + 1
  <2>1. Len(lines) \in Nat /\ Len(lines) > 0 /\ Len(lines') = Len(lines) - 1
    BY <1>1
  <2>2. n \in Nat /\ n <= Len(content[Mine]) /\ m \in Nat
    BY <1>3
  <2> HIDE DEF n, m
  <2> QED BY <1>5, <2>1, <2>2
<1>7. m + 1 \in 1 .. Len(content[Mine]) /\ n \in m + 1 .. Len(content[Mine])
  BY <1>3, <1>6
<1>8. /\ Head(lines) = content[Mine][m + 1]
      /\ Tail(lines) = SubSeq(content[Mine], m + 1 + 1, n)
  <2> DEFINE k == m + 1
             c == content[Mine]
  <2>1. k \in 1 .. Len(c) /\ n \in k .. Len(c) /\ c \in Seq(Lines) /\ lines = SubSeq(c, k, n)
    BY <1>3, <1>4, <1>7
  <2> HIDE DEF k, c, n, m
  <2>2. Head(lines) = c[k] /\ Tail(lines) = SubSeq(c, k + 1, n)
    BY <2>1, CutTail
  <2> QED BY <2>2 DEF k, c
<1>9. PlaceInv'
  <2>1. lines' = SubSeq(content'[Mine], Last' + 1, offset'[Mine] \div 2)
    BY <1>1, <1>2, <1>6, <1>8
  <2>2. pc' # "baseline"
    BY FeedLineGoes
  <2>3. First' <= Last'
    BY <1>3, <1>4, <1>5, <1>6
  <2>4. Len(lines') <= offset'[Mine] \div 2
    <3>1. Len(lines) \in Nat
      BY <1>1
    <3> QED BY <1>1, <1>2, <1>3, <1>4, <3>1
  <2> QED BY <1>2, <1>4, <2>1, <2>2, <2>3, <2>4 DEF PlaceInv
<1> QED BY <1>4, <1>5, <1>6, <1>7, <1>8, <1>9

(* What a write leaves as it is: the lines up to where the watch is. *)
LEMMA WriteAdds ==
  ASSUME Types, PlaceInv, cuts = 0, NEW f \in Files, Write(f)
  PROVE  /\ offset[Mine] % 2 = 1 =>
              content'[Mine][offset[Mine] \div 2 + 1] = content[Mine][offset[Mine] \div 2 + 1]
         /\ SubSeq(content'[Mine], Last + 1, offset[Mine] \div 2)
              = SubSeq(content[Mine], Last + 1, offset[Mine] \div 2)
         /\ SubSeq(content'[Mine], First + 1, Last) = SubSeq(content[Mine], First + 1, Last)
         /\ \A i \in 1 .. Last : content'[Mine][i] = content[Mine][i]
         /\ Len(content[Mine]) <= Len(content'[Mine])
<1>1. /\ content[Mine] \in Seq(Lines) /\ Len(content[Mine]) \in Nat
      /\ offset[Mine] \div 2 \in Nat /\ offset[Mine] \div 2 <= Len(content[Mine])
      /\ offset[Mine] % 2 = 1 => offset[Mine] \div 2 + 1 \in 1 .. Len(content[Mine])
      /\ First \in Nat /\ Last \in Nat /\ Last <= offset[Mine] \div 2
  BY Places
<1>2. CASE content'[Mine] = content[Mine]
  BY <1>1, <1>2
<1>3. CASE content'[Mine] # content[Mine]
  <2>1. PICK line \in Lines : content'[Mine] = Append(content[Mine], line)
    BY <1>3, FilesAreFiles DEF Write, Types
  <2>2. \A i \in 1 .. Len(content[Mine]) : content'[Mine][i] = content[Mine][i]
    BY <1>1, <2>1
  <2>3. /\ Last + 1 \in Nat \ {0} /\ First + 1 \in Nat \ {0} /\ Last <= Len(content[Mine])
        /\ Len(content'[Mine]) = Len(content[Mine]) + 1
    BY <1>1, <2>1
  <2>4. /\ SubSeq(content'[Mine], Last + 1, offset[Mine] \div 2)
             = SubSeq(content[Mine], Last + 1, offset[Mine] \div 2)
        /\ SubSeq(content'[Mine], First + 1, Last) = SubSeq(content[Mine], First + 1, Last)
    BY <1>1, <2>1, <2>3, CutGrows
  <2>5. \A i \in 1 .. Last : content'[Mine][i] = content[Mine][i]
    BY <1>1, <2>2
  <2>6. offset[Mine] % 2 = 1 =>
          content'[Mine][offset[Mine] \div 2 + 1] = content[Mine][offset[Mine] \div 2 + 1]
    BY <1>1, <2>2
  <2>7. Len(content[Mine]) <= Len(content'[Mine])
    BY <1>1, <2>3
  <2> QED BY <2>4, <2>5, <2>6, <2>7
<1> QED BY <1>2, <1>3

LEMMA PlaceKept ==
  ASSUME Types, AwaitInv, BoundInv, PlaceInv, [Next]_vars
  PROVE  PlaceInv'
<1> SUFFICES ASSUME cuts' = 0 PROVE PlaceInv'
  BY DEF PlaceInv
<1>0. Mine \in Files /\ None # Mine
  BY FilesAreFiles
<1>1. CASE Elsewhere
  BY <1>1 DEF Elsewhere, PlaceInv, First, Last
<1>2. CASE Closes
  BY <1>0, <1>2 DEF Closes, PlaceInv
<1>3. CASE Reads
  <2>1. cuts = 0 /\ UNCHANGED <<content, baseline, file, pc>>
    BY <1>3 DEF Reads
  <2>2. CASE file = Mine
    BY <1>3, <2>1, <2>2, ReadsOn
  <2>3. CASE file # Mine
    <3>1. offset'[Mine] = offset[Mine] /\ held'[Mine] = held[Mine]
      <4>1. /\ offset' = [offset EXCEPT ![file] = cursor']
            /\ held' = [held EXCEPT ![file] =
                          IF cursor' % 2 = 1 THEN content[file][cursor' \div 2 + 1] ELSE None]
        BY <1>3, ReadReads DEF Reads
      <4> QED BY <1>0, <2>3, <4>1 DEF Types
    <3> QED BY <2>1, <2>3, <3>1 DEF PlaceInv
  <2> QED BY <2>2, <2>3
<1>4. CASE FeedLine
  <2>1. cuts = 0 /\ UNCHANGED <<content, baseline, file, offset, held>> /\ pc' # "baseline"
    BY <1>4, FeedLineGoes
  <2>2. CASE file = Mine
    BY <1>4, <2>1, <2>2, FeedsOn
  <2>3. CASE file # Mine
    BY <2>1, <2>3 DEF PlaceInv
  <2> QED BY <2>2, <2>3
<1>5. CASE Truncate
  BY <1>5 DEF Truncate, Types
<1>6. ASSUME NEW f \in Files, Baseline(f) PROVE PlaceInv'
  <2>1. /\ pc = "baseline" /\ UNCHANGED <<content, held, pc, file, cuts, size>>
        /\ offset' = [offset EXCEPT ![f] = size[f]] /\ baseline' = offset'
    BY <1>6 DEF Baseline, agent, reading
  <2>2. file = None /\ held[Mine] = None
    BY <2>1 DEF AwaitInv, PlaceInv
  <2>3. offset'[Mine] \in Nat
    BY <1>0, <2>1 DEF Types
  <2> QED BY <1>0, <2>1, <2>2, <2>3 DEF PlaceInv
<1>7. ASSUME NEW f \in Files, Stat(f) PROVE PlaceInv'
  <2>1. pc = "sweep" /\ file = None /\ UNCHANGED <<content, size, offset, baseline, cuts>>
    BY <1>7 DEF Stat, AwaitInv, agent
  <2>2. /\ offset[Mine] \in Nat /\ size[Mine] \in Nat /\ offset[Mine] <= size[Mine]
        /\ content[Mine] \in Seq(Lines) /\ Last = offset[Mine] \div 2
        /\ offset[Mine] \div 2 \in Nat /\ offset[Mine] \div 2 <= Len(content[Mine])
    BY <1>0, <2>1, Places DEF Types
  <2>3. held'[Mine] = held[Mine]
    BY <1>0, <1>7, <2>2 DEF Stat, Types
  <2>4. pc' # "baseline"
    BY <1>7, <2>1 DEF Stat, Goto
  <2>5. CASE file' = Mine
    <3>1. cursor' = offset[Mine] /\ lines' = <<>>
      <4>1. f = Mine /\ cursor' = (IF size[f] < offset[f] THEN 0 ELSE offset[f]) /\ lines' = <<>>
        BY <1>0, <1>7, <2>1, <2>5 DEF Stat, reading
      <4> QED BY <2>2, <4>1
    <3>2. Len(lines') = 0 /\ Last' = offset[Mine] \div 2
      BY <2>1, <2>2, <3>1 DEF Last
    <3>3. SubSeq(content[Mine], offset[Mine] \div 2 + 1, offset[Mine] \div 2) = <<>>
      BY <2>2, SubSeqEmpty
    <3> QED BY <2>1, <2>2, <2>3, <2>4, <3>1, <3>2, <3>3 DEF PlaceInv
  <2>6. CASE file' # Mine
    BY <2>1, <2>3, <2>4, <2>6 DEF PlaceInv
  <2> QED BY <2>5, <2>6
<1>8. ASSUME NEW f \in Files, Write(f) PROVE PlaceInv'
  <2>1. UNCHANGED <<offset, baseline, held, pc, file, cursor, lines, cuts>> /\ Last' = Last /\ First' = First
    BY <1>8 DEF Write, watch, reading, Last, First
  <2>2. /\ offset[Mine] % 2 = 1 => content'[Mine][offset[Mine] \div 2 + 1] = content[Mine][offset[Mine] \div 2 + 1]
        /\ SubSeq(content'[Mine], Last + 1, offset[Mine] \div 2)
             = SubSeq(content[Mine], Last + 1, offset[Mine] \div 2)
    BY <1>8, <2>1, WriteAdds
  <2> QED BY <2>1, <2>2 DEF PlaceInv
<1> QED BY <1>1, <1>2, <1>3, <1>4, <1>5, <1>6, <1>7, <1>8, StepsAre

-----------------------------------------------------------------------------
(* The replay *)
LEMMA ParsedIs ==
  /\ Parsed = SubSeq(content[Mine], First + 1, Last)
  /\ Parsed' = SubSeq(content'[Mine], First' + 1, Last')
BY DEF Parsed, First, Last

(* Two states of the parser that have parsed nothing of my file, or the same. *)
LEMMA NothingParsed ==
  ASSUME Types, PlaceInv, cuts = 0, Last <= First
  PROVE  SubSeq(content[Mine], First + 1, Last) = <<>>
BY Places, EmptyCut

LEMMA ReplayKept ==
  ASSUME Types, AwaitInv, BoundInv, PlaceInv, ReplayInv, [Next]_vars
  PROVE  ReplayInv'
<1> SUFFICES ASSUME cuts' = 0 PROVE SameButProvider(parser', ReplayBy(driver', Parsed'))
  BY DEF ReplayInv
<1>0. Mine \in Files /\ None # Mine /\ parser \in ParserState
  BY FilesAreFiles DEF Types
<1>1. ASSUME cuts = 0, UNCHANGED <<driver, parser>>, Parsed' = Parsed
      PROVE  SameButProvider(parser', ReplayBy(driver', Parsed'))
  BY <1>1 DEF ReplayInv
<1>2. CASE Elsewhere
  <2>1. Parsed' = Parsed
    BY <1>2 DEF Elsewhere, Parsed
  <2> QED BY <1>1, <1>2, <2>1 DEF Elsewhere
<1>3. CASE Closes
  <2>0. offset[Mine] \div 2 \in Nat
    BY MineTypes
  <2>1. cuts = 0 /\ UNCHANGED <<driver, parser, content, offset, baseline>>
    BY <1>3 DEF Closes
  <2>2. Last' = offset[Mine] \div 2 /\ First' = First
    BY <1>0, <1>3, <2>0 DEF Closes, Last, First
  <2>3. Last = offset[Mine] \div 2
    BY <1>3, <2>1, Places DEF Closes
  <2> QED BY <1>1, <2>1, <2>2, <2>3, ParsedIs
<1>4. CASE Reads
  <2>1. cuts = 0 /\ UNCHANGED <<driver, parser, content, baseline, file>> /\ First' = First
    BY <1>4 DEF Reads, First
  <2>2. CASE file = Mine
    <3>1. Last' = Last \/ (First = Last' /\ Last < First)
      BY <1>4, <2>1, <2>2, ReadsOn
    <3>2. CASE Last' = Last
      BY <1>1, <2>1, <3>2, ParsedIs
    <3>3. CASE First = Last' /\ Last < First
      <4>1. First \in Nat /\ Last \in Nat /\ content[Mine] \in Seq(Lines)
        BY <2>1, Places
      <4>2. Parsed = <<>>
        <5>1. Last <= First
          BY <3>3, <4>1
        <5>2. SubSeq(content[Mine], First + 1, Last) = <<>>
          BY <2>1, <5>1, NothingParsed
        <5> QED BY <5>2, ParsedIs
      <4>3. SubSeq(content[Mine], First + 1, First) = <<>>
        BY <4>1, EmptyCut
      <4> QED BY <1>1, <2>1, <3>3, <4>2, <4>3, ParsedIs
    <3> QED BY <3>1, <3>2, <3>3
  <2>3. CASE file # Mine
    <3>1. offset'[Mine] = offset[Mine]
      BY <1>0, <1>4, <2>3, ReadReads DEF Reads, Types
    <3>2. Last' = Last
      BY <2>1, <2>3, <3>1 DEF Last
    <3> QED BY <1>1, <2>1, <3>2, ParsedIs
  <2> QED BY <2>2, <2>3
<1>5. CASE FeedLine
  <2> DEFINE line == Head(lines)
             fed  == FeedBy(driver, parser, line, file)
  <2>1. /\ cuts = 0 /\ UNCHANGED <<driver, content, baseline, file, offset>> /\ First' = First
    BY <1>5, FeedLineGoes DEF First
  <2>2. /\ line \in Lines /\ file \in Files /\ parser' \in ParserState /\ SameButProvider(parser', fed)
        /\ fed \in ParserState
    BY <1>0, <1>5, FeedLineDoes, Parses
  <2>3. CASE file = Mine
    <3>1. /\ First <= Last /\ Last \in Nat /\ Last' = Last + 1 /\ First \in Nat
          /\ Last + 1 \in 1 .. Len(content[Mine]) /\ line = content[Mine][Last + 1]
          /\ content[Mine] \in Seq(Lines)
      BY <1>5, <2>1, <2>3, FeedsOn, Places
    <3>2. Parsed' = Append(Parsed, line) /\ Parsed \in Seq(Lines)
      <4>1. SubSeq(content[Mine], First + 1, Last + 1)
              = Append(SubSeq(content[Mine], First + 1, Last), content[Mine][Last + 1])
        <5> DEFINE c == content[Mine]
                   a == First
                   b == Last
        <5>1. c \in Seq(Lines) /\ a \in Nat /\ b \in Nat /\ a <= b /\ b + 1 <= Len(c)
          BY <3>1
        <5> HIDE DEF a, b, c
        <5>2. SubSeq(c, a + 1, b + 1) = Append(SubSeq(c, a + 1, b), c[b + 1])
          BY <5>1, CutMore
        <5> QED BY <5>2 DEF a, b, c
      <4>2. SubSeq(content[Mine], First + 1, Last) \in Seq(Lines)
        BY <3>1, Cuts
      <4> QED BY <2>1, <3>1, <4>1, <4>2, ParsedIs
    <3>3. ReplayBy(driver, Parsed') = FeedBy(driver, ReplayBy(driver, Parsed), line, Mine)
      BY <2>2, <3>2, ReplayOfOneMore
    <3>4. ReplayBy(driver, Parsed) \in ParserState
      BY <3>2, ReplayTypes
    <3>5. SameButProvider(parser, ReplayBy(driver, Parsed))
      BY <2>1 DEF ReplayInv
    <3>6. SameButProvider(fed, FeedBy(driver, ReplayBy(driver, Parsed), line, Mine))
      BY <1>0, <2>2, <3>4, <3>5, Parses
    <3> QED BY <2>1, <2>2, <3>3, <3>6 DEF SameButProvider
  <2>4. CASE file # Mine
    <3>1. Parsed' = Parsed
      <4>1. Last' = Last
        BY <2>1, <2>4 DEF Last
      <4> QED BY <2>1, <4>1, ParsedIs
    <3>2. ~parser'.bound
      BY <1>5, <2>4, FeedLineIsMine
    <3>3. ~parser.bound /\ SameButProvider(parser, Unbound)
      BY <1>5, <3>2, FeedLineDoes DEF BoundInv
    <3>4. SameButProvider(parser', Unbound)
      BY <1>5, <3>2, BoundKept DEF Next, WatchStep, BoundInv
    <3> QED BY <2>1, <3>1, <3>3, <3>4 DEF ReplayInv, SameButProvider
  <2> QED BY <2>3, <2>4
<1>6. CASE Truncate
  BY <1>6 DEF Truncate, Types
<1>7. ASSUME NEW f \in Files, Baseline(f)
      PROVE  SameButProvider(parser', ReplayBy(driver', Parsed'))
  <2>1. /\ pc = "baseline" /\ UNCHANGED <<content, driver, parser, file, lines, cuts, size>>
        /\ offset' = [offset EXCEPT ![f] = size[f]] /\ baseline' = offset'
    BY <1>7 DEF Baseline, agent, reading
  <2>2. file = None /\ ~parser.bound
    BY <1>0, <2>1 DEF AwaitInv, BoundInv
  <2>3. offset'[Mine] \in Nat /\ content[Mine] \in Seq(Lines)
    BY <1>0, <2>1 DEF Types
  <2>4. First' = (offset'[Mine] + 1) \div 2 /\ Last' = offset'[Mine] \div 2
    <3>1. offset'[Mine] \div 2 \in Nat
      BY <2>3
    <3> QED BY <1>0, <2>1, <2>2, <3>1 DEF First, Last
  <2>5. First' \in Nat /\ Last' \in Nat /\ Last' <= First'
    BY <2>3, <2>4
  <2>6. SubSeq(content[Mine], First' + 1, Last') = <<>>
    BY <2>5, EmptyCut
  <2>7. ReplayBy(driver, <<>>) = Unbound
    BY ReplayOfNothing
  <2> QED BY <2>1, <2>2, <2>6, <2>7, ParsedIs DEF BoundInv
<1>8. ASSUME NEW f \in Files, Stat(f)
      PROVE  SameButProvider(parser', ReplayBy(driver', Parsed'))
  <2>1. /\ pc = "sweep" /\ file = None /\ UNCHANGED <<content, driver, parser, size, offset, baseline, cuts>>
        /\ file' = Mine => lines' = <<>>
    BY <1>0, <1>8 DEF Stat, AwaitInv, agent, reading
  <2>2. Last = offset[Mine] \div 2 /\ offset[Mine] \div 2 \in Nat
    BY <1>0, <2>1, Places
  <2>3. Last' = Last /\ First' = First
    BY <2>1, <2>2, EmptySeq DEF Last, First
  <2> QED BY <1>1, <2>1, <2>3, ParsedIs
<1>9. ASSUME NEW f \in Files, Write(f)
      PROVE  SameButProvider(parser', ReplayBy(driver', Parsed'))
  <2>1. /\ UNCHANGED <<driver, offset, baseline, file, lines, cuts, parser>>
        /\ Last' = Last /\ First' = First
    BY <1>9 DEF Write, watch, reading, Last, First
  <2>2. Parsed' = Parsed
    BY <1>9, <2>1, WriteAdds, ParsedIs
  <2> QED BY <1>1, <2>1, <2>2
<1> QED BY <1>2, <1>3, <1>4, <1>5, <1>6, <1>7, <1>8, <1>9, StepsAre

-----------------------------------------------------------------------------
(* The verdict *)
LEMMA OneMore ==
  ASSUME NEW kinds, NEW first \in Nat, NEW last \in Nat, first <= last + 1
  PROVE  Has(kinds, first, last + 1) <=> Has(kinds, first, last) \/ content[Mine][last + 1] \in kinds
<1>1. first .. last + 1 = (first .. last) \cup {last + 1}
  OBVIOUS
<1> QED BY <1>1 DEF Has

(* What a line does to a bound parser. *)
LEMMA FedDoes ==
  ASSUME NEW s \in ParserState, s.bound, NEW line \in Lines, NEW c \in Files,
         driver \in {"claude", "codex"}
  PROVE  LET fed == FeedBy(driver, s, line, c)
         IN /\ IsTerminal(fed) <=> line \in Terminal
            /\ fed.result = "completed" <=>
                 IF driver = "claude" THEN line = "end"
                 ELSE line # "aborted" /\ line \in Terminal /\ (s.text \/ line = "end") /\ ~s.error
            /\ ~IsTerminal(fed) =>
                 /\ fed.text = (s.text \/ line \in {"talk", "end"})
                 /\ driver = "codex" => fed.error = (s.error \/ line = "error")
<1>1. CASE driver = "claude"
  BY <1>1 DEF FeedBy, ParseClaude, ParserState, IsTerminal, Terminal, Lines
<1>2. CASE driver = "codex"
  BY <1>2 DEF FeedBy, ParseCodex, ParserState, IsTerminal, Terminal, Lines
<1> QED BY <1>1, <1>2

(* A line that comes after the prompt ends the turn, as it says, or is one more. *)
LEMMA OneMoreSeen ==
  ASSUME Types, FeedLine, AwaitInv, file = Mine, parser.bound, content' = content, driver' = driver,
         NEW p \in Nat, NEW n \in Nat, p <= n, Last = n, Last' = n + 1,
         Head(lines) = content[Mine][n + 1], SeenSince(p)
  PROVE  IF IsTerminal(parser)' THEN EndedBy(p, n + 1)' ELSE SeenSince(p)'
<1> DEFINE line == content[Mine][n + 1]
           fed  == FeedBy(driver, parser, line, Mine)
<1>1. /\ line \in Lines /\ parser \in ParserState /\ driver \in {"claude", "codex"} /\ Mine \in Files
      /\ parser'.text = fed.text /\ parser'.error = fed.error /\ parser'.result = fed.result
  BY FeedLineDoes, FilesAreFiles DEF Types
<1>2. /\ IsTerminal(fed) <=> line \in Terminal
      /\ fed.result = "completed" <=>
           IF driver = "claude" THEN line = "end"
           ELSE line # "aborted" /\ line \in Terminal /\ (parser.text \/ line = "end") /\ ~parser.error
      /\ ~IsTerminal(fed) =>
           /\ fed.text = (parser.text \/ line \in {"talk", "end"})
           /\ driver = "codex" => fed.error = (parser.error \/ line = "error")
  BY <1>1, FedDoes
<1>3. IsTerminal(parser)' <=> IsTerminal(fed)
  BY <1>1 DEF IsTerminal
<1> HIDE DEF fed
<1>4. /\ content[Mine][p] = "prompt" /\ ~Has(Terminal, p + 1, n)
      /\ parser.text <=> Has({"talk", "end"}, p, n)
      /\ driver = "codex" => (parser.error <=> Has({"error"}, p, n))
  BY DEF SeenSince
<1>5. /\ Has(Terminal, p + 1, n + 1) <=> line \in Terminal
      /\ Has({"talk", "end"}, p, n + 1) <=> parser.text \/ line \in {"talk", "end"}
      /\ driver = "codex" => (Has({"error"}, p, n + 1) <=> parser.error \/ line \in {"error"})
  <2>1. p <= n + 1 /\ p + 1 <= n + 1 /\ p + 1 \in Nat
    OBVIOUS
  <2>2. Has(Terminal, p + 1, n + 1) <=> Has(Terminal, p + 1, n) \/ line \in Terminal
    BY <2>1, OneMore
  <2>3. Has({"talk", "end"}, p, n + 1) <=> Has({"talk", "end"}, p, n) \/ line \in {"talk", "end"}
    BY <2>1, OneMore
  <2>4. Has({"error"}, p, n + 1) <=> Has({"error"}, p, n) \/ line \in {"error"}
    BY <2>1, OneMore
  <2> QED BY <1>4, <2>2, <2>3, <2>4
<1>6. /\ Terminal' = Terminal
      /\ Has(Terminal, p + 1, n)' <=> Has(Terminal, p + 1, n)
      /\ Has(Terminal, p + 1, n + 1)' <=> Has(Terminal, p + 1, n + 1)
      /\ Has({"talk", "end"}, p, n + 1)' <=> Has({"talk", "end"}, p, n + 1)
      /\ Has({"error"}, p, n + 1)' <=> Has({"error"}, p, n + 1)
  BY DEF Has, Terminal
<1>7. CASE line \in Terminal
  <2>1. EndsTurn(p, n + 1)'
    <3>1. p < n + 1 /\ n + 1 - 1 = n
      OBVIOUS
    <3>2. Has(Terminal, p + 1, n + 1 - 1)' <=> Has(Terminal, p + 1, n)'
      BY <3>1
    <3> QED BY <1>4, <1>6, <1>7, <3>1, <3>2 DEF EndsTurn
  <2>2. driver = "codex" => line \notin {"talk", "error"}
    BY <1>7 DEF Terminal
  <2>3. parser'.result = "completed" <=>
          IF driver' = "claude" THEN content'[Mine][n + 1] = "end"
          ELSE /\ content'[Mine][n + 1] # "aborted" /\ ~Has({"error"}, p, n + 1)'
               /\ Has({"talk", "end"}, p, n + 1)'
    BY <1>1, <1>2, <1>5, <1>6, <1>7, <2>2
  <2>4. EndedBy(p, n + 1)'
    BY <2>1, <2>3 DEF EndedBy
  <2> QED BY <1>2, <1>3, <1>7, <2>4
<1>8. CASE line \notin Terminal
  <2>1. ~IsTerminal(fed) /\ ~Has(Terminal, p + 1, n + 1)'
    BY <1>2, <1>5, <1>6, <1>8
  <2>2. parser'.text <=> Has({"talk", "end"}, p, n + 1)'
    BY <1>1, <1>2, <1>5, <1>6, <2>1
  <2>3. driver = "codex" => (parser'.error <=> Has({"error"}, p, n + 1)')
    BY <1>1, <1>2, <1>5, <1>6, <2>1
  <2>4. SeenSince(p)'
    BY <1>4, <2>1, <2>2, <2>3 DEF SeenSince
  <2> QED BY <1>3, <2>1, <2>4
<1> QED BY <1>7, <1>8

(* What the verdict is about: the lines before Last. *)
LEMMA VerdictStays ==
  ASSUME Types, PlaceInv, VerdictInv, pc' = "done" <=> pc = "done",
         UNCHANGED <<driver, parser, cuts>>,
         cuts = 0 /\ parser.bound =>
           /\ Last' = Last /\ First' = First
           /\ \A i \in 1 .. Last : content'[Mine][i] = content[Mine][i]
  PROVE  VerdictInv'
<1>1. (pc = "done" <=> IsTerminal(parser))'
  BY DEF VerdictInv, IsTerminal
<1>2. ASSUME cuts = 0, parser.bound
      PROVE  (\E p \in First + 1 .. Last : IF IsTerminal(parser) THEN EndedBy(p, Last) ELSE SeenSince(p))'
  <2>1. First \in Nat /\ Last \in Nat
    BY <1>2, Places
  <2>2. PICK p \in First + 1 .. Last : IF IsTerminal(parser) THEN EndedBy(p, Last) ELSE SeenSince(p)
    BY <1>2 DEF VerdictInv
  <2>3. /\ Last' = Last /\ First' = First
        /\ \A i \in 1 .. Last : content'[Mine][i] = content[Mine][i]
    BY <1>2
  <2>5. p \in Nat \ {0} /\ p <= Last /\ p + 1 \in Nat \ {0} /\ Last - 1 \in Nat /\ Last - 1 <= Last
        /\ p \in 1 .. Last /\ Last \in 1 .. Last /\ p \in First' + 1 .. Last'
    BY <2>1, <2>2, <2>3
  <2>6. Terminal' = Terminal /\ IsTerminal(parser)' = IsTerminal(parser)
    BY DEF Terminal, IsTerminal
  <2>7. CASE IsTerminal(parser)
    <3>1. EndedBy(p, Last)
      BY <2>2, <2>7
    <3> DEFINE l == Last
    <3>2. /\ (\E i \in p + 1 .. l - 1 : content'[Mine][i] \in Terminal)
               <=> (\E i \in p + 1 .. l - 1 : content[Mine][i] \in Terminal)
          /\ (\E i \in p .. l : content'[Mine][i] \in {"error"})
               <=> (\E i \in p .. l : content[Mine][i] \in {"error"})
          /\ (\E i \in p .. l : content'[Mine][i] \in {"talk", "end"})
               <=> (\E i \in p .. l : content[Mine][i] \in {"talk", "end"})
      BY <2>1, <2>3, <2>5
    <3>3. content'[Mine][p] = content[Mine][p] /\ content'[Mine][l] = content[Mine][l]
      BY <2>3, <2>5
    <3>4. l = Last /\ l = Last'
      BY <2>3
    <3> HIDE DEF l
    <3>5. EndedBy(p, l)
      BY <3>1, <3>4
    <3>6. EndedBy(p, Last)'
      BY <2>6, <3>2, <3>3, <3>4, <3>5 DEF EndedBy, EndsTurn, Has
    <3> QED BY <2>5, <2>6, <2>7, <3>6
  <2>8. CASE ~IsTerminal(parser)
    <3>1. SeenSince(p)
      BY <2>2, <2>8
    <3> DEFINE l == Last
    <3>2. /\ (\E i \in p + 1 .. l : content'[Mine][i] \in Terminal)
               <=> (\E i \in p + 1 .. l : content[Mine][i] \in Terminal)
          /\ (\E i \in p .. l : content'[Mine][i] \in {"error"})
               <=> (\E i \in p .. l : content[Mine][i] \in {"error"})
          /\ (\E i \in p .. l : content'[Mine][i] \in {"talk", "end"})
               <=> (\E i \in p .. l : content[Mine][i] \in {"talk", "end"})
      BY <2>1, <2>3, <2>5
    <3>3. content'[Mine][p] = content[Mine][p] /\ l = Last /\ l = Last'
      BY <2>3, <2>5
    <3> HIDE DEF l
    <3>4. SeenSince(p)'
      BY <2>6, <3>1, <3>2, <3>3 DEF SeenSince, Has
    <3> QED BY <2>5, <2>6, <2>8, <3>4
  <2> QED BY <2>7, <2>8
<1> QED BY <1>1, <1>2 DEF VerdictInv

LEMMA VerdictKept ==
  ASSUME Types, AwaitInv, BoundInv, PlaceInv, VerdictInv, [Next]_vars
  PROVE  VerdictInv'
<1>0. Mine \in Files /\ None # Mine
  BY FilesAreFiles
<1>1. CASE Elsewhere
  <2>1. Last' = Last /\ First' = First
    BY <1>1 DEF Elsewhere, Last, First
  <2> QED BY <1>1, <2>1, VerdictStays DEF Elsewhere
<1>2. CASE Closes
  <2>1. UNCHANGED <<driver, parser, cuts, content, offset, baseline>> /\ (pc' = "done" <=> pc = "done")
    BY <1>2 DEF Closes
  <2>2. cuts = 0 => Last' = Last /\ First' = First
    <3>1. offset[Mine] \div 2 \in Nat
      BY MineTypes
    <3>2. Last' = offset[Mine] \div 2 /\ First' = First
      BY <1>0, <1>2, <3>1 DEF Closes, Last, First
    <3>3. cuts = 0 => Last = offset[Mine] \div 2
      BY <1>2, Places DEF Closes
    <3> QED BY <3>2, <3>3
  <2> QED BY <2>1, <2>2, VerdictStays
<1>3. CASE Reads
  <2>1. UNCHANGED <<driver, parser, cuts, content, baseline, file, pc>> /\ First' = First
    BY <1>3 DEF Reads, First
  <2>2. cuts = 0 /\ parser.bound => Last' = Last
    <3> SUFFICES ASSUME cuts = 0, parser.bound PROVE Last' = Last
      OBVIOUS
    <3>1. file = Mine
      BY <1>3 DEF Reads, AwaitInv, BoundInv
    <3>2. PICK p \in First + 1 .. Last : TRUE
      BY DEF VerdictInv
    <3>3. First \in Nat /\ Last \in Nat
      BY Places
    <3>4. ~(Last < First)
      BY <3>2, <3>3
    <3> QED BY <1>3, <3>1, <3>4, ReadsOn
  <2> QED BY <2>1, <2>2, VerdictStays
<1>4. CASE FeedLine
  <2>1. /\ UNCHANGED <<driver, content, size, cuts, offset, file, baseline>> /\ pc = "read"
        /\ pc' = IF ~parser'.bound THEN "read"
                 ELSE IF ~parser.bound THEN "bind"
                 ELSE IF IsTerminal(parser') THEN "done" ELSE "progress"
    BY <1>4, FeedLineGoes DEF FeedLine
  <2>2. ~IsTerminal(parser) /\ parser \in ParserState
    BY <2>1 DEF VerdictInv, Types
  <2> DEFINE line == Head(lines)
             fed  == FeedBy(driver, parser, line, file)
  <2>3. /\ line \in Lines /\ file \in Files /\ parser' \in ParserState
        /\ parser'.bound = (parser.bound \/ line = "prompt")
        /\ parser'.text = fed.text /\ parser'.error = fed.error /\ parser'.result = fed.result
    BY <1>4, FeedLineDoes
  <2>4. ~parser.bound => /\ ~IsTerminal(parser')
                         /\ parser'.bound => ~parser'.text /\ ~parser'.error
    <3> SUFFICES ASSUME ~parser.bound
                 PROVE  /\ ~IsTerminal(parser')
                        /\ parser'.bound => ~parser'.text /\ ~parser'.error
      OBVIOUS
    <3>1. ~parser.text /\ ~parser.error
      BY <2>2 DEF BoundInv, SameButProvider, Unbound, ParserState
    <3>2. ~IsTerminal(fed) /\ (line = "prompt" => ~fed.text /\ ~fed.error)
      BY <2>2, <3>1 DEF FeedBy, ParseClaude, ParseCodex, IsTerminal, ParserState
    <3> HIDE DEF fed, line
    <3> QED BY <2>3, <3>2 DEF IsTerminal
  <2> HIDE DEF fed
  <2>5. pc' = "done" <=> IsTerminal(parser')
    <3>1. parser.bound => parser'.bound
      BY <2>3
    <3> QED BY <2>1, <2>4, <3>1
  <2>6. ASSUME cuts' = 0, parser'.bound
        PROVE  (\E p \in First + 1 .. Last : IF IsTerminal(parser) THEN EndedBy(p, Last) ELSE SeenSince(p))'
    <3>1. file = Mine /\ cuts = 0
      BY <1>4, <2>1, <2>6, FeedLineIsMine
    <3>2. /\ First' = First /\ First <= Last /\ Last \in Nat /\ Last' = Last + 1 /\ First \in Nat
          /\ Last + 1 \in 1 .. Len(content[Mine]) /\ line = content[Mine][Last + 1]
      BY <1>4, <3>1, FeedsOn, Places
    <3>3. CASE parser.bound
      <4>1. PICK p \in First + 1 .. Last : SeenSince(p)
        BY <2>2, <3>1, <3>3 DEF VerdictInv
      <4>n. PICK n \in Nat : n = Last
        BY <3>2
      <4>2. n \in Nat /\ p \in Nat /\ p <= n /\ Last = n /\ Last' = n + 1 /\ p \in First' + 1 .. n + 1
        BY <3>2, <4>n, <4>1
      <4>3. Head(lines) = content[Mine][n + 1]
        BY <3>2, <4>n
      <4>4. IF IsTerminal(parser)' THEN EndedBy(p, n + 1)' ELSE SeenSince(p)'
        BY <1>4, <2>1, <3>1, <3>3, <4>1, <4>2, <4>3, OneMoreSeen
      <4>5. EndedBy(p, n + 1)' => EndedBy(p, Last)'
        BY <4>2 DEF EndedBy, EndsTurn
      <4> QED BY <4>2, <4>4, <4>5
    <3>4. CASE ~parser.bound
      <4>p. PICK p \in Nat : p = Last + 1
        BY <3>2
      <4>1. p \in Nat /\ p = Last' /\ content[Mine][p] = "prompt" /\ p \in First' + 1 .. Last'
        <5>1. p \in Nat /\ p = Last' /\ p \in First' + 1 .. Last'
          BY <3>2, <4>p
        <5>2. line = "prompt" /\ content[Mine][p] = line
          BY <2>3, <2>6, <3>2, <3>4, <4>p
        <5> QED BY <5>1, <5>2
      <4>2. ~IsTerminal(parser)' /\ ~parser'.text /\ ~parser'.error
        BY <2>4, <2>6, <3>4 DEF IsTerminal
      <4>3. /\ ~ \E i \in p + 1 .. Last' : content'[Mine][i] \in Terminal'
            /\ ~ \E i \in p .. Last' : content'[Mine][i] \in {"talk", "end"}
            /\ ~ \E i \in p .. Last' : content'[Mine][i] \in {"error"}
        <5>1. p + 1 .. p = {} /\ p .. p = {p}
          BY <4>1
        <5>2. Last' = p /\ content'[Mine][p] = "prompt"
          BY <2>1, <4>1
        <5> QED BY <5>1, <5>2
      <4>4. SeenSince(p)'
        BY <2>1, <4>1, <4>2, <4>3 DEF SeenSince, Has
      <4> QED BY <4>1, <4>2, <4>4
    <3> QED BY <3>3, <3>4
  <2> QED BY <2>5, <2>6 DEF VerdictInv, IsTerminal
<1>5. CASE Truncate
  <2>1. UNCHANGED <<parser, pc>> /\ cuts' = cuts + 1
    BY <1>5 DEF Truncate, watch
  <2>2. cuts' # 0
    BY <2>1 DEF Types
  <2> QED BY <2>1, <2>2 DEF VerdictInv, IsTerminal
<1>6. ASSUME NEW f \in Files, Baseline(f) PROVE VerdictInv'
  <2>1. pc = "baseline" /\ UNCHANGED <<driver, parser, cuts, pc>>
    BY <1>6 DEF Baseline, agent
  <2>2. ~parser.bound
    BY <1>0, <2>1 DEF AwaitInv, BoundInv
  <2> QED BY <2>1, <2>2, VerdictStays
<1>7. ASSUME NEW f \in Files, Stat(f) PROVE VerdictInv'
  <2>1. /\ pc = "sweep" /\ file = None /\ UNCHANGED <<content, driver, parser, offset, baseline, cuts>>
        /\ file' = Mine => lines' = <<>>
        /\ pc' = "done" <=> pc = "done"
    BY <1>0, <1>7 DEF Stat, AwaitInv, agent, reading, Goto
  <2>2. cuts = 0 => Last' = Last /\ First' = First
    <3> SUFFICES ASSUME cuts = 0 PROVE Last' = Last /\ First' = First
      OBVIOUS
    <3>1. Last = offset[Mine] \div 2 /\ offset[Mine] \div 2 \in Nat
      BY <1>0, <2>1, Places
    <3> QED BY <2>1, <3>1, EmptySeq DEF Last, First
  <2> QED BY <2>1, <2>2, VerdictStays
<1>8. ASSUME NEW f \in Files, Write(f) PROVE VerdictInv'
  <2>1. /\ UNCHANGED <<driver, offset, baseline, file, lines, cuts, parser, pc>>
        /\ Last' = Last /\ First' = First
    BY <1>8 DEF Write, watch, reading, Last, First
  <2>2. cuts = 0 => \A i \in 1 .. Last : content'[Mine][i] = content[Mine][i]
    BY <1>8, WriteAdds
  <2> QED BY <2>1, <2>2, VerdictStays
<1> QED BY <1>1, <1>2, <1>3, <1>4, <1>5, <1>6, <1>7, <1>8, StepsAre

-----------------------------------------------------------------------------
(* The theorems *)
LEMMA IInvHolds == Spec => []IInv
<1>1. IInv /\ [Next]_vars => IInv'
  BY TypesKept, AwaitKept, BoundKept, ResumeKept, PlaceKept, ReplayKept, VerdictKept DEF IInv
<1> QED BY InitInv, <1>1, PTL DEF Spec

LEMMA TypeOKHolds == IInv => TypeOK
BY FilesAreFiles DEF IInv, Types, BoundInv, TypeOK, ParserState, Uncut

(* However the vendor's file is cut into writes, the watch into polls and these  *)
(* into increments of any size, and whatever any number of other files hold: as  *)
(* long as the file is not begun anew, the parser is where a replay of the whole *)
(* lines from the baseline on would be (artifacts.js:55-163): `offsets` and      *)
(* `remainders` lose no line, feed none twice and none in halves.                *)
THEOREM WatchIsAReplay == Spec => []WatchAgreesWithReplay
<1>1. IInv => WatchAgreesWithReplay
  BY TypeOKHolds, ReplayIsBy DEF IInv, ReplayInv, WatchAgreesWithReplay
<1> QED BY IInvHolds, <1>1, PTL

(* A turn is ended by the first record after its prompt, in its own file, that   *)
(* ends one, and with the outcome that record and those before it call for; and  *)
(* Claude's session resumes the conversation that its prompt landed in           *)
(* (artifacts.js:154, artifact-parser.js:251-268, 310-321).                      *)
THEOREM VerdictsAreTheAgents == Spec => []VerdictIsTheAgents
<1>1. IInv => VerdictIsTheAgents
  <2> SUFFICES ASSUME IInv PROVE VerdictIsTheAgents
    OBVIOUS
  <2>1. driver = "claude" => ResumesItsConversation
    BY FilesAreFiles DEF IInv, BoundInv, ResumeInv, ResumesItsConversation
  <2>2. ASSUME pc = "done", cuts = 0
        PROVE  \E p, e \in 1 .. Len(content[Mine]) : EndedBy(p, e)
    <3>1. boundFile = Mine /\ IsTerminal(parser)
      BY <2>2 DEF IInv, AwaitInv, VerdictInv
    <3>2. parser.bound
      BY <3>1, FilesAreFiles DEF IInv, BoundInv
    <3>3. PICK p \in First + 1 .. Last : EndedBy(p, Last)
      BY <2>2, <3>1, <3>2 DEF IInv, VerdictInv
    <3>4. /\ First \in Nat /\ Last \in Nat /\ Last <= offset[Mine] \div 2
          /\ offset[Mine] \div 2 \in Nat /\ offset[Mine] \div 2 <= Len(content[Mine])
          /\ Len(content[Mine]) \in Nat
      BY <2>2, Places DEF IInv
    <3>5. p \in 1 .. Len(content[Mine]) /\ Last \in 1 .. Len(content[Mine])
      BY <3>3, <3>4
    <3> QED BY <3>3, <3>5
  <2> QED BY <2>1, <2>2 DEF VerdictIsTheAgents, EndedBy
<1> QED BY IInvHolds, <1>1, PTL

=============================================================================
