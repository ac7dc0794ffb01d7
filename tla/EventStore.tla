------------------------------ MODULE EventStore ------------------------------
(***************************************************************************)
(* EventStore: the daemon's numbered event log.  An event is published     *)
(* into a ring in memory, where readers find it at once; its line is       *)
(* appended to events.jsonl later, by a chain of writes that run one at a  *)
(* time, and the file is replaced by the durable part of the ring when it  *)
(* grows.  An event is its sequence number.  Every line counts as one      *)
(* byte, so that both limits of the ring and of the file are numbers of    *)
(* lines.                                                                  *)
(***************************************************************************)
EXTENDS Naturals, Sequences, FiniteSets, Functions

CONSTANTS
  MaxEvents,         \* maxEvents: the ring's length, half the file's
  MaxBytes,          \* maxBytes: likewise, in lines
  MaxPendingWrites,  \* maxPendingWrites: writes queued before they are shed
  MaxLimit,          \* the largest page a reader asks for
  MaxPublished,      \* bound: the sequence number callers stop at
  MaxFailures,       \* bound: appends and replacements that fail
  MaxTears,          \* bound: appends that fail half-way through a line
  MaxCrashes         \* bound: times the daemon is killed and started again

ASSUME LimitsArePositive ==
  {MaxEvents, MaxBytes, MaxPendingWrites, MaxLimit, MaxPublished} \subseteq Nat \ {0}
ASSUME FaultsAreNatural == {MaxFailures, MaxTears, MaxCrashes} \subseteq Nat

VARIABLES
  sequence,         \* the last number given to an event
  records,          \* the ring: what readers find
  file,             \* the lines of events.jsonl; 0 is one that does not parse
  torn,             \* whether the last line lacks its newline
  durableSequence,  \* the event of the last append that succeeded
  fileBytes,        \* what the store believes about the file's length
  fileEvents,
  queue,            \* events whose write has not ended; the head's has begun
  text,             \* what compact is about to put in the file, or NoText
  droppedWrites,    \* events shed since the last report
  cursor,           \* the last event a client has been given
  waiting,          \* whether its request waits for an event
  page,             \* the events of its last answer
  served,           \* the highest number any answer held
  acknowledged,     \* events whose append has succeeded
  failures, tears, crashes

ring == <<sequence, records>>
disk == <<file, torn>>
writes == <<durableSequence, fileBytes, fileEvents, text, acknowledged>>
client == <<cursor, waiting, page, served>>
faults == <<failures, tears, crashes>>
vars == <<ring, disk, writes, queue, droppedWrites, client, faults>>

NoText == <<0>>

Window == IF MaxEvents < MaxBytes THEN MaxEvents ELSE MaxBytes
LastN(s, n) == IF Len(s) > n THEN SubSeq(s, Len(s) - n + 1, Len(s)) ELSE s
Larger(m, n) == IF m < n THEN n ELSE m

Increasing(s) == \A i, j \in DOMAIN s : i < j => s[i] < s[j]

(* The events of a ring up to number n, and those behind it: the ring is in the *)
(* order of its numbers, so a filter by number cuts it in two.                  *)
Reached(s, n) == Cardinality({i \in DOMAIN s : s[i] <= n})
UpTo(s, n) == SubSeq(s, 1, Reached(s, n))
After(s, n) == SubSeq(s, Reached(s, n) + 1, Len(s))

(* Numbers in their order. *)
Sorted(S) == CHOOSE s \in [1..Cardinality(S) -> S] : Range(s) = S /\ Increasing(s)

Init ==
  /\ sequence = 0 /\ records = <<>>
  /\ file = <<>> /\ torn = FALSE
  /\ durableSequence = 0 /\ fileBytes = 0 /\ fileEvents = 0
  /\ queue = <<>> /\ text = NoText
  /\ droppedWrites = 0
  /\ cursor = 0 /\ waiting = FALSE /\ page = <<>> /\ served = 0
  /\ acknowledged = {}
  /\ failures = 0 /\ tears = 0 /\ crashes = 0

-----------------------------------------------------------------------------
(* read: the oldest events behind the cursor, unless some of them are gone. *)
Earliest(s, last) == IF s = <<>> THEN last + 1 ELSE Head(s)

(* Mutant: the cursor may lie one event further behind the ring. *)
ExpiredLate(c, s, last) == c > last \/ (c > 0 /\ c + 2 < Earliest(s, last))

Expired(c, s, last) == c > last \/ (c > 0 /\ c + 1 < Earliest(s, last))
Behind(c, s, limit) ==
  LET found == After(s, c)
  IN  SubSeq(found, 1, IF Len(found) < limit THEN Len(found) ELSE limit)

(* What the client has after an answer.  A client whose cursor has expired *)
(* goes on at the earliest event it is told of.                            *)
Answer(s, last, limit) ==
  LET expired == Expired(cursor, s, last)
      events == IF expired THEN <<>> ELSE Behind(cursor, s, limit)
  IN  /\ page' = events
      /\ cursor' = IF expired THEN Earliest(s, last) - 1
                   ELSE IF events = <<>> THEN cursor ELSE events[Len(events)]
      /\ served' = IF events = <<>> THEN served ELSE Larger(served, events[Len(events)])
      /\ waiting' = FALSE

(* wait: an empty page is held back until an event or a timer comes.  The   *)
(* request's listener is in place before anything else can run.             *)
Wait(limit) ==
  /\ ~waiting
  /\ IF ~Expired(cursor, records, sequence) /\ Behind(cursor, records, limit) = <<>>
     THEN waiting' = TRUE /\ page' = <<>> /\ UNCHANGED <<cursor, served>>
     ELSE Answer(records, sequence, limit)
  /\ UNCHANGED <<ring, disk, writes, queue, droppedWrites, faults>>

WaitTimesOut ==
  /\ waiting
  /\ Answer(records, sequence, MaxLimit)
  /\ UNCHANGED <<ring, disk, writes, queue, droppedWrites, faults>>

(* emitEvent: a waiting request is answered while the event is published. *)
EmitEvent == IF waiting THEN Answer(records', sequence', MaxLimit) ELSE UNCHANGED client

-----------------------------------------------------------------------------
(* append and publish: number the event, show it, queue its write. *)

Number ==
  /\ sequence' = sequence + 1
  /\ records' = LastN(Append(records, sequence + 1), Window)

(* Mutant: nobody is told of an event whose write is shed. *)
ShedSilently ==
  /\ droppedWrites' = droppedWrites + 1
  /\ UNCHANGED <<queue, client>>

(* The disk is stuck: the write is dropped and counted. *)
Shed ==
  /\ droppedWrites' = droppedWrites + 1
  /\ EmitEvent
  /\ UNCHANGED queue

Publish ==
  /\ sequence < MaxPublished
  /\ Number
  /\ IF Len(queue) >= MaxPendingWrites THEN Shed
     ELSE /\ queue' = Append(queue, sequence + 1)
          /\ EmitEvent
          /\ UNCHANGED droppedWrites
  /\ UNCHANGED <<disk, writes, faults>>

-----------------------------------------------------------------------------
(* The write of the event at the head of the queue. *)

(* Mutant: a failed write ends without a report. *)
FinishQuietly ==
  /\ queue' = Tail(queue)
  /\ UNCHANGED <<ring, client, droppedWrites>>

(* The finally block; reportDroppedWrites publishes one more event, whose *)
(* write is queued behind the one that ends.                              *)
Finish ==
  IF Len(queue) = 1 /\ droppedWrites > 0
  THEN /\ Number
       /\ queue' = <<sequence + 1>>
       /\ droppedWrites' = 0
       /\ EmitEvent
  ELSE /\ queue' = Tail(queue)
       /\ UNCHANGED <<ring, client, droppedWrites>>

(* Mutant: compact takes what has been numbered, written or not. *)
AllRecords(last) == records

(* compact: what the ring holds and the file has had. *)
DurableRecords(last) == UpTo(records, last)

(* Mutant: the append counts as durable once its compaction is over. *)
AppendWithoutMark ==
  /\ queue # <<>> /\ text = NoText
  /\ IF torn THEN UNCHANGED file ELSE file' = Append(file, Head(queue))
  /\ torn' = FALSE
  /\ acknowledged' = acknowledged \cup {Head(queue)}
  /\ fileBytes' = fileBytes + 1
  /\ fileEvents' = fileEvents + 1
  /\ IF fileBytes + 1 > MaxBytes * 2 \/ fileEvents + 1 > MaxEvents * 2
     THEN /\ text' = DurableRecords(durableSequence)
          /\ UNCHANGED <<durableSequence, queue, ring, client, droppedWrites>>
     ELSE durableSequence' = Head(queue) /\ Finish /\ UNCHANGED text
  /\ UNCHANGED faults

(* The line is in the file; after a torn line it is glued to what is there. *)
AppendLine ==
  /\ queue # <<>> /\ text = NoText
  /\ IF torn THEN UNCHANGED file ELSE file' = Append(file, Head(queue))
  /\ torn' = FALSE
  /\ durableSequence' = Head(queue)
  /\ acknowledged' = acknowledged \cup {Head(queue)}
  /\ fileBytes' = fileBytes + 1
  /\ fileEvents' = fileEvents + 1
  /\ IF fileBytes + 1 > MaxBytes * 2 \/ fileEvents + 1 > MaxEvents * 2
     THEN text' = DurableRecords(Head(queue)) /\ UNCHANGED <<queue, ring, client, droppedWrites>>
     ELSE Finish /\ UNCHANGED text
  /\ UNCHANGED faults

AppendFails ==
  /\ queue # <<>> /\ text = NoText
  /\ failures < MaxFailures
  /\ failures' = failures + 1
  /\ Finish
  /\ UNCHANGED <<disk, writes, tears, crashes>>

(* The disk fills up in the middle of the line. *)
AppendTears ==
  /\ queue # <<>> /\ text = NoText
  /\ tears < MaxTears
  /\ tears' = tears + 1
  /\ file' = IF torn THEN file ELSE Append(file, 0)
  /\ torn' = TRUE
  /\ Finish
  /\ UNCHANGED <<writes, failures, crashes>>

(* compact's rename puts the new file in place of the old one. *)
Replace ==
  /\ text # NoText
  /\ file' = text /\ torn' = FALSE
  /\ fileBytes' = Len(text) /\ fileEvents' = Len(text)
  /\ text' = NoText
  /\ Finish
  /\ UNCHANGED <<durableSequence, acknowledged, faults>>

ReplaceFails ==
  /\ text # NoText
  /\ failures < MaxFailures
  /\ failures' = failures + 1
  /\ text' = NoText
  /\ Finish
  /\ UNCHANGED <<disk, durableSequence, fileBytes, fileEvents, acknowledged, tears, crashes>>

-----------------------------------------------------------------------------
(* readTail: of a file longer than MaxBytes only the end is read, and of that  *)
(* everything through the first newline is dropped.  That newline ends the line *)
(* the cut lies in, or, when the cut lies between two lines, the first whole    *)
(* line behind it: the length of the lines decides.                             *)
ReadTail(kept) == IF Len(file) > MaxBytes THEN LastN(file, kept) ELSE file

(* The daemon is killed and started again: init reads the end of the file, *)
(* and replaces a file that is longer than what it reads.  No number is in  *)
(* the file twice (FileIsOrdered), so the lines are sorted as a set.        *)
RestartFrom(tail) ==
  LET loaded == Sorted(Range(tail) \ {0})
      truncated == Len(file) > MaxBytes
  IN  /\ crashes < MaxCrashes
      /\ crashes' = crashes + 1
      /\ sequence' = IF loaded = <<>> THEN 0 ELSE loaded[Len(loaded)]
      /\ records' = LastN(loaded, Window)
      /\ durableSequence' = sequence'
      /\ file' = IF truncated THEN records' ELSE file
      /\ torn' = (torn /\ ~truncated)
      /\ fileBytes' = Len(file')
      /\ fileEvents' = Len(records')
      /\ queue' = <<>> /\ text' = NoText /\ droppedWrites' = 0
      /\ acknowledged' = Range(records')
      /\ waiting' = FALSE
      /\ page' = <<>>
      /\ UNCHANGED <<cursor, served, failures, tears>>

Restart == \E kept \in {MaxBytes - 1, MaxBytes} : RestartFrom(ReadTail(kept))

Write == AppendLine \/ AppendFails \/ AppendTears \/ Replace \/ ReplaceFails

Next ==
  \/ Publish \/ Write \/ WaitTimesOut \/ Restart
  \/ \E limit \in 1..MaxLimit : Wait(limit)

Spec == Init /\ [][Next]_vars

(* A write that has begun ends, one way or the other. *)
FairSpec == Spec /\ WF_vars(Write)

-----------------------------------------------------------------------------
TypeOK ==
  /\ {sequence, durableSequence, fileBytes, fileEvents, droppedWrites, cursor, served} \subseteq Nat
  /\ records \in Seq(Nat \ {0}) /\ queue \in Seq(Nat \ {0})
  /\ file \in Seq(Nat) /\ text \in Seq(Nat)
  /\ {torn, waiting} \subseteq BOOLEAN
  /\ page \in Seq(Nat \ {0})
  /\ acknowledged \subseteq Nat \ {0}
  /\ failures \in 0..MaxFailures /\ tears \in 0..MaxTears /\ crashes \in 0..MaxCrashes

(* The lines of events.jsonl that parse stay in the order of their numbers, and *)
(* no event is there twice: across compactions that fail or succeed, shed and   *)
(* failed writes, and restarts.                                                 *)
FileIsOrdered ==
  \A i, j \in DOMAIN file : i < j /\ file[i] > 0 /\ file[j] > 0 => file[i] < file[j]

(* An event that readers could find and whose append had succeeded is found     *)
(* again after a kill, however compactions and later writes interleaved: not     *)
(* true of the code, which loses lines glued to a torn one and a line at the cut. *)
AcknowledgedSurvive ==
  [][crashes' # crashes => Range(records) \cap acknowledged \subseteq Range(records')]_vars

(* The ring holds as many bytes as init reads of a file that holds more: the cut *)
(* may lie right before the ring's first line, which readTail then drops whole.  *)
AtTheCut == Len(file) > MaxBytes /\ Len(records) >= MaxBytes

(* As long as no append has failed half-way through a line, an event that readers *)
(* could find and whose append had succeeded is found again after a kill, however *)
(* compactions and later writes interleaved, but for the first one at the cut.    *)
Recovered ==
  Range(IF AtTheCut THEN Tail(records) ELSE records) \cap acknowledged \subseteq Range(records')
WholeLinesSurvive == [][crashes' # crashes /\ tears = 0 => Recovered]_vars

(* A reader that is told of no expiry has missed nothing behind its cursor, but *)
(* for events that never reached the file of an earlier run of the daemon.      *)
Missed(c, p) == IF p = <<>> THEN {} ELSE (c + 1)..p[Len(p)] \ Range(p)
NothingIsSkipped ==
  [][cursor > 0 /\ page' # page /\ crashes' = crashes =>
       /\ Missed(cursor, page') \cap acknowledged = {}
       /\ crashes = 0 => Missed(cursor, page') = {}]_vars

(* A request that waits is answered as soon as there is anything to read. *)
NobodyWaitsForNews == waiting => cursor = sequence

(* What was shed is reported once the disk takes writes again. *)
ShedWritesAreReported == droppedWrites > 0 ~> droppedWrites = 0

(* An event's number is one that no reader has been given before. *)
NumbersAreFresh == [][sequence' > sequence => sequence' > served]_vars
===============================================================================
