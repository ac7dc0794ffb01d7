------------------------ MODULE WorkspaceTurnsProofs ------------------------
(***************************************************************************)
(* Proofs about WorkspaceTurns, for any number of turns, sessions, outputs, *)
(* acknowledgements, losses of the daemon and appends that fail or tear.    *)
(***************************************************************************)
EXTENDS WorkspaceTurns, TLAPS

Job == Turn \cup Client \cup {Prune}
Ends == {"completed", "failed"}
Listed == [Output -> Status]
Copy == [turn : Turn, chosen : SUBSET Output, outs : Listed]

Types ==
  /\ owner \in [Turn -> Session]
  /\ record \in [Turn -> Ends \cup {"none", "accepted"}] /\ recordOuts \in [Turn -> Listed]
  /\ history \subseteq (1..lines) \X Turn /\ lines \in Nat
  /\ historyStatus \in [Turn -> Ends \cup {"none"}] /\ historyOuts \in [Turn -> Listed]
  /\ ledger \subseteq {"pending", "delivered"} \X Turn \X Output
  /\ ledgerEnd \in {"whole", "torn", "malformed"}
  /\ dirs \subseteq Root \X Turn
  /\ files \in [Turn -> SUBSET Output] /\ active \subseteq Turn /\ expired \subseteq Turn
  /\ serving \in BOOLEAN
  /\ phase \in [Turn -> InLock \cup {"new", "running", "ending", "recording", "recovering", "done"}]
  /\ verdict \in [Turn -> Ends] /\ outs \in [Turn -> Listed] /\ unlogged \subseteq Output
  /\ lock \in Seq(Job)
  /\ ack \in [Client -> {"idle", "logging", "persisting"}] /\ mine \in [Client -> Copy]
  /\ pruning \in {"idle", "reading", "history", "active", "ledger", "dirs"}
  /\ retained \subseteq Turn
  /\ crashes \in Nat /\ faults \in Nat /\ tears \in Nat

(* The queue of the lock holds who is inside, each once, and who has done more *)
(* than ask for the lock is its head.                                          *)
Inside(j) ==
  \/ j \in Turn /\ phase[j] \in InLock
  \/ j \in Client /\ ack[j] = "logging"
  \/ j = Prune /\ pruning # "idle"
Entered(t) == phase[t] \in InLock \ {"copying", "looking"}

LockInv ==
  /\ IsInjective(lock)
  /\ \A j \in Job : j \in ToSet(lock) <=> Inside(j)
  /\ \A t \in Turn : Entered(t) => Holds(t)
  /\ pruning \notin {"idle", "reading"} => Holds(Prune)

(* What the record of a turn says of its call, and what its history says. *)
RecordInv ==
  \A t \in Turn :
    /\ record[t] = "none" <=> phase[t] = "new"
    /\ record[t] = "accepted" <=> phase[t] \notin {"new", "done"}
    /\ InHistory(t) => historyStatus[t] \in Ends
    /\ phase[t] = "reusing" => InHistory(t)

(* A turn whose call is before the append has no line in the history: a lost one *)
(* looks there again.                                                            *)
Unwritten == {"new", "copying", "moving", "archiving", "opening", "activating", "running",
              "ending", "collecting", "logging", "appending"}

HistoryInv ==
  /\ \A t \in Turn : phase[t] \in Unwritten => ~InHistory(t)
  /\ OneRecordPerTurn

(* What stageInputs has made, and what keeps it while the turn runs. *)
SpareInv ==
  /\ \A t \in Turn :
       t \notin expired =>
         /\ phase[t] \in {"archiving", "opening", "activating", "running"} => <<"inbox", t>> \in dirs
         /\ phase[t] \in {"opening", "activating", "running"} => <<"inboxArchive", t>> \in dirs
         /\ phase[t] \in {"activating", "running"} => <<"outbox", t>> \in dirs
         /\ phase[t] = "running" => t \in active
  /\ pruning \in {"ledger", "dirs"} => active \subseteq retained

(* What is listed as pending and not reported is kept: its line is in the ledger, *)
(* and a prune that has read the ledger retains its turn.                         *)
Kept(t, o) == <<"pending", t, o>> \in ledger /\ <<"outboxArchive", t>> \in dirs /\ o \in files[t]

Claims(t, o) ==
  /\ outs[t][o] # "none" =>
       phase[t] \in {"logging", "appending", "retiring", "clearing", "recording"}
  /\ recordOuts[t][o] # "none" => Ended(t)
  /\ \A c \in Client : mine[c].turn = t /\ mine[c].outs[o] # "none" => Ended(t)
  /\ <<t, o>> \notin reported =>
       /\ outs[t][o] = "pending" =>
            Kept(t, o) /\ (phase[t] \in {"retiring", "clearing", "recording"} => InHistory(t))
       /\ InHistory(t) /\ historyOuts[t][o] = "pending" => Kept(t, o)
       /\ recordOuts[t][o] = "pending" => Kept(t, o) /\ InHistory(t)
       /\ \A c \in Client : mine[c].turn = t /\ mine[c].outs[o] = "pending" =>
            Kept(t, o) /\ InHistory(t)
       /\ pruning \notin {"idle", "reading"} /\ <<"pending", t, o>> \in ledger => t \in retained

KeptInv ==
  /\ \A c \in Client : \A o \in mine[c].chosen : <<mine[c].turn, o>> \in reported
  /\ \A t \in Turn, o \in Output : <<"delivered", t, o>> \in ledger => <<t, o>> \in reported
  /\ \A t \in Turn : phase[t] = "logging" =>
       <<"outboxArchive", t>> \in dirs /\ unlogged \subseteq files[t]
  /\ \A t \in Turn, o \in Output : Claims(t, o)

(* What a record or a copy of it lists as delivered is not pending in the ledger. *)
LetGo(t, o) == Ended(t) /\ <<"pending", t, o>> \notin Pending

DeliveredInv ==
  \A t \in Turn, o \in Output :
    /\ outs[t][o] # "delivered" /\ historyOuts[t][o] # "delivered"
    /\ recordOuts[t][o] = "delivered" => LetGo(t, o)
    /\ \A c \in Client : mine[c].turn = t /\ mine[c].outs[o] = "delivered" => LetGo(t, o)

WholeInv == tears = 0 => ledgerEnd = "whole" /\ KeptInv /\ DeliveredInv

IInv == Types /\ LockInv /\ RecordInv /\ HistoryInv /\ SpareInv /\ WholeInv

-----------------------------------------------------------------------------
(* The queue of the lock. *)
LEMMA Enqueued ==
  ASSUME NEW J, NEW q \in Seq(J), IsInjective(q), NEW j \in J, j \notin ToSet(q)
  PROVE  /\ Append(q, j) \in Seq(J) /\ IsInjective(Append(q, j))
         /\ \A i : i \in ToSet(Append(q, j)) <=> i \in ToSet(q) \/ i = j
         /\ Append(q, j) # <<>> /\ (q # <<>> => Head(Append(q, j)) = Head(q))
<1>1. /\ Append(q, j) \in Seq(J) /\ Append(q, j) # <<>> /\ (q # <<>> => Head(Append(q, j)) = Head(q))
      /\ Len(q) \in Nat /\ DOMAIN q = 1..Len(q) /\ DOMAIN Append(q, j) = 1..(Len(q) + 1)
      /\ \A k \in 1..(Len(q) + 1) : Append(q, j)[k] = IF k = Len(q) + 1 THEN j ELSE q[k]
  OBVIOUS
<1>2. 1..(Len(q) + 1) = 1..Len(q) \cup {Len(q) + 1} /\ Len(q) + 1 \notin 1..Len(q) BY <1>1
<1>3. IsInjective(Append(q, j)) BY <1>1, <1>2 DEF IsInjective, ToSet
<1>4. \A i : i \in ToSet(Append(q, j)) <=> i \in ToSet(q) \/ i = j BY <1>1, <1>2 DEF ToSet
<1> QED BY <1>1, <1>3, <1>4

LEMMA Left ==
  ASSUME NEW J, NEW q \in Seq(J), IsInjective(q), q # <<>>
  PROVE  /\ Tail(q) \in Seq(J) /\ IsInjective(Tail(q))
         /\ \A i : i \in ToSet(Tail(q)) <=> i \in ToSet(q) /\ i # Head(q)
<1>1. /\ Tail(q) \in Seq(J) /\ Len(q) \in Nat \ {0} /\ DOMAIN q = 1..Len(q) /\ Head(q) = q[1]
      /\ DOMAIN Tail(q) = 1..(Len(q) - 1) /\ \A i \in 1..(Len(q) - 1) : Tail(q)[i] = q[i + 1]
  OBVIOUS
<1>2. IsInjective(Tail(q)) BY <1>1 DEF IsInjective
<1>3. ASSUME NEW i, i \in ToSet(Tail(q)) PROVE i \in ToSet(q) /\ i # Head(q)
  BY <1>1, <1>3 DEF ToSet, IsInjective
<1>4. ASSUME NEW i, i \in ToSet(q), i # Head(q) PROVE i \in ToSet(Tail(q))
  <2>1. PICK k \in 1..Len(q) : q[k] = i BY <1>1, <1>4 DEF ToSet
  <2>2. k - 1 \in 1..(Len(q) - 1) /\ Tail(q)[k - 1] = i BY <1>1, <1>4, <2>1
  <2> QED BY <1>1, <2>2 DEF ToSet
<1> QED BY <1>1, <1>2, <1>3, <1>4

LEMMA Nobody == <<>> \in Seq(Job) /\ IsInjective(<<>>) /\ \A i : i \notin ToSet(<<>>)
<1>1. <<>> \in Seq(Job) /\ DOMAIN <<>> = {} OBVIOUS
<1> QED BY <1>1, Zenon DEF IsInjective, ToSet

LEMMA Makings ==
  /\ DOMAIN Makes = {"copying", "moving", "archiving", "opening"}
  /\ Makes["copying"] = "stage" /\ Makes["moving"] = "inbox"
  /\ Makes["archiving"] = "inboxArchive" /\ Makes["opening"] = "outbox"
  /\ After["copying"] = "moving" /\ After["moving"] = "archiving"
  /\ After["archiving"] = "opening" /\ After["opening"] = "activating"
  BY DEF Makes, After

LEMMA Listings ==
  /\ NoOutputs \in Listed /\ \A o \in Output : NoOutputs[o] = "none"
  /\ NoAck \in Copy /\ NoAck.outs = NoOutputs /\ NoAck.chosen = {}
  /\ \A l \in Listed, o \in Output, s \in Status : [l EXCEPT ![o] = s] \in Listed
  BY SizesArePositive DEF NoOutputs, NoAck, Listed, Copy, Status, Turn

-----------------------------------------------------------------------------
(* The types. *)
LEMMA TypesInitially == Init => Types
<1> SUFFICES ASSUME Init PROVE Types OBVIOUS
<1> USE DEF Init
<1>1. /\ owner \in [Turn -> Session] /\ record \in [Turn -> Ends \cup {"none", "accepted"}]
      /\ recordOuts \in [Turn -> Listed] /\ historyOuts \in [Turn -> Listed] /\ outs \in [Turn -> Listed]
  BY Listings
<1>2. /\ history \subseteq (1..lines) \X Turn /\ lines \in Nat
      /\ historyStatus \in [Turn -> Ends \cup {"none"}]
      /\ ledger \subseteq {"pending", "delivered"} \X Turn \X Output /\ ledgerEnd \in {"whole", "torn", "malformed"}
  OBVIOUS
<1>3. /\ dirs \subseteq Root \X Turn /\ files \in [Turn -> SUBSET Output] /\ active \subseteq Turn /\ expired \subseteq Turn
      /\ serving \in BOOLEAN /\ verdict \in [Turn -> Ends] /\ unlogged \subseteq Output
      /\ phase \in [Turn -> InLock \cup {"new", "running", "ending", "recording", "recovering", "done"}]
  BY DEF Ends
<1>4. /\ lock \in Seq(Job) /\ ack \in [Client -> {"idle", "logging", "persisting"}]
      /\ mine \in [Client -> Copy]
  BY Nobody, Listings
<1>5. /\ pruning \in {"idle", "reading", "history", "active", "ledger", "dirs"} /\ retained \subseteq Turn
      /\ crashes \in Nat /\ faults \in Nat /\ tears \in Nat
  OBVIOUS
<1> QED BY <1>1, <1>2, <1>3, <1>4, <1>5 DEF Types

LEMMA FaultTypes == 
  ASSUME Types, Fault \/ Tear \/ UNCHANGED bounds
  PROVE  crashes' \in Nat /\ faults' \in Nat /\ tears' \in Nat
  BY DEF Types, Fault, Tear, bounds

LEMMA QueueTypes ==
  ASSUME Types
  PROVE  /\ \A j \in Job : Enqueue(j) => lock' \in Seq(Job)
         /\ lock # <<>> /\ Leave => lock' \in Seq(Job)
<1> lock \in Seq(Job) BY DEF Types
<1>1. \A j \in Job : Append(lock, j) \in Seq(Job) OBVIOUS
<1>2. lock # <<>> => Tail(lock) \in Seq(Job) OBVIOUS
<1> QED BY <1>1, <1>2 DEF Enqueue, Leave

LEMMA TurnTypes ==
  ASSUME Types, RecordInv, NEW t \in Turn, Submit(t) \/ AgentWrites(t) \/ TurnSteps(t)
  PROVE  Types'
<1> USE DEF Types, records, journal, log, files_, turn, calls, sweep, bounds, Go, Ends, InLock
<1> t \in Job BY DEF Job
<1>1. CASE Submit(t) BY <1>1, QueueTypes DEF Submit
<1>2. CASE AgentWrites(t) BY <1>2 DEF AgentWrites
<1>3. CASE Stage(t) BY <1>3, Makings DEF Stage, Root
<1>4. CASE StagingFails(t) BY <1>4, QueueTypes, FaultTypes DEF StagingFails, Holds
<1>5. CASE Activate(t)
  <2>1. crashes' \in Nat /\ faults' \in Nat /\ tears' \in Nat
    BY <1>5, FaultTypes DEF Activate, LogFails
  <2>2. lock' \in Seq(Job) BY <1>5, QueueTypes DEF Activate, Holds
  <2>3. ledger' = ledger /\ ledgerEnd' \in {"whole", "torn", "malformed"} BY <1>5 DEF Activate, LogLine, LogFails
  <2> QED BY <1>5, <2>1, <2>2, <2>3 DEF Activate
<1>6. CASE End(t) BY <1>6, QueueTypes DEF End
<1>7. CASE LookUp(t) BY <1>7 DEF LookUp
<1>8. CASE Reuse(t)
  <2>1. crashes' \in Nat /\ faults' \in Nat /\ tears' \in Nat BY <1>8, FaultTypes DEF Reuse
  <2>2. lock' \in Seq(Job) BY <1>8, QueueTypes DEF Reuse, EndsBare, Holds
  <2>3. outs' \in [Turn -> Listed] /\ verdict' \in [Turn -> Ends]
    <3>1. historyOuts \in [Turn -> Listed] /\ outs \in [Turn -> Listed] /\ verdict \in [Turn -> Ends]
      OBVIOUS
    <3>2. historyOuts[t] \in Listed BY <3>1
    <3>3. historyStatus[t] \in Ends BY <1>8 DEF Reuse, RecordInv
    <3>4. \/ /\ verdict' = [verdict EXCEPT ![t] = historyStatus[t]]
             /\ outs' = [outs EXCEPT ![t] = historyOuts[t]]
          \/ verdict' = verdict /\ outs' = [outs EXCEPT ![t] = NoOutputs]
      BY <1>8 DEF Reuse, EndsBare
    <3> HIDE DEF Types, Ends
    <3> QED BY <3>1, <3>2, <3>3, <3>4, Listings
  <2>4. /\ active' \subseteq Turn
        /\ phase' \in [Turn -> InLock \cup {"new", "running", "ending", "recording", "recovering", "done"}]
    BY <1>8 DEF Reuse, EndsBare
  <2> QED BY <1>8, <2>1, <2>2, <2>3, <2>4 DEF Reuse
<1>9. CASE Collect(t)
  <2>1. crashes' \in Nat /\ faults' \in Nat /\ tears' \in Nat BY <1>9, FaultTypes DEF Collect
  <2>2. dirs' \subseteq Root \X Turn /\ unlogged' \subseteq Output
        /\ phase' \in [Turn -> InLock \cup {"new", "running", "ending", "recording", "recovering", "done"}]
    BY <1>9 DEF Collect, Root
  <2> QED BY <1>9, <2>1, <2>2 DEF Collect
<1>10. CASE LogOutput(t)
  <2>1. crashes' \in Nat /\ faults' \in Nat /\ tears' \in Nat
    BY <1>10, FaultTypes DEF LogOutput, LogFails
  <2>2. /\ Fresh(t) \in Status /\ outs[t] \in Listed
        /\ \A o \in Output : [outs EXCEPT ![t] = [outs[t] EXCEPT ![o] = Fresh(t)]] \in [Turn -> Listed]
    BY Listings DEF Fresh, Status
  <2>3. PICK o \in unlogged :
          \/ /\ LogLine(<<Fresh(t), t, o>>) /\ unlogged' = unlogged \ {o} /\ phase' = phase
             /\ outs' = [outs EXCEPT ![t] = [outs[t] EXCEPT ![o] = Fresh(t)]]
          \/ /\ LogFails /\ unlogged' = {} /\ outs' = [outs EXCEPT ![t] = NoOutputs]
             /\ phase' = [phase EXCEPT ![t] = "appending"]
    BY <1>10 DEF LogOutput
  <2>4. outs' \in [Turn -> Listed] BY <2>2, <2>3, Listings
  <2>5. ledger' \subseteq {"pending", "delivered"} \X Turn \X Output /\ ledgerEnd' \in {"whole", "torn", "malformed"}
    BY <2>3 DEF LogLine, LogFails
  <2> QED BY <1>10, <2>1, <2>3, <2>4, <2>5 DEF LogOutput
<1>11. CASE OutputsLogged(t) BY <1>11 DEF OutputsLogged
<1>12. CASE AppendHistory(t)
  <2>1. crashes' \in Nat /\ faults' \in Nat /\ tears' \in Nat
    BY <1>12, FaultTypes DEF AppendHistory
  <2>2. lock' \in Seq(Job) BY <1>12, QueueTypes DEF AppendHistory, EndsBare, Holds
  <2>3. CASE Appended(t)
    <3>1. history' \subseteq (1..lines') \X Turn /\ lines' \in Nat BY <2>3 DEF Appended
    <3>2. historyStatus' \in [Turn -> Ends \cup {"none"}] /\ historyOuts' \in [Turn -> Listed]
      BY <2>3 DEF Appended
    <3>3. outs' \in [Turn -> Listed] BY <1>12, Listings DEF AppendHistory, EndsBare
    <3>4. phase' \in [Turn -> InLock \cup {"new", "running", "ending", "recording", "recovering", "done"}]
      BY <1>12 DEF AppendHistory, EndsBare
    <3>5. UNCHANGED <<owner, records, ledger, ledgerEnd, dirs, files_, verdict, unlogged, calls, sweep>>
      BY <1>12 DEF AppendHistory, EndsBare
    <3> QED BY <2>1, <2>2, <3>1, <3>2, <3>3, <3>4, <3>5
  <2>4. CASE UNCHANGED journal BY <1>12, <2>1, <2>2, <2>4, Listings DEF AppendHistory, EndsBare
  <2> QED BY <1>12, <2>3, <2>4 DEF AppendHistory
<1>13. CASE Retire(t)
  <2>1. crashes' \in Nat /\ faults' \in Nat /\ tears' \in Nat BY <1>13, FaultTypes DEF Retire
  <2>2. lock' \in Seq(Job) BY <1>13, QueueTypes DEF Retire, EndsBare, Holds
  <2> QED BY <1>13, <2>1, <2>2, Listings DEF Retire, EndsBare
<1>14. CASE ClearInbox(t)
  <2>1. crashes' \in Nat /\ faults' \in Nat /\ tears' \in Nat BY <1>14, FaultTypes DEF ClearInbox
  <2>2. lock' \in Seq(Job) BY <1>14, QueueTypes DEF ClearInbox, EndsBare, Holds
  <2> QED BY <1>14, <2>1, <2>2, Listings DEF ClearInbox, EndsBare
<1>15. CASE Record(t) BY <1>15, Listings DEF Record
<1>16. CASE Recover(t) BY <1>16, QueueTypes DEF Recover
<1> QED
  BY <1>1, <1>2, <1>3, <1>4, <1>5, <1>6, <1>7, <1>8, <1>9, <1>10, <1>11, <1>12, <1>13, <1>14, <1>15,
     <1>16 DEF TurnSteps, FinishTurn

LEMMA AckTypes ==
  ASSUME Types, NEW c \in Client, AckReads(c) \/ AckSteps(c)
  PROVE  Types'
<1> USE DEF Types, records, journal, log, files_, turn, calls, sweep, bounds
<1> c \in Job BY DEF Job
<1>1. CASE AckReads(c) BY <1>1, QueueTypes DEF AckReads, Copy
<1>2. CASE AckLogs(c)
  <2>1. crashes' \in Nat /\ faults' \in Nat /\ tears' \in Nat
    BY <1>2, FaultTypes DEF AckLogs, LogFails
  <2>2. lock' \in Seq(Job) BY <1>2, QueueTypes DEF AckLogs, Holds
  <2>3. PICK o \in Undelivered(c) :
          \/ LogLine(<<"delivered", mine[c].turn, o>>) /\ ack' = ack
             /\ mine' = [mine EXCEPT ![c].outs[o] = "delivered"]
          \/ LogFails /\ ack' = [ack EXCEPT ![c] = "idle"] /\ mine' = [mine EXCEPT ![c] = NoAck]
    BY <1>2 DEF AckLogs
  <2>4. o \in Output /\ mine[c] \in Copy BY DEF Undelivered, Copy
  <2>5. [mine[c] EXCEPT !.outs[o] = "delivered"] \in Copy BY <2>4 DEF Copy, Listed, Status
  <2>6. mine' \in [Client -> Copy] BY <2>3, <2>5, Listings
  <2>7. ledger' \subseteq {"pending", "delivered"} \X Turn \X Output /\ ledgerEnd' \in {"whole", "torn", "malformed"}
    BY <2>3, <2>4 DEF LogLine, LogFails, Copy
  <2> QED BY <1>2, <2>1, <2>2, <2>3, <2>6, <2>7 DEF AckLogs
<1>3. CASE AckLogged(c) BY <1>3, QueueTypes DEF AckLogged, Holds
<1>4. CASE AckPersists(c) BY <1>4, Listings DEF AckPersists, Copy
<1> QED BY <1>1, <1>2, <1>3, <1>4 DEF AckSteps

LEMMA PruneTypes == ASSUME Types, PruneSteps PROVE Types'
<1> USE DEF Types, records, journal, log, files_, turn, calls, sweep, bounds
<1> Prune \in Job BY DEF Job
<1>1. CASE PruneDue BY <1>1, QueueTypes DEF PruneDue
<1>2. CASE PruneReads
  <2>1. \A l \in {"pending", "delivered"} \X Turn \X Output : l[2] \in Turn OBVIOUS
  <2>2. \A l \in Pending : l[2] \in Turn BY <2>1 DEF Pending
  <2>3. retained' \subseteq Turn BY <1>2, <2>2 DEF PruneReads
  <2> QED BY <1>2, <2>3 DEF PruneReads
<1>3. CASE PruneHistory BY <1>3 DEF PruneHistory
<1>4. CASE PruneActive BY <1>4 DEF PruneActive
<1>5. CASE PruneLedger BY <1>5 DEF PruneLedger
<1>6. CASE PruneRemoves BY <1>6 DEF PruneRemoves, Unreferenced
<1>7. CASE PruneEnds BY <1>7, QueueTypes DEF PruneEnds, Holds
<1> QED BY <1>1, <1>2, <1>3, <1>4, <1>5, <1>6, <1>7 DEF PruneSteps

LEMMA RestTypes == ASSUME Types, Crash \/ Serve \/ UNCHANGED vars PROVE Types'
<1> USE DEF Types, records, journal, log, files_, turn, calls, sweep, bounds
<1>1. CASE Crash
  <2>1. /\ phase' \in [Turn -> InLock \cup {"new", "running", "ending", "recording", "recovering", "done"}]
        /\ verdict' \in [Turn -> Ends] /\ crashes' \in Nat /\ faults' \in Nat /\ tears' \in Nat
    BY <1>1 DEF Crash, Ends
  <2>2. outs' \in [Turn -> Listed] /\ mine' \in [Client -> Copy] /\ lock' \in Seq(Job)
    BY <1>1, Nobody, Listings DEF Crash
  <2>3. ack' \in [Client -> {"idle", "logging", "persisting"}] /\ unlogged' = {} /\ retained' = {}
        /\ serving' = FALSE /\ pruning' = "idle" BY <1>1 DEF Crash
  <2> QED BY <1>1, <2>1, <2>2, <2>3 DEF Crash
<1>2. CASE Serve BY <1>2 DEF Serve
<1>3. CASE UNCHANGED vars BY <1>3 DEF vars
<1> QED BY <1>1, <1>2, <1>3

LEMMA TypesKept == ASSUME Types, RecordInv, [Next]_vars PROVE Types'
  BY TurnTypes, AckTypes, PruneTypes, RestTypes DEF Next

-----------------------------------------------------------------------------
(* The lock. *)
LEMMA JobsApart ==
  /\ \A t \in Turn : t \in Job /\ t # Prune /\ t \notin Client
  /\ \A c \in Client : c \in Job /\ c # Prune /\ c \notin Turn
  /\ Prune \in Job /\ Prune \notin Turn \cup Client
  BY JobsAreDistinct DEF Job

(* A step that leaves the queue alone. *)
LEMMA LockStays ==
  ASSUME Types, LockInv, UNCHANGED lock,
         \A j \in Job : Inside(j)' <=> Inside(j),
         \A t \in Turn : Entered(t)' => Entered(t) \/ Holds(t),
         pruning' \notin {"idle", "reading"} => pruning \notin {"idle", "reading"} \/ Holds(Prune)
  PROVE  LockInv'
<1>1. \A j : Holds(j)' <=> Holds(j) BY DEF Holds
<1>2. ToSet(lock)' = ToSet(lock) BY DEF ToSet
<1>3. IsInjective(lock)' BY DEF LockInv, IsInjective
<1> QED BY <1>1, <1>2, <1>3 DEF LockInv

(* A step that asks for the lock. *)
LEMMA LockAsked ==
  ASSUME Types, LockInv, NEW j \in Job, Enqueue(j), ~Inside(j), Inside(j)',
         \A i \in Job \ {j} : Inside(i)' <=> Inside(i),
         \A t \in Turn : Entered(t)' => Entered(t),
         pruning' \notin {"idle", "reading"} => pruning \notin {"idle", "reading"}
  PROVE  LockInv'
<1>1. lock \in Seq(Job) /\ IsInjective(lock) /\ j \notin ToSet(lock) /\ lock' = Append(lock, j)
  BY DEF Types, LockInv, Enqueue
<1>2. /\ IsInjective(lock')
      /\ \A i : i \in ToSet(lock') <=> i \in ToSet(lock) \/ i = j
      /\ lock' # <<>> /\ (lock # <<>> => Head(lock') = Head(lock))
  BY <1>1, Enqueued
<1>3. \A i : Holds(i) => Holds(i)' BY <1>2 DEF Holds
<1>4. IsInjective(lock)' /\ \A i : i \in ToSet(lock)' <=> i \in ToSet(lock) \/ i = j BY <1>2
<1> QED BY <1>3, <1>4 DEF LockInv

(* A step that leaves the lock. *)
LEMMA LockGone ==
  ASSUME Types, LockInv, NEW j \in Job, Holds(j), Leave, ~Inside(j)',
         \A i \in Job \ {j} : Inside(i)' <=> Inside(i),
         \A t \in Turn : Entered(t)' => Entered(t),
         pruning' \notin {"idle", "reading"} => pruning \notin {"idle", "reading"}
  PROVE  LockInv'
<1>1. lock \in Seq(Job) /\ IsInjective(lock) /\ lock # <<>> /\ Head(lock) = j /\ lock' = Tail(lock)
  BY DEF Types, LockInv, Holds, Leave
<1>2. /\ IsInjective(lock')
      /\ \A i : i \in ToSet(lock') <=> i \in ToSet(lock) /\ i # j
  BY <1>1, Left
<1>3. \A i : Holds(i) => i = j BY <1>1 DEF Holds
<1>4. IsInjective(lock)' /\ \A i : i \in ToSet(lock)' <=> i \in ToSet(lock) /\ i # j BY <1>2
<1>5. \A t \in Turn : ~Entered(t)'
  <2> SUFFICES ASSUME NEW t \in Turn, Entered(t)' PROVE FALSE OBVIOUS
  <2>1. t = j BY <1>3 DEF LockInv
  <2>2. Inside(t)' BY DEF Inside, Entered
  <2> QED BY <2>1, <2>2
<1>6. pruning' \in {"idle", "reading"}
  <2> SUFFICES ASSUME pruning' \notin {"idle", "reading"} PROVE FALSE OBVIOUS
  <2>1. Prune = j BY <1>3 DEF LockInv
  <2>2. Inside(Prune)' BY DEF Inside
  <2> QED BY <2>1, <2>2
<1> QED BY <1>4, <1>5, <1>6 DEF LockInv

LEMMA TurnLock ==
  ASSUME Types, LockInv, NEW t \in Turn, Submit(t) \/ AgentWrites(t) \/ TurnSteps(t)
  PROVE  LockInv'
<1> t \in Job BY JobsApart
<1> USE JobsApart DEF Types, turn, calls, sweep, Go, InLock, Inside, Entered, Job
<1>1. CASE Submit(t) BY <1>1, LockAsked DEF Submit
<1>2. CASE AgentWrites(t) BY <1>2, LockStays DEF AgentWrites
<1>3. CASE Stage(t) BY <1>3, LockStays, Makings DEF Stage
<1>4. CASE StagingFails(t) BY <1>4, LockGone, Makings DEF StagingFails
<1>5. CASE Activate(t) BY <1>5, LockGone DEF Activate
<1>6. CASE End(t) BY <1>6, LockAsked DEF End
<1>7. CASE LookUp(t) BY <1>7, LockStays DEF LookUp
<1>8. CASE Reuse(t) BY <1>8, LockGone DEF Reuse, EndsBare
<1>9. CASE Collect(t) BY <1>9, LockStays DEF Collect
<1>10. CASE LogOutput(t) BY <1>10, LockStays DEF LogOutput
<1>11. CASE OutputsLogged(t) BY <1>11, LockStays DEF OutputsLogged
<1>12. CASE AppendHistory(t) BY <1>12, LockStays, LockGone DEF AppendHistory, EndsBare
<1>13. CASE Retire(t) BY <1>13, LockStays, LockGone DEF Retire, EndsBare
<1>14. CASE ClearInbox(t) BY <1>14, LockGone DEF ClearInbox, EndsBare
<1>15. CASE Record(t) BY <1>15, LockStays DEF Record
<1>16. CASE Recover(t) BY <1>16, LockAsked DEF Recover
<1> QED
  BY <1>1, <1>2, <1>3, <1>4, <1>5, <1>6, <1>7, <1>8, <1>9, <1>10, <1>11, <1>12, <1>13, <1>14, <1>15,
     <1>16 DEF TurnSteps, FinishTurn

LEMMA AckLock ==
  ASSUME Types, LockInv, NEW c \in Client, AckReads(c) \/ AckSteps(c)
  PROVE  LockInv'
<1> c \in Job BY JobsApart
<1> USE JobsApart DEF Types, turn, calls, sweep, Inside, Entered, Job
<1>1. CASE AckReads(c) BY <1>1, LockAsked DEF AckReads
<1>2. CASE AckLogs(c)
  <2>1. \/ UNCHANGED <<ack, lock>>
        \/ ack' = [ack EXCEPT ![c] = "idle"] /\ Leave
    BY <1>2 DEF AckLogs
  <2> QED BY <1>2, <2>1, LockStays, LockGone DEF AckLogs
<1>3. CASE AckLogged(c) BY <1>3, LockGone DEF AckLogged
<1>4. CASE AckPersists(c) BY <1>4, LockStays DEF AckPersists
<1> QED BY <1>1, <1>2, <1>3, <1>4 DEF AckSteps

LEMMA PruneLock == ASSUME Types, LockInv, PruneSteps PROVE LockInv'
<1> Prune \in Job BY JobsApart
<1> USE JobsApart DEF Types, turn, calls, sweep, Inside, Entered, Job
<1>1. CASE PruneDue BY <1>1, LockAsked DEF PruneDue
<1>2. CASE PruneReads BY <1>2, LockStays DEF PruneReads
<1>3. CASE PruneHistory BY <1>3, LockStays DEF PruneHistory
<1>4. CASE PruneActive BY <1>4, LockStays DEF PruneActive
<1>5. CASE PruneLedger BY <1>5, LockStays DEF PruneLedger
<1>6. CASE PruneRemoves BY <1>6, LockStays DEF PruneRemoves
<1>7. CASE PruneEnds BY <1>7, LockGone DEF PruneEnds
<1> QED BY <1>1, <1>2, <1>3, <1>4, <1>5, <1>6, <1>7 DEF PruneSteps

LEMMA CrashLock == ASSUME Types, LockInv, Crash PROVE LockInv'
<1>1. lock' = <<>> /\ pruning' = "idle" /\ \A c \in Client : ack'[c] = "idle"
  BY DEF Crash
<1>2. \A t \in Turn : phase'[t] \in {"new", "recovering", "done"} BY DEF Crash
<1>3. \A j : j \notin ToSet(lock') BY <1>1, Nobody
<1>4. IsInjective(lock') BY <1>1, Nobody
<1>5. \A j \in Job : ~Inside(j)' BY <1>1, <1>2 DEF Inside, InLock
<1>6. \A t \in Turn : ~Entered(t)' BY <1>2 DEF Entered, InLock
<1>7. IsInjective(lock)' /\ \A j : j \notin ToSet(lock)' BY <1>3, <1>4
<1> QED BY <1>1, <1>5, <1>6, <1>7 DEF LockInv

LEMMA LockKept == ASSUME Types, LockInv, [Next]_vars PROVE LockInv'
<1>1. CASE Serve BY <1>1, LockStays DEF Serve, turn, sweep, Inside, Entered
<1>2. CASE UNCHANGED vars BY <1>2, LockStays DEF vars, turn, calls, sweep, Inside, Entered
<1> QED BY <1>1, <1>2, TurnLock, AckLock, PruneLock, CrashLock DEF Next

(* Only the head of the queue steps inside the lock. *)
LEMMA OneInside ==
  ASSUME LockInv
  PROVE  /\ \A t, u \in Turn : Holds(t) /\ Entered(u) => u = t
         /\ \A c \in Client, u \in Turn : Holds(c) => ~Entered(u)
         /\ Holds(Prune) => \A u \in Turn : ~Entered(u)
         /\ \A j \in Turn \cup Client : Holds(j) => pruning \in {"idle", "reading"}
  BY JobsApart DEF LockInv, Holds

-----------------------------------------------------------------------------
(* The records. *)
LEMMA RecordInitially == Init => LockInv /\ RecordInv /\ HistoryInv /\ SpareInv /\ WholeInv
<1> SUFFICES ASSUME Init PROVE LockInv /\ RecordInv /\ HistoryInv /\ SpareInv /\ WholeInv OBVIOUS
<1>1. LockInv
  BY Nobody DEF Init, LockInv, Inside, Entered, InLock
<1>2. RecordInv BY DEF Init, RecordInv, InHistory
<1>3. HistoryInv BY DEF Init, HistoryInv, OneRecordPerTurn, InHistory
<1>4. SpareInv BY DEF Init, SpareInv
<1>5. WholeInv
  <2>1. KeptInv BY Listings DEF Init, KeptInv, Claims, InHistory
  <2>2. DeliveredInv BY Listings DEF Init, DeliveredInv
  <2> QED BY <2>1, <2>2 DEF WholeInv, Init
<1> QED BY <1>1, <1>2, <1>3, <1>4, <1>5

(* What a step of a call does to the records: its turn's follow its phase. *)
LEMMA TurnRecord ==
  ASSUME Types, LockInv, RecordInv, NEW t \in Turn, Submit(t) \/ AgentWrites(t) \/ TurnSteps(t)
  PROVE  RecordInv'
<1> USE DEF Types, turn, records, journal, Go, InLock, Ends, RecordInv, InHistory
<1>1. CASE Submit(t) BY <1>1 DEF Submit
<1>2. CASE AgentWrites(t) BY <1>2 DEF AgentWrites
<1>3. CASE Stage(t) BY <1>3, Makings DEF Stage
<1>4. CASE StagingFails(t) BY <1>4, Makings DEF StagingFails
<1>5. CASE Activate(t) BY <1>5 DEF Activate
<1>6. CASE End(t) BY <1>6 DEF End
<1>7. CASE LookUp(t) BY <1>7 DEF LookUp
<1>8. CASE Reuse(t) BY <1>8 DEF Reuse, EndsBare
<1>9. CASE Collect(t) BY <1>9 DEF Collect
<1>10. CASE LogOutput(t) BY <1>10 DEF LogOutput
<1>11. CASE OutputsLogged(t) BY <1>11 DEF OutputsLogged
<1>12. CASE AppendHistory(t) BY <1>12 DEF AppendHistory, Appended, EndsBare
<1>13. CASE Retire(t) BY <1>13 DEF Retire, EndsBare
<1>14. CASE ClearInbox(t) BY <1>14 DEF ClearInbox, EndsBare
<1>15. CASE Record(t) BY <1>15 DEF Record
<1>16. CASE Recover(t) BY <1>16 DEF Recover
<1> QED
  BY <1>1, <1>2, <1>3, <1>4, <1>5, <1>6, <1>7, <1>8, <1>9, <1>10, <1>11, <1>12, <1>13, <1>14, <1>15,
     <1>16 DEF TurnSteps, FinishTurn

LEMMA RecordKept == ASSUME Types, LockInv, RecordInv, [Next]_vars PROVE RecordInv'
<1> USE DEF Types, turn, records, journal
<1>1. ASSUME NEW c \in Client, AckReads(c) \/ AckSteps(c) PROVE RecordInv'
  BY <1>1 DEF AckReads, AckSteps, AckLogs, AckLogged, AckPersists, RecordInv, InHistory
<1>2. CASE PruneHistory
  <2>1. \A t \in Turn : phase[t] # "reusing" BY <1>2, OneInside DEF PruneHistory, Entered, InLock
  <2>2. UNCHANGED <<phase, record, historyStatus>> /\ history' \subseteq history BY <1>2 DEF PruneHistory
  <2> QED BY <2>1, <2>2 DEF RecordInv, InHistory
<1>3. CASE PruneDue \/ PruneReads \/ PruneActive \/ PruneLedger \/ PruneRemoves \/ PruneEnds
  <2>1. UNCHANGED <<phase, record, historyStatus, history>>
    BY <1>3 DEF PruneDue, PruneReads, PruneActive, PruneLedger, PruneRemoves, PruneEnds
  <2> QED BY <2>1 DEF RecordInv, InHistory
<1>4. CASE Crash
  <2>1. /\ \A t \in Turn : phase'[t] = IF record[t] = "none" THEN "new"
                                       ELSE IF record[t] = "accepted" THEN "recovering" ELSE "done"
        /\ UNCHANGED <<record, historyStatus, history>>
    BY <1>4 DEF Crash, Unfinished
  <2> QED BY <2>1 DEF RecordInv, InHistory
<1>5. CASE Serve \/ UNCHANGED vars BY <1>5 DEF Serve, vars, RecordInv, InHistory
<1> QED BY <1>1, <1>2, <1>3, <1>4, <1>5, TurnRecord DEF Next, PruneSteps

(* The history. *)
LEMMA TurnHistory ==
  ASSUME Types, LockInv, RecordInv, HistoryInv, NEW t \in Turn,
         Submit(t) \/ AgentWrites(t) \/ TurnSteps(t)
  PROVE  HistoryInv'
<1> USE DEF Types, turn, journal, Go, InLock, HistoryInv, OneRecordPerTurn, Unwritten
<1>1. ASSUME UNCHANGED history,
             \A u \in Turn : phase'[u] \in Unwritten => phase[u] \in Unwritten \/ ~InHistory(u)
      PROVE  HistoryInv'
  BY <1>1 DEF InHistory
<1>2. CASE Submit(t) BY <1>1, <1>2 DEF Submit
<1>3. CASE AgentWrites(t) BY <1>1, <1>3 DEF AgentWrites
<1>4. CASE Stage(t) BY <1>1, <1>4, Makings DEF Stage
<1>5. CASE StagingFails(t) BY <1>1, <1>5, Makings DEF StagingFails
<1>6. CASE Activate(t) BY <1>1, <1>6 DEF Activate
<1>7. CASE End(t) BY <1>1, <1>7 DEF End
<1>8. CASE LookUp(t) BY <1>1, <1>8 DEF LookUp
<1>9. CASE Reuse(t) BY <1>1, <1>9 DEF Reuse, EndsBare
<1>10. CASE Collect(t) BY <1>1, <1>10 DEF Collect
<1>11. CASE LogOutput(t) BY <1>1, <1>11 DEF LogOutput
<1>12. CASE OutputsLogged(t) BY <1>1, <1>12 DEF OutputsLogged
<1>13. CASE AppendHistory(t)
  <2>1. /\ \A u \in Turn \ {t} : phase'[u] = phase[u]
        /\ phase'[t] \in {"retiring", "recording"} /\ ~InHistory(t)
    BY <1>13 DEF AppendHistory, EndsBare
  <2>2. CASE UNCHANGED history BY <1>1, <2>1, <2>2
  <2>3. CASE history' = history \cup {<<lines + 1, t>>}
    <3>1. \A u \in Turn : phase'[u] \in Unwritten => u # t /\ ~InHistory(u) BY <2>1
    <3>2. \A u \in Turn \ {t} : InHistory(u)' => InHistory(u) BY <2>3 DEF InHistory
    <3>3. \A l \in history : l[2] # t BY <2>1 DEF InHistory
    <3> QED BY <2>3, <3>1, <3>2, <3>3
  <2> QED BY <1>13, <2>2, <2>3 DEF AppendHistory, Appended
<1>14. CASE Retire(t) BY <1>1, <1>14 DEF Retire, EndsBare
<1>15. CASE ClearInbox(t) BY <1>1, <1>15 DEF ClearInbox, EndsBare
<1>16. CASE Record(t) BY <1>1, <1>16 DEF Record
<1>17. CASE Recover(t) BY <1>1, <1>17 DEF Recover
<1> QED
  BY <1>2, <1>3, <1>4, <1>5, <1>6, <1>7, <1>8, <1>9, <1>10, <1>11, <1>12, <1>13, <1>14, <1>15,
     <1>16, <1>17 DEF TurnSteps, FinishTurn

LEMMA HistoryKept ==
  ASSUME Types, LockInv, RecordInv, HistoryInv, [Next]_vars
  PROVE  HistoryInv'
<1> USE DEF Types, turn, journal, HistoryInv, OneRecordPerTurn, InHistory
<1>1. ASSUME NEW c \in Client, AckReads(c) \/ AckSteps(c) PROVE HistoryInv'
  BY <1>1 DEF AckReads, AckSteps, AckLogs, AckLogged, AckPersists
<1>2. CASE PruneSteps
  <2>1. phase' = phase /\ history' \subseteq history
    BY <1>2 DEF PruneSteps, PruneDue, PruneReads, PruneHistory, PruneActive, PruneLedger,
                PruneRemoves, PruneEnds
  <2> QED BY <2>1
<1>3. CASE Crash
  <2>1. UNCHANGED history /\ \A t \in Turn : phase'[t] \in Unwritten => phase[t] = "new"
    BY <1>3 DEF Crash, RecordInv, Unwritten
  <2> QED BY <2>1 DEF Unwritten
<1>4. CASE Serve \/ UNCHANGED vars BY <1>4 DEF Serve, vars
<1> QED BY <1>1, <1>2, <1>3, <1>4, TurnHistory DEF Next

(* What a live turn needs is spared. *)
LEMMA TurnSpare ==
  ASSUME Types, LockInv, SpareInv, NEW t \in Turn, Submit(t) \/ AgentWrites(t) \/ TurnSteps(t)
  PROVE  SpareInv'
<1> USE DEF Types, turn, files_, sweep, Go, InLock, SpareInv
<1>1. CASE Submit(t) BY <1>1 DEF Submit
<1>2. CASE AgentWrites(t) BY <1>2 DEF AgentWrites
<1>3. CASE Stage(t) BY <1>3, Makings DEF Stage
<1>4. CASE StagingFails(t) BY <1>4, Makings DEF StagingFails
<1>5. CASE Activate(t)
  <2>1. pruning \notin {"ledger", "dirs"} BY <1>5, OneInside DEF Activate
  <2> QED BY <1>5, <2>1 DEF Activate
<1>6. CASE End(t) BY <1>6 DEF End
<1>7. CASE LookUp(t) BY <1>7 DEF LookUp
<1>8. CASE Reuse(t) BY <1>8 DEF Reuse, EndsBare
<1>9. CASE Collect(t) BY <1>9 DEF Collect
<1>10. CASE LogOutput(t) BY <1>10 DEF LogOutput
<1>11. CASE OutputsLogged(t) BY <1>11 DEF OutputsLogged
<1>12. CASE AppendHistory(t) BY <1>12 DEF AppendHistory, EndsBare
<1>13. CASE Retire(t) BY <1>13 DEF Retire, EndsBare
<1>14. CASE ClearInbox(t) BY <1>14 DEF ClearInbox, EndsBare
<1>15. CASE Record(t) BY <1>15 DEF Record
<1>16. CASE Recover(t) BY <1>16 DEF Recover
<1> QED
  BY <1>1, <1>2, <1>3, <1>4, <1>5, <1>6, <1>7, <1>8, <1>9, <1>10, <1>11, <1>12, <1>13, <1>14, <1>15,
     <1>16 DEF TurnSteps, FinishTurn

LEMMA SpareKept ==
  ASSUME Types, LockInv, RecordInv, SpareInv, [Next]_vars
  PROVE  SpareInv'
<1> USE DEF Types, turn, files_, sweep
<1>1. ASSUME NEW c \in Client, AckReads(c) \/ AckSteps(c) PROVE SpareInv'
  BY <1>1 DEF AckReads, AckSteps, AckLogs, AckLogged, AckPersists, SpareInv
<1>2. CASE PruneDue \/ PruneReads \/ PruneHistory \/ PruneEnds
  BY <1>2 DEF PruneDue, PruneReads, PruneHistory, PruneEnds, SpareInv
<1>3. CASE PruneActive
  <2>1. /\ \A t \in active : t \in active' \/ t \in expired'
        /\ expired \subseteq expired' /\ active' \subseteq retained' /\ UNCHANGED <<phase, dirs>>
    BY <1>3 DEF PruneActive
  <2> QED BY <2>1 DEF SpareInv
<1>4. CASE PruneLedger BY <1>4 DEF PruneLedger, SpareInv
<1>5. CASE PruneRemoves
  <2>1. PICK d \in Unreferenced : dirs' = dirs \ {d} BY <1>5 DEF PruneRemoves
  <2>2. \A t \in Turn : phase[t] \notin {"archiving", "opening", "activating"}
    BY <1>5, OneInside DEF PruneRemoves, Entered, InLock
  <2>3. \A t \in Turn : phase[t] = "running" /\ t \notin expired => t \in retained BY <1>5 DEF PruneRemoves, SpareInv
  <2>4. UNCHANGED <<phase, active, retained, pruning, expired>> BY <1>5 DEF PruneRemoves
  <2>5. \A t \in Turn, k \in {"inbox", "inboxArchive", "outbox"} :
          phase[t] = "running" /\ t \notin expired => <<k, t>> # d
    BY <2>1, <2>3 DEF Unreferenced
  <2> QED BY <2>1, <2>2, <2>4, <2>5 DEF SpareInv
<1>6. CASE Crash BY <1>6 DEF Crash, SpareInv
<1>7. CASE Serve \/ UNCHANGED vars BY <1>7 DEF Serve, vars, SpareInv
<1> QED BY <1>1, <1>2, <1>3, <1>4, <1>5, <1>6, <1>7, TurnSpare DEF Next, PruneSteps

-----------------------------------------------------------------------------
(* The ledger, while its lines are whole. *)
LEMMA WhatIsPending ==
  \A t, o : <<"pending", t, o>> \in Pending <=>
              <<"pending", t, o>> \in ledger /\ <<"delivered", t, o>> \notin ledger
  BY DEF Pending

(* A step that gives no output a new claim keeps those that stand. *)
LEMMA ClaimsStay ==
  ASSUME NEW t \in Turn, NEW o \in Output, Claims(t, o), reported \subseteq reported',
         Ended(t) => Ended(t)', \A c \in Client : mine'[c] \in {mine[c], NoAck},
         recordOuts'[t][o] = recordOuts[t][o], historyOuts'[t][o] = historyOuts[t][o],
         outs'[t][o] \in {outs[t][o], "none"},
         outs'[t][o] # "none" =>
           /\ phase'[t] \in {"logging", "appending", "retiring", "clearing", "recording"}
           /\ phase'[t] \in {"retiring", "clearing", "recording"} =>
                phase[t] \in {"retiring", "clearing", "recording"},
         InHistory(t)' => InHistory(t),
         <<t, o>> \notin reported' =>
           /\ Kept(t, o) => (Kept(t, o)' /\ (InHistory(t) => InHistory(t)'))
           /\ pruning' \notin {"idle", "reading"} /\ <<"pending", t, o>> \in ledger' => t \in retained'
  PROVE  Claims(t, o)'
  BY Listings DEF Claims

(* The steps of a call that touch neither the ledger nor what is listed. *)
LEMMA CallMoves ==
  ASSUME KeptInv,
         UNCHANGED <<outs, recordOuts, mine, reported, ledger, unlogged, history, historyOuts,
                     pruning, retained>>,
         \A u \in Turn :
           /\ Ended(u) => Ended(u)'
           /\ files[u] \subseteq files'[u]
           /\ <<"outboxArchive", u>> \in dirs => <<"outboxArchive", u>> \in dirs',
         \A u \in Turn :
           /\ phase'[u] = "logging" => phase[u] = "logging"
           /\ phase[u] \in {"logging", "appending", "retiring", "clearing", "recording"} =>
                /\ phase'[u] \in {"logging", "appending", "retiring", "clearing", "recording"}
                /\ phase'[u] \in {"retiring", "clearing", "recording"} =>
                     phase[u] \in {"retiring", "clearing", "recording"}
  PROVE  KeptInv'
<1>1. ASSUME NEW u \in Turn, NEW o \in Output PROVE Claims(u, o)'
  <2>1. Claims(u, o) BY DEF KeptInv
  <2>2. Kept(u, o) => Kept(u, o)' BY DEF Kept, Ended
  <2>3. outs[u][o] # "none" => phase[u] \in {"logging", "appending", "retiring", "clearing", "recording"}
    BY <2>1 DEF Claims
  <2>4. <<u, o>> \notin reported /\ pruning \notin {"idle", "reading"} /\ <<"pending", u, o>> \in ledger =>
          u \in retained
    BY <2>1 DEF Claims
  <2>5. InHistory(u)' <=> InHistory(u) BY DEF InHistory
  <2>6. Ended(u) => Ended(u)' BY DEF Ended
  <2> QED BY <2>1, <2>2, <2>3, <2>4, <2>5, <2>6, ClaimsStay DEF Ended
<1> QED BY <1>1 DEF KeptInv, Ended

LEMMA CollectKept ==
  ASSUME Types, LockInv, KeptInv, NEW t \in Turn, Collect(t)
  PROVE  KeptInv'
<1>1. /\ \/ /\ phase' = [phase EXCEPT ![t] = "logging"] /\ unlogged' = files[t]
            /\ <<"outboxArchive", t>> \in dirs'
         \/ phase' = [phase EXCEPT ![t] = "appending"] /\ UNCHANGED unlogged
      /\ phase \in [Turn -> InLock \cup {"new", "running", "ending", "recording", "recovering", "done"}]
      /\ phase[t] = "collecting"
  BY DEF Collect, Go, Types
<1>2. \A u \in Turn : <<"outboxArchive", u>> \in dirs => <<"outboxArchive", u>> \in dirs'
  BY DEF Collect
<1>3. \A u \in Turn : phase[u] # "logging" BY OneInside DEF Collect, Entered, InLock
<1>4. UNCHANGED <<outs, recordOuts, mine, record, reported, ledger, files, history, historyOuts,
                  pruning, retained>>
  BY DEF Collect, records, journal, log, files_, calls, sweep
<1>5. ASSUME NEW u \in Turn, NEW o \in Output PROVE Claims(u, o)'
  <2>1. Claims(u, o) BY DEF KeptInv
  <2>2. phase'[u] = phase[u] \/ (phase[u] = "collecting" /\ phase'[u] \in {"logging", "appending"})
    BY <1>1
  <2>3. Kept(u, o) => Kept(u, o)' BY <1>2, <1>4 DEF Kept
  <2>4. InHistory(u)' = InHistory(u) /\ Ended(u)' = Ended(u) BY <1>4 DEF InHistory, Ended
  <2> QED BY <1>4, <2>1, <2>2, <2>3, <2>4 DEF Claims
<1>6. \A u \in Turn : phase'[u] = "logging" => <<"outboxArchive", u>> \in dirs' /\ unlogged' \subseteq files'[u]
  BY <1>1, <1>3, <1>4
<1>7. \A c \in Client : \A o \in mine'[c].chosen : <<mine'[c].turn, o>> \in reported'
  BY <1>4 DEF KeptInv
<1>8. \A u \in Turn, o \in Output : <<"delivered", u, o>> \in ledger' => <<u, o>> \in reported'
  BY <1>4 DEF KeptInv
<1> QED BY <1>5, <1>6, <1>7, <1>8 DEF KeptInv

LEMMA LogOutputKept ==
  ASSUME Types, LockInv, KeptInv, ledgerEnd = "whole", NEW t \in Turn, LogOutput(t)
  PROVE  KeptInv'
<1>1. PICK o \in unlogged :
        \/ /\ LogLine(<<Fresh(t), t, o>>) /\ unlogged' = unlogged \ {o} /\ phase' = phase
           /\ outs' = [outs EXCEPT ![t] = [outs[t] EXCEPT ![o] = Fresh(t)]]
        \/ /\ ledger' = ledger /\ unlogged' = {} /\ outs' = [outs EXCEPT ![t] = NoOutputs]
           /\ phase' = [phase EXCEPT ![t] = "appending"]
  BY DEF LogOutput, LogFails, Go
<1>2. UNCHANGED <<recordOuts, mine, record, reported, files, dirs, history, historyOuts, pruning, retained>>
  BY DEF LogOutput, records, journal, files_, calls, sweep
<1>3. /\ phase[t] = "logging" /\ o \in files[t] /\ <<"outboxArchive", t>> \in dirs
      /\ pruning \in {"idle", "reading"} /\ o \in Output
  BY OneInside DEF LogOutput, KeptInv, Types
<1>4. /\ ledger \subseteq ledger'
      /\ \A u \in Turn, p \in Output : <<"delivered", u, p>> \in ledger' => <<"delivered", u, p>> \in ledger
      /\ Fresh(t) = "pending" => <<"pending", t, o>> \in ledger' \/ outs' = [outs EXCEPT ![t] = NoOutputs]
  BY <1>1 DEF LogLine, Fresh
<1>5. ASSUME NEW u \in Turn, NEW p \in Output
      PROVE  /\ outs'[u][p] # "none" =>
                  \/ outs'[u][p] = outs[u][p] /\ phase'[u] = phase[u]
                  \/ u = t /\ p = o /\ outs'[u][p] = Fresh(t) /\ phase'[u] = "logging"
                     /\ outs' # [outs EXCEPT ![t] = NoOutputs]
             /\ phase'[u] = phase[u] \/ outs'[u][p] = "none"
  <2>1. outs \in [Turn -> Listed] /\ outs[u] \in [Output -> Status] /\ outs[t] \in [Output -> Status]
        /\ phase \in [Turn -> InLock \cup {"new", "running", "ending", "recording", "recovering", "done"}]
    BY DEF Types, Listed
  <2>2. CASE phase' = [phase EXCEPT ![t] = "appending"] /\ outs' = [outs EXCEPT ![t] = NoOutputs]
    <3>1. u # t => outs'[u][p] = outs[u][p] /\ phase'[u] = phase[u] BY <2>1, <2>2
    <3>2. u = t => outs'[u][p] = "none" BY <2>1, <2>2, Listings
    <3> QED BY <3>1, <3>2
  <2>3. CASE phase' = phase /\ outs' = [outs EXCEPT ![t] = [outs[t] EXCEPT ![o] = Fresh(t)]]
    <3>1. u # t \/ p # o => outs'[u][p] = outs[u][p] BY <2>1, <2>3
    <3>2. outs'[t][o] = Fresh(t) /\ Fresh(t) # "none" BY <1>3, <2>1, <2>3 DEF Fresh
    <3>3. outs' # [outs EXCEPT ![t] = NoOutputs]
      <4>1. [outs EXCEPT ![t] = NoOutputs][t][o] = "none" BY <1>3, <2>1, Listings
      <4> QED BY <3>2, <4>1
    <3> QED BY <1>3, <2>3, <3>1, <3>2, <3>3
  <2> QED BY <1>1, <2>2, <2>3
<1>6. ASSUME NEW u \in Turn, NEW p \in Output PROVE Claims(u, p)'
  <2>1. Claims(u, p) BY DEF KeptInv
  <2>2. Kept(u, p) => Kept(u, p)' BY <1>2, <1>4 DEF Kept
  <2>3. Ended(u)' = Ended(u) /\ InHistory(u)' = InHistory(u) BY <1>2 DEF Ended, InHistory
  <2>4. outs'[u][p] = "pending" => Kept(u, p)' \/ outs'[u][p] = outs[u][p]
    BY <1>2, <1>3, <1>4, <1>5 DEF Kept
  <2>5. outs'[u][p] # "none" =>
          (outs'[u][p] = outs[u][p] /\ phase'[u] = phase[u]) \/ phase'[u] = "logging"
    BY <1>5
  <2> QED BY <1>2, <1>3, <2>1, <2>2, <2>3, <2>4, <2>5 DEF Claims
<1>7. \A u \in Turn : phase'[u] = "logging" => <<"outboxArchive", u>> \in dirs' /\ unlogged' \subseteq files'[u]
  <2>1. \A u \in Turn : phase'[u] = "logging" => phase[u] = "logging"
    BY <1>1 DEF Types
  <2> QED BY <1>1, <1>2, <2>1 DEF KeptInv
<1>8. \A c \in Client : \A p \in mine'[c].chosen : <<mine'[c].turn, p>> \in reported'
  BY <1>2 DEF KeptInv
<1>9. \A u \in Turn, p \in Output : <<"delivered", u, p>> \in ledger' => <<u, p>> \in reported'
  BY <1>2, <1>4 DEF KeptInv
<1> QED BY <1>6, <1>7, <1>8, <1>9 DEF KeptInv

LEMMA AppendHistoryKept ==
  ASSUME Types, KeptInv, tears' = tears, NEW t \in Turn, AppendHistory(t)
  PROVE  KeptInv'
<1>1. UNCHANGED <<recordOuts, mine, record, reported, files, dirs, ledger, unlogged, pruning, retained>>
  BY DEF AppendHistory, records, log, files_, calls, sweep
<1>2. \/ /\ history' = history \cup {<<lines + 1, t>>} /\ historyOuts' = [historyOuts EXCEPT ![t] = outs[t]]
         /\ phase' = [phase EXCEPT ![t] = "retiring"] /\ UNCHANGED outs
      \/ /\ UNCHANGED <<history, historyOuts>> /\ outs' = [outs EXCEPT ![t] = NoOutputs]
         /\ phase' = [phase EXCEPT ![t] = "recording"]
  BY DEF AppendHistory, EndsBare, Appended, Tear, Go, journal, Types
<1>3. phase[t] = "appending" BY DEF AppendHistory
<1>4. /\ phase \in [Turn -> InLock \cup {"new", "running", "ending", "recording", "recovering", "done"}]
      /\ outs \in [Turn -> Listed] /\ historyOuts \in [Turn -> Listed]
  BY DEF Types
<1>5. ASSUME NEW u \in Turn, NEW p \in Output PROVE Claims(u, p)'
  <2>1. Claims(u, p) BY DEF KeptInv
  <2>2. Kept(u, p)' = Kept(u, p) /\ Ended(u)' = Ended(u) BY <1>1 DEF Kept, Ended
  <2>3. CASE u # t
    <3>1. phase'[u] = phase[u] /\ outs'[u] = outs[u] /\ historyOuts'[u] = historyOuts[u] BY <1>2, <1>4, <2>3
    <3>2. InHistory(u)' = InHistory(u) BY <1>2, <2>3 DEF InHistory
    <3> QED BY <1>1, <2>1, <2>2, <3>1, <3>2 DEF Claims
  <2>4. CASE u = t
    <3>1. CASE UNCHANGED <<history, historyOuts>> /\ outs' = [outs EXCEPT ![t] = NoOutputs]
      <4>1. outs'[u][p] = "none" BY <1>4, <2>4, <3>1, Listings
      <4>2. InHistory(u)' = InHistory(u) BY <3>1 DEF InHistory
      <4> QED BY <1>1, <2>1, <2>2, <3>1, <4>1, <4>2 DEF Claims
    <3>2. CASE /\ history' = history \cup {<<lines + 1, t>>} /\ UNCHANGED outs
               /\ historyOuts' = [historyOuts EXCEPT ![t] = outs[t]]
               /\ phase' = [phase EXCEPT ![t] = "retiring"]
      <4>1. InHistory(u)'
        <5>1. <<lines + 1, t>> \in history' /\ <<lines + 1, t>>[2] = u BY <2>4, <3>2
        <5> QED BY <5>1 DEF InHistory
      <4>2. historyOuts'[u] = outs[u] /\ outs'[u] = outs[u] /\ phase'[u] = "retiring" BY <1>4, <2>4, <3>2
      <4> QED BY <1>1, <1>3, <2>1, <2>2, <2>4, <4>1, <4>2 DEF Claims
    <3> QED BY <1>2, <3>1, <3>2
  <2> QED BY <2>3, <2>4
<1>6. \A u \in Turn : phase'[u] = "logging" => phase[u] = "logging" BY <1>2, <1>4
<1> QED BY <1>1, <1>5, <1>6 DEF KeptInv

LEMMA RecordIsKept ==
  ASSUME Types, KeptInv, NEW t \in Turn, Record(t)
  PROVE  KeptInv'
<1>1. /\ recordOuts' = [recordOuts EXCEPT ![t] = outs[t]] /\ record' = [record EXCEPT ![t] = verdict[t]]
      /\ phase[t] = "recording" /\ phase' = [phase EXCEPT ![t] = "done"]
      /\ outs' = [outs EXCEPT ![t] = NoOutputs]
      /\ UNCHANGED <<mine, reported, files, dirs, ledger, unlogged, pruning, retained, history, historyOuts>>
  BY DEF Record, Go, journal, log, files_, calls, sweep
<1>2. /\ phase \in [Turn -> InLock \cup {"new", "running", "ending", "recording", "recovering", "done"}]
      /\ outs \in [Turn -> Listed] /\ recordOuts \in [Turn -> Listed] /\ verdict[t] \in Ends
      /\ record \in [Turn -> Ends \cup {"none", "accepted"}]
  BY DEF Types
<1>3. ASSUME NEW u \in Turn, NEW p \in Output PROVE Claims(u, p)'
  <2>1. Claims(u, p) BY DEF KeptInv
  <2>2. Kept(u, p)' = Kept(u, p) /\ InHistory(u)' = InHistory(u) BY <1>1 DEF Kept, InHistory
  <2>3. (Ended(u) => Ended(u)') /\ (u = t => Ended(u)') BY <1>1, <1>2 DEF Ended, Ends
  <2>4. CASE u # t
    <3>1. phase'[u] = phase[u] /\ outs'[u] = outs[u] /\ recordOuts'[u] = recordOuts[u] BY <1>1, <1>2, <2>4
    <3> QED BY <1>1, <2>1, <2>2, <2>3, <3>1 DEF Claims
  <2>5. CASE u = t
    <3>1. outs'[u][p] = "none" /\ recordOuts'[u] = outs[u] BY <1>1, <1>2, <2>5, Listings
    <3> QED BY <1>1, <2>1, <2>2, <2>3, <2>5, <3>1 DEF Claims
  <2> QED BY <2>4, <2>5
<1>4. \A u \in Turn : phase'[u] = "logging" => phase[u] = "logging" BY <1>1, <1>2
<1> QED BY <1>1, <1>3, <1>4 DEF KeptInv

LEMMA StagingFailsKept ==
  ASSUME IInv, KeptInv, NEW t \in Turn, StagingFails(t)
  PROVE  KeptInv'
<1>1. phase[t] \in {"copying", "moving", "archiving", "opening"} BY Makings DEF StagingFails
<1>2. ~Ended(t) /\ ~InHistory(t)
  BY <1>1 DEF IInv, RecordInv, HistoryInv, Unwritten, Ended, InLock
<1>3. UNCHANGED <<outs, recordOuts, mine, record, reported, ledger, files, unlogged, history,
                  historyOuts, pruning, retained>>
  BY DEF StagingFails, records, journal, log, files_, calls, sweep
<1>4. phase' = [phase EXCEPT ![t] = "ending"] /\ dirs' = dirs \ (Root \X {t}) BY DEF StagingFails, Go
<1>5. \A u \in Turn \ {t} : phase'[u] = phase[u]
        /\ (<<"outboxArchive", u>> \in dirs => <<"outboxArchive", u>> \in dirs')
  BY <1>4 DEF IInv, Types
<1>6. ASSUME NEW u \in Turn, NEW o \in Output PROVE Claims(u, o)'
  <2>1. Claims(u, o) BY DEF KeptInv
  <2>2. InHistory(u)' = InHistory(u) /\ Ended(u)' = Ended(u) BY <1>3 DEF InHistory, Ended
  <2>3. CASE u = t BY <1>1, <1>2, <1>3, <2>1, <2>2, <2>3 DEF Claims
  <2>4. CASE u # t
    <3>1. Kept(u, o) => Kept(u, o)' BY <1>3, <1>5, <2>4 DEF Kept
    <3> QED BY <1>3, <1>5, <2>1, <2>2, <2>4, <3>1 DEF Claims
  <2> QED BY <2>3, <2>4
<1>7. \A u \in Turn : phase'[u] = "logging" => u # t BY <1>4 DEF IInv, Types
<1> QED BY <1>3, <1>5, <1>6, <1>7 DEF KeptInv

LEMMA ReuseKept ==
  ASSUME IInv, KeptInv, NEW t \in Turn, Reuse(t)
  PROVE  KeptInv'
<1>1. UNCHANGED <<recordOuts, mine, record, reported, ledger, files, dirs, unlogged, history,
                  historyOuts, pruning, retained>>
  BY DEF Reuse, records, journal, log, files_, calls, sweep
<1>2. /\ phase' = [phase EXCEPT ![t] = "recording"]
      /\ \/ outs' = [outs EXCEPT ![t] = historyOuts[t]]
         \/ outs' = [outs EXCEPT ![t] = NoOutputs]
      /\ phase \in [Turn -> InLock \cup {"new", "running", "ending", "recording", "recovering", "done"}]
      /\ outs \in [Turn -> Listed]
  BY DEF Reuse, EndsBare, Go, IInv, Types
<1>3. InHistory(t) BY DEF Reuse, IInv, RecordInv
<1>4. ASSUME NEW u \in Turn, NEW o \in Output PROVE Claims(u, o)'
  <2>1. Claims(u, o) BY DEF KeptInv
  <2>2. InHistory(u)' = InHistory(u) /\ Ended(u)' = Ended(u) /\ Kept(u, o)' = Kept(u, o)
    BY <1>1 DEF InHistory, Ended, Kept
  <2>3. CASE u = t
    <3>1. phase'[u] = "recording" BY <1>2, <2>3
    <3>2. outs'[u] = historyOuts[u] \/ outs'[u][o] = "none" BY <1>2, <2>3, Listings
    <3> QED BY <1>1, <1>3, <2>1, <2>2, <2>3, <3>1, <3>2 DEF Claims
  <2>4. CASE u # t
    <3>1. phase'[u] = phase[u] /\ outs'[u] = outs[u] BY <1>2, <2>4
    <3> QED BY <1>1, <2>1, <2>2, <3>1 DEF Claims
  <2> QED BY <2>3, <2>4
<1>5. \A u \in Turn : phase'[u] = "logging" => phase[u] = "logging" BY <1>2
<1> QED BY <1>1, <1>4, <1>5 DEF KeptInv

(* The two removals that follow the append. *)
LEMMA RemovalKept ==
  ASSUME Types, KeptInv, NEW t \in Turn, Retire(t) \/ ClearInbox(t)
  PROVE  KeptInv'
<1>1. UNCHANGED <<recordOuts, mine, record, reported, ledger, files, unlogged, history, historyOuts,
                  pruning, retained>>
  BY DEF Retire, ClearInbox, records, journal, log, files_, calls, sweep
<1>2. /\ phase' \in {[phase EXCEPT ![t] = "clearing"], [phase EXCEPT ![t] = "recording"]}
      /\ outs' \in {outs, [outs EXCEPT ![t] = NoOutputs]}
  BY DEF Retire, ClearInbox, EndsBare, Go
<1>3. /\ phase \in [Turn -> InLock \cup {"new", "running", "ending", "recording", "recovering", "done"}]
      /\ outs \in [Turn -> Listed] /\ phase[t] \in {"retiring", "clearing"}
  BY DEF Types, Retire, ClearInbox
<1>4. \A u \in Turn : <<"outboxArchive", u>> \in dirs => <<"outboxArchive", u>> \in dirs'
  BY DEF Retire, ClearInbox
<1>5. ASSUME NEW u \in Turn, NEW o \in Output PROVE Claims(u, o)'
  <2>1. Claims(u, o) BY DEF KeptInv
  <2>2. InHistory(u)' = InHistory(u) /\ Ended(u)' = Ended(u) /\ (Kept(u, o) => Kept(u, o)')
    BY <1>1, <1>4 DEF InHistory, Ended, Kept
  <2>3. outs'[u][o] = outs[u][o] \/ outs'[u][o] = "none" BY <1>2, <1>3, Listings
  <2>4. phase'[u] = phase[u] \/ (phase[u] \in {"retiring", "clearing"} /\ phase'[u] \in {"clearing", "recording"})
    BY <1>2, <1>3
  <2> QED BY <1>1, <2>1, <2>2, <2>3, <2>4 DEF Claims
<1>6. \A u \in Turn : phase'[u] = "logging" => phase[u] = "logging" BY <1>2, <1>3
<1> QED BY <1>1, <1>4, <1>5, <1>6 DEF KeptInv

LEMMA TurnKept ==
  ASSUME IInv, KeptInv, ledgerEnd = "whole", tears' = tears, NEW t \in Turn,
         Submit(t) \/ AgentWrites(t) \/ TurnSteps(t)
  PROVE  KeptInv'
<1>0. /\ phase \in [Turn -> InLock \cup {"new", "running", "ending", "recording", "recovering", "done"}]
      /\ record \in [Turn -> Ends \cup {"none", "accepted"}] /\ files \in [Turn -> SUBSET Output]
      /\ record[t] = "none" <=> phase[t] = "new"
  BY DEF IInv, Types, RecordInv
<1> USE DEF turn, files_, sweep, records, journal, log, calls, Go, Ended
<1>1. CASE Submit(t) BY <1>0, <1>1, CallMoves DEF Submit
<1>2. CASE AgentWrites(t) BY <1>0, <1>2, CallMoves DEF AgentWrites
<1>3. CASE Stage(t) BY <1>0, <1>3, Makings, CallMoves DEF Stage
<1>4. CASE StagingFails(t) BY <1>4, StagingFailsKept
<1>5. CASE Activate(t)
  <2>1. ledger' = ledger BY <1>5 DEF Activate, LogLine, LogFails
  <2> QED BY <1>0, <1>5, <2>1, CallMoves DEF Activate
<1>6. CASE End(t) BY <1>0, <1>6, CallMoves DEF End
<1>7. CASE LookUp(t) BY <1>0, <1>7, CallMoves DEF LookUp
<1>8. CASE Reuse(t) BY <1>8, ReuseKept
<1>9. CASE Collect(t) BY <1>9, CollectKept DEF IInv
<1>10. CASE LogOutput(t) BY <1>10, LogOutputKept DEF IInv
<1>11. CASE OutputsLogged(t) BY <1>0, <1>11, CallMoves DEF OutputsLogged
<1>12. CASE AppendHistory(t) BY <1>12, AppendHistoryKept DEF IInv
<1>13. CASE Retire(t) \/ ClearInbox(t) BY <1>13, RemovalKept DEF IInv
<1>15. CASE Record(t) BY <1>15, RecordIsKept DEF IInv
<1>16. CASE Recover(t) BY <1>0, <1>16, CallMoves DEF Recover
<1> QED
  BY <1>1, <1>2, <1>3, <1>4, <1>5, <1>6, <1>7, <1>8, <1>9, <1>10, <1>11, <1>12, <1>13, <1>15,
     <1>16 DEF TurnSteps, FinishTurn

(* What a step of an acknowledgement does to the copies and to the ledger. *)
LEMMA AckWrites ==
  ASSUME Types, ledgerEnd = "whole", NEW c \in Client, AckLogs(c)
  PROVE  /\ UNCHANGED <<outs, phase, recordOuts, record, reported, files, dirs, unlogged, pruning,
                        retained, history, historyOuts>>
         /\ \A d \in Client : \/ mine'[d].turn = mine[d].turn /\ mine'[d].chosen = mine[d].chosen
                              \/ mine'[d] = NoAck
         /\ \A d \in Client, p \in Output :
              \/ mine'[d].turn = mine[d].turn /\ mine'[d].outs[p] = mine[d].outs[p]
              \/ /\ mine'[d].turn = mine[d].turn /\ mine'[d].outs[p] = "delivered"
                 /\ mine[d].outs[p] = "pending" /\ <<"delivered", mine[d].turn, p>> \in ledger'
              \/ mine'[d].outs[p] = "none"
         /\ \E p \in mine[c].chosen :
              ledger' \in {ledger, ledger \cup {<<"delivered", mine[c].turn, p>>}}
<1>1. PICK o \in Undelivered(c) :
        \/ /\ ledger' = ledger \cup {<<"delivered", mine[c].turn, o>>}
           /\ mine' = [mine EXCEPT ![c] = [mine[c] EXCEPT !.outs = [mine[c].outs EXCEPT ![o] = "delivered"]]]
        \/ ledger' = ledger /\ mine' = [mine EXCEPT ![c] = NoAck]
  BY DEF AckLogs, LogLine, LogFails
<1>2. /\ mine \in [Client -> Copy] /\ mine[c] \in Copy /\ mine[c].outs \in [Output -> Status]
      /\ o \in mine[c].chosen /\ o \in Output /\ mine[c].outs[o] = "pending"
  BY DEF Types, Undelivered, Copy, Listed
<1>3. UNCHANGED <<outs, phase, recordOuts, record, reported, files, dirs, unlogged, pruning, retained,
                  history, historyOuts>>
  BY DEF AckLogs, turn, records, files_, sweep, journal
<1>4. CASE ledger' = ledger /\ mine' = [mine EXCEPT ![c] = NoAck]
  <2>1. \A d \in Client : mine'[d] = mine[d] \/ mine'[d] = NoAck BY <1>2, <1>4
  <2> QED BY <1>2, <1>3, <1>4, <2>1, Listings
<1>5. CASE /\ ledger' = ledger \cup {<<"delivered", mine[c].turn, o>>}
           /\ mine' = [mine EXCEPT ![c] = [mine[c] EXCEPT !.outs = [mine[c].outs EXCEPT ![o] = "delivered"]]]
  <2>1. \A d \in Client \ {c} : mine'[d] = mine[d] BY <1>2, <1>5
  <2>2. /\ mine'[c].turn = mine[c].turn /\ mine'[c].chosen = mine[c].chosen
        /\ mine'[c].outs = [mine[c].outs EXCEPT ![o] = "delivered"]
    BY <1>2, <1>5 DEF Copy
  <2>3. \A p \in Output : mine'[c].outs[p] = IF p = o THEN "delivered" ELSE mine[c].outs[p]
    BY <1>2, <2>2
  <2>4. <<"delivered", mine[c].turn, o>> \in ledger' BY <1>5
  <2>5. ASSUME NEW d \in Client, NEW p \in Output
        PROVE  \/ mine'[d].turn = mine[d].turn /\ mine'[d].outs[p] = mine[d].outs[p]
               \/ /\ mine'[d].turn = mine[d].turn /\ mine'[d].outs[p] = "delivered"
                  /\ mine[d].outs[p] = "pending" /\ <<"delivered", mine[d].turn, p>> \in ledger'
    <3>1. CASE d = c BY <1>2, <2>2, <2>3, <2>4, <3>1
    <3>2. CASE d # c BY <2>1, <3>2
    <3> QED BY <3>1, <3>2
  <2>6. \A d \in Client : mine'[d].turn = mine[d].turn /\ mine'[d].chosen = mine[d].chosen
    BY <2>1, <2>2
  <2> QED BY <1>2, <1>3, <1>5, <2>5, <2>6
<1> QED BY <1>1, <1>4, <1>5

LEMMA AckLogsKept ==
  ASSUME Types, KeptInv, ledgerEnd = "whole", NEW c \in Client, AckLogs(c)
  PROVE  KeptInv'
<1>1. UNCHANGED <<outs, phase, recordOuts, record, reported, files, dirs, unlogged, pruning,
                  retained, history, historyOuts>>
  BY AckWrites
<1>2. /\ ledger \subseteq ledger'
      /\ \A u \in Turn, p \in Output :
           /\ <<"pending", u, p>> \in ledger' => <<"pending", u, p>> \in ledger
           /\ <<"delivered", u, p>> \in ledger' => <<u, p>> \in reported
  <2>1. PICK q \in mine[c].chosen : ledger' \in {ledger, ledger \cup {<<"delivered", mine[c].turn, q>>}}
    BY AckWrites
  <2>2. <<mine[c].turn, q>> \in reported BY DEF KeptInv
  <2> QED BY <2>1, <2>2 DEF KeptInv
<1>3. ASSUME NEW u \in Turn, NEW p \in Output PROVE Claims(u, p)'
  <2>1. Claims(u, p) BY DEF KeptInv
  <2>2. \A d \in Client : mine'[d].turn = u /\ mine'[d].outs[p] # "none" =>
          /\ mine[d].turn = u /\ mine[d].outs[p] # "none"
          /\ mine'[d].outs[p] = "pending" => mine[d].outs[p] = "pending"
    BY AckWrites
  <2>3. (Kept(u, p) => Kept(u, p)') /\ Ended(u)' = Ended(u) /\ InHistory(u)' = InHistory(u)
    BY <1>1, <1>2 DEF Kept, Ended, InHistory
  <2> QED BY <1>1, <1>2, <2>1, <2>2, <2>3 DEF Claims
<1>4. ASSUME NEW d \in Client, NEW p \in mine'[d].chosen PROVE <<mine'[d].turn, p>> \in reported'
  BY <1>1, AckWrites, Listings DEF KeptInv
<1> QED BY <1>1, <1>2, <1>3, <1>4 DEF KeptInv

LEMMA AckReadsKept ==
  ASSUME Types, KeptInv, NEW c \in Client, AckReads(c)
  PROVE  KeptInv'
<1>1. PICK t \in Turn, chosen \in SUBSET Output :
        /\ Ended(t) /\ reported' = reported \cup ({t} \X chosen)
        /\ mine' = [mine EXCEPT ![c] = [turn |-> t, chosen |-> chosen, outs |-> recordOuts[t]]]
  BY DEF AckReads
<1>2. UNCHANGED <<outs, phase, recordOuts, record, ledger, files, dirs, unlogged, history, historyOuts,
                  pruning, retained>>
  BY DEF AckReads, turn, records, files_, sweep, journal, log
<1>3. /\ \A d \in Client \ {c} : mine'[d] = mine[d]
      /\ mine'[c].turn = t /\ mine'[c].chosen = chosen /\ mine'[c].outs = recordOuts[t]
  BY <1>1 DEF Types
<1>4. ASSUME NEW u \in Turn, NEW o \in Output PROVE Claims(u, o)'
  <2>1. Claims(u, o) BY DEF KeptInv
  <2>2. InHistory(u)' = InHistory(u) /\ Ended(u)' = Ended(u) /\ Kept(u, o)' = Kept(u, o)
    BY <1>2 DEF InHistory, Ended, Kept
  <2>3. \A d \in Client : mine'[d].turn = u =>
          (mine[d].turn = u /\ mine'[d].outs = mine[d].outs) \/ mine'[d].outs = recordOuts[u]
    BY <1>3
  <2>4. <<u, o>> \notin reported' => <<u, o>> \notin reported BY <1>1
  <2> QED BY <1>2, <2>1, <2>2, <2>3, <2>4 DEF Claims
<1>5. \A d \in Client : \A o \in mine'[d].chosen : <<mine'[d].turn, o>> \in reported'
  BY <1>1, <1>3 DEF KeptInv
<1>6. \A u \in Turn, o \in Output : <<"delivered", u, o>> \in ledger' => <<u, o>> \in reported'
  BY <1>1, <1>2 DEF KeptInv
<1> QED BY <1>2, <1>4, <1>5, <1>6 DEF KeptInv

LEMMA AckPersistsKept ==
  ASSUME Types, KeptInv, NEW c \in Client, AckPersists(c)
  PROVE  KeptInv'
<1>1. UNCHANGED <<outs, phase, record, reported, ledger, files, dirs, unlogged, history, historyOuts,
                  pruning, retained>>
  BY DEF AckPersists, turn, files_, sweep, journal, log
<1>2. /\ \A d \in Client : mine'[d] \in {mine[d], NoAck}
      /\ \A u \in Turn : recordOuts'[u] = recordOuts[u]
                         \/ (u = mine[c].turn /\ recordOuts'[u] = mine[c].outs)
  BY DEF AckPersists, Types
<1>3. ASSUME NEW u \in Turn, NEW o \in Output PROVE Claims(u, o)'
  <2>1. Claims(u, o) BY DEF KeptInv
  <2>2. InHistory(u)' = InHistory(u) /\ Ended(u)' = Ended(u) /\ Kept(u, o)' = Kept(u, o)
    BY <1>1 DEF InHistory, Ended, Kept
  <2>3. recordOuts'[u][o] # "none" =>
          \/ recordOuts'[u][o] = recordOuts[u][o]
          \/ mine[c].turn = u /\ recordOuts'[u][o] = mine[c].outs[o]
    BY <1>2
  <2>4. \A d \in Client : mine'[d] = mine[d] \/ mine'[d].outs[o] = "none" BY <1>2, Listings
  <2> QED BY <1>1, <2>1, <2>2, <2>3, <2>4 DEF Claims
<1>4. \A d \in Client : \A o \in mine'[d].chosen : <<mine'[d].turn, o>> \in reported'
  BY <1>1, <1>2, Listings DEF KeptInv
<1> QED BY <1>1, <1>3, <1>4 DEF KeptInv

LEMMA AckKept ==
  ASSUME IInv, KeptInv, ledgerEnd = "whole", tears' = tears, NEW c \in Client,
         AckReads(c) \/ AckSteps(c)
  PROVE  KeptInv'
<1>1. CASE AckReads(c) BY <1>1, AckReadsKept DEF IInv
<1>2. CASE AckLogs(c) BY <1>2, AckLogsKept DEF IInv
<1>3. CASE AckLogged(c)
  BY <1>3, CallMoves DEF AckLogged, turn, files_, sweep, records, journal, log, Ended
<1>4. CASE AckPersists(c) BY <1>4, AckPersistsKept DEF IInv
<1> QED BY <1>1, <1>2, <1>3, <1>4 DEF AckSteps

(* The steps of a prune keep what is listed; what it still retains is kept. *)
LEMMA PruneMoves ==
  ASSUME KeptInv, \A t \in Turn : phase[t] = "logging" => UNCHANGED <<dirs, files>>,
         UNCHANGED <<outs, phase, recordOuts, record, mine, reported, unlogged, historyOuts>>,
         \A t \in Turn, o \in Output :
           <<"delivered", t, o>> \in ledger' => <<"delivered", t, o>> \in ledger,
         \A t \in Turn : InHistory(t)' => InHistory(t),
         \A t \in Turn, o \in Output : <<t, o>> \notin reported =>
           /\ Kept(t, o) => (Kept(t, o)' /\ (InHistory(t) => InHistory(t)'))
           /\ pruning' \notin {"idle", "reading"} /\ <<"pending", t, o>> \in ledger' => t \in retained'
  PROVE  KeptInv'
<1>1. ASSUME NEW t \in Turn, NEW o \in Output PROVE Claims(t, o)'
  <2>1. Claims(t, o) BY DEF KeptInv
  <2>2. outs[t][o] # "none" => phase[t] \in {"logging", "appending", "retiring", "clearing", "recording"}
    BY <2>1 DEF Claims
  <2>3. Ended(t)' = Ended(t) BY DEF Ended
  <2> QED BY <2>1, <2>2, <2>3, ClaimsStay
<1> QED BY <1>1 DEF KeptInv

LEMMA PruneKept ==
  ASSUME IInv, KeptInv, ledgerEnd = "whole", PruneSteps
  PROVE  KeptInv'
<1>0. \A t \in Turn, o \in Output :
        <<t, o>> \notin reported /\ pruning \notin {"idle", "reading"} /\ <<"pending", t, o>> \in ledger =>
          t \in retained
  BY DEF KeptInv, Claims
<1> USE DEF turn, files_, records, calls
<1>1. CASE PruneDue \/ PruneEnds
  <2>1. UNCHANGED <<outs, phase, recordOuts, record, mine, reported, unlogged, historyOuts, ledger, dirs,
                    files, history>> /\ pruning' \in {"idle", "reading"}
    BY <1>1 DEF PruneDue, PruneEnds, journal, log
  <2> QED BY <2>1, PruneMoves DEF Kept, InHistory
<1>2. CASE PruneReads
  <2>1. UNCHANGED <<outs, phase, recordOuts, record, mine, reported, unlogged, historyOuts, ledger, dirs,
                    files, history>>
    BY <1>2 DEF PruneReads, journal, log
  <2>2. ASSUME NEW t \in Turn, NEW o \in Output, <<t, o>> \notin reported, <<"pending", t, o>> \in ledger
        PROVE  t \in retained'
    <3>1. <<"pending", t, o>> \in Pending BY <2>2, WhatIsPending DEF KeptInv
    <3>2. retained' = {l[2] : l \in Pending} BY <1>2 DEF PruneReads
    <3> QED BY <3>1, <3>2
  <2> QED BY <2>1, <2>2, PruneMoves DEF Kept, InHistory
<1>3. CASE PruneHistory
  <2>1. UNCHANGED <<outs, phase, recordOuts, record, mine, reported, unlogged, historyOuts, ledger, dirs,
                    files>> /\ retained \subseteq retained' /\ pruning \notin {"idle", "reading"}
    BY <1>3 DEF PruneHistory, log
  <2>2. history' \subseteq history /\ \A l \in history : l[2] \in retained => l \in history'
    BY <1>3 DEF PruneHistory, Keeps
  <2>3. \A t \in Turn : (InHistory(t)' => InHistory(t)) /\ (t \in retained /\ InHistory(t) => InHistory(t)')
    BY <2>2 DEF InHistory
  <2>4. \A t \in Turn, o \in Output : <<t, o>> \notin reported /\ Kept(t, o) => t \in retained
    BY <1>0, <2>1 DEF Kept
  <2>5. \A t \in Turn, o \in Output : <<t, o>> \notin reported /\ InHistory(t) =>
          InHistory(t)' \/ t \notin retained
    BY <2>3
  <2>6. ASSUME NEW t \in Turn, NEW o \in Output PROVE Claims(t, o)'
    <3>1. Claims(t, o) BY DEF KeptInv
    <3>2. Kept(t, o)' = Kept(t, o) /\ Ended(t)' = Ended(t) BY <2>1 DEF Kept, Ended
    <3> QED BY <1>0, <2>1, <2>3, <2>4, <3>1, <3>2 DEF Claims
  <2> QED BY <2>1, <2>6 DEF KeptInv
<1>4. CASE PruneActive
  <2>1. UNCHANGED <<outs, phase, recordOuts, record, mine, reported, unlogged, historyOuts, ledger, dirs,
                    files, history>> /\ retained \subseteq retained' /\ pruning \notin {"idle", "reading"}
    BY <1>4 DEF PruneActive, journal, log
  <2> QED BY <1>0, <2>1, PruneMoves DEF Kept, InHistory
<1>5. CASE PruneLedger
  <2>1. UNCHANGED <<outs, phase, recordOuts, record, mine, reported, unlogged, historyOuts, dirs, files,
                    history, retained>> /\ pruning \notin {"idle", "reading"}
    BY <1>5 DEF PruneLedger, journal
  <2>2. \A t \in Turn, o \in Output :
          /\ <<"delivered", t, o>> \in ledger' => <<"delivered", t, o>> \in ledger
          /\ <<"pending", t, o>> \in ledger' <=> <<"pending", t, o>> \in ledger /\ t \in retained
    BY <1>5 DEF PruneLedger
  <2>3. \A t \in Turn, o \in Output : <<t, o>> \notin reported =>
          (Kept(t, o) => Kept(t, o)') /\ (<<"pending", t, o>> \in ledger' => t \in retained')
    BY <1>0, <2>1, <2>2 DEF Kept
  <2>4. \A t \in Turn : InHistory(t)' = InHistory(t) BY <2>1 DEF InHistory
  <2> QED BY <2>1, <2>2, <2>3, <2>4, PruneMoves
<1>6. CASE PruneRemoves
  <2>1. PICK d \in Unreferenced :
          /\ dirs' = dirs \ {d}
          /\ files' = IF d[1] \in {"outbox", "outboxArchive"} THEN [files EXCEPT ![d[2]] = {}] ELSE files
    BY <1>6 DEF PruneRemoves
  <2>2. UNCHANGED <<outs, phase, recordOuts, record, mine, reported, ledger, unlogged, retained,
                    history, historyOuts>> /\ pruning = "dirs" /\ pruning' = "dirs"
    BY <1>6 DEF PruneRemoves, sweep, journal, log
  <2>3. \A t \in Turn : phase[t] # "logging"
    BY <1>6, OneInside DEF PruneRemoves, Entered, InLock, IInv
  <2>4. d = <<d[1], d[2]>> /\ d[2] \in Turn /\ (d[2] \notin retained \/ d[1] = "stage")
    BY DEF Unreferenced, IInv, Types
  <2>5. ASSUME NEW t \in Turn, t \in retained
        PROVE  files'[t] = files[t] /\ (<<"outboxArchive", t>> \in dirs => <<"outboxArchive", t>> \in dirs')
    BY <2>1, <2>4, <2>5 DEF IInv, Types
  <2>6. \A t \in Turn, o \in Output : <<t, o>> \notin reported /\ Kept(t, o) => Kept(t, o)'
    BY <1>0, <2>2, <2>5 DEF Kept
  <2>7. \A t \in Turn : InHistory(t)' = InHistory(t) BY <2>2 DEF InHistory
  <2> QED BY <1>0, <2>2, <2>3, <2>6, <2>7, PruneMoves
<1> QED BY <1>1, <1>2, <1>3, <1>4, <1>5, <1>6 DEF PruneSteps

LEMMA CrashKept == ASSUME Types, KeptInv, Crash PROVE KeptInv'
<1>1. /\ \A c \in Client : mine'[c] = NoAck
      /\ \A t \in Turn, o \in Output : outs'[t][o] = "none"
      /\ pruning' = "idle" /\ \A t \in Turn : phase'[t] \in {"new", "recovering", "done"}
  BY Listings DEF Crash
<1>2. UNCHANGED <<recordOuts, record, reported, files, dirs, ledger, history, historyOuts>>
  BY DEF Crash, records, journal, log, files_
<1>3. ASSUME NEW t \in Turn, NEW o \in Output PROVE Claims(t, o)'
  <2>1. Claims(t, o) BY DEF KeptInv
  <2>2. Kept(t, o)' = Kept(t, o) /\ Ended(t)' = Ended(t) /\ InHistory(t)' = InHistory(t)
    BY <1>2 DEF Kept, Ended, InHistory
  <2> QED BY <1>1, <1>2, <2>1, <2>2, Listings DEF Claims
<1> QED BY <1>1, <1>2, <1>3, Listings DEF KeptInv

LEMMA KeptKept ==
  ASSUME IInv, KeptInv, ledgerEnd = "whole", tears' = tears, [Next]_vars
  PROVE  KeptInv'
<1>1. CASE Serve \/ UNCHANGED vars
  <2>1. UNCHANGED <<outs, phase, recordOuts, record, mine, reported, files, dirs, ledger, unlogged,
                    pruning, retained, history, historyOuts>>
    BY <1>1 DEF Serve, vars, turn, files_, sweep, records, journal, log, calls
  <2> QED BY <2>1 DEF KeptInv, Claims, Kept, Ended, InHistory
<1> QED BY <1>1, TurnKept, AckKept, PruneKept, CrashKept DEF Next, IInv

(* What is delivered. *)
LEMMA StaysLetGo ==
  ASSUME NEW t \in Turn, NEW o \in Output, LetGo(t, o), Ended(t) => Ended(t)',
         <<"pending", t, o>> \in ledger' =>
           /\ <<"pending", t, o>> \in ledger
           /\ <<"delivered", t, o>> \in ledger => <<"delivered", t, o>> \in ledger'
  PROVE  LetGo(t, o)'
<1>1. <<"pending", t, o>> \notin Pending' BY WhatIsPending DEF LetGo, Pending
<1> QED BY <1>1 DEF LetGo

(* The outputs of a call that is going on, and those of the history, are not delivered. *)
LEMMA TurnDelivered ==
  ASSUME IInv, DeliveredInv, NEW t \in Turn, Submit(t) \/ AgentWrites(t) \/ TurnSteps(t)
  PROVE  DeliveredInv'
<1>1. /\ UNCHANGED mine
      /\ \A u \in Turn, p \in Output :
           <<"pending", u, p>> \in ledger' => <<"pending", u, p>> \in ledger \/ (u = t /\ ~Ended(t))
      /\ ledger \subseteq ledger'
  <2>1. CASE LogOutput(t)
    <3>1. ~Ended(t) BY <2>1 DEF LogOutput, IInv, RecordInv, Ended
    <3> QED BY <2>1, <3>1 DEF LogOutput, LogLine, LogFails, calls
  <2>2. CASE Activate(t) BY <2>2 DEF Activate, LogLine, LogFails, calls
  <2>3. CASE ~LogOutput(t) /\ ~Activate(t)
    <3>1. UNCHANGED mine /\ ledger' = ledger
      BY <2>3 DEF Submit, AgentWrites, TurnSteps, FinishTurn, Stage, StagingFails, End, LookUp, Reuse,
                  Collect, OutputsLogged, AppendHistory, Retire, ClearInbox, Record, Recover, calls, log
    <3> QED BY <3>1
  <2> QED BY <2>1, <2>2, <2>3
<1>2. /\ \A u \in Turn, p \in Output : recordOuts'[u][p] \in {recordOuts[u][p], outs[u][p]}
      /\ \A u \in Turn : Ended(u) => Ended(u)'
  <2>1. CASE Record(t)
    <3>1. verdict[t] \in Ends BY DEF IInv, Types
    <3> QED BY <2>1, <3>1 DEF Record, Ended, Ends, IInv, Types
  <2>2. CASE Submit(t) BY <2>2 DEF Submit, Ended, IInv, Types, RecordInv
  <2>3. CASE ~Record(t) /\ ~Submit(t)
    <3>1. UNCHANGED <<record, recordOuts>>
      BY <2>3 DEF AgentWrites, TurnSteps, FinishTurn, Stage, StagingFails, Activate, End, LookUp, Reuse,
                  Collect, LogOutput, OutputsLogged, AppendHistory, Retire, ClearInbox, Recover, records
    <3> QED BY <3>1 DEF Ended
  <2> QED BY <2>1, <2>2, <2>3
<1>3. \A u \in Turn, p \in Output :
        /\ outs'[u][p] \in {outs[u][p], historyOuts[u][p], "none", "pending", "discarded"}
        /\ historyOuts'[u][p] \in {historyOuts[u][p], outs[u][p]}
  <2> USE DEF IInv, Types, Listed
  <2>1. CASE Reuse(t) \/ Retire(t) \/ ClearInbox(t)
    <3>1. outs' \in {outs, [outs EXCEPT ![t] = historyOuts[t]], [outs EXCEPT ![t] = NoOutputs]}
          /\ UNCHANGED historyOuts
      BY <2>1 DEF Reuse, Retire, ClearInbox, EndsBare, journal
    <3>2. outs \in [Turn -> Listed] /\ historyOuts \in [Turn -> Listed] OBVIOUS
    <3> HIDE DEF IInv, Types, Listed
    <3> QED BY <3>1, <3>2, Listings
  <2>2. CASE LogOutput(t)
    <3>1. PICK o \in Output : \/ outs' = [outs EXCEPT ![t] = [outs[t] EXCEPT ![o] = Fresh(t)]]
                             \/ outs' = [outs EXCEPT ![t] = NoOutputs]
      BY <2>2 DEF LogOutput
    <3>2. UNCHANGED historyOuts /\ Fresh(t) \in {"pending", "discarded"} BY <2>2 DEF LogOutput, journal, Fresh
    <3>3. ASSUME NEW u \in Turn, NEW p \in Output
          PROVE  outs'[u][p] \in {outs[u][p], "none", "pending", "discarded"}
      <4>1. CASE outs' = [outs EXCEPT ![t] = NoOutputs] BY <4>1, Listings
      <4>2. CASE outs' = [outs EXCEPT ![t] = [outs[t] EXCEPT ![o] = Fresh(t)]]
        <5>1. u # t => outs'[u] = outs[u] BY <4>2
        <5>2. u = t => outs'[u] = [outs[t] EXCEPT ![o] = Fresh(t)] BY <4>2
        <5>3. outs[t] \in [Output -> Status] OBVIOUS
        <5> HIDE DEF IInv, Types, Listed
        <5> QED BY <3>2, <5>1, <5>2, <5>3
      <4> QED BY <3>1, <4>1, <4>2
    <3> QED BY <3>2, <3>3
  <2>3. CASE AppendHistory(t)
    <3>1. outs' \in {outs, [outs EXCEPT ![t] = NoOutputs]}
          /\ historyOuts' \in {historyOuts, [historyOuts EXCEPT ![t] = outs[t]]}
      BY <2>3 DEF AppendHistory, EndsBare, Appended, journal
    <3>2. outs \in [Turn -> Listed] /\ historyOuts \in [Turn -> Listed] OBVIOUS
    <3> HIDE DEF IInv, Types, Listed
    <3>3. \A u \in Turn, p \in Output : outs'[u][p] \in {outs[u][p], "none"} BY <3>1, <3>2, Listings
    <3>4. \A u \in Turn, p \in Output : historyOuts'[u][p] \in {historyOuts[u][p], outs[u][p]} BY <3>1, <3>2
    <3> QED BY <3>3, <3>4
  <2>4. CASE Record(t) BY <2>4, Listings DEF Record, journal
  <2>5. CASE ~Reuse(t) /\ ~Retire(t) /\ ~ClearInbox(t) /\ ~LogOutput(t) /\ ~AppendHistory(t) /\ ~Record(t)
    <3>1. UNCHANGED <<outs, historyOuts>>
      BY <2>5 DEF Submit, AgentWrites, TurnSteps, FinishTurn, Stage, StagingFails, Activate, End, LookUp,
                  Collect, OutputsLogged, Recover, journal, turn
    <3> QED BY <3>1
  <2> QED BY <2>1, <2>2, <2>3, <2>4, <2>5
<1>4. \A u \in Turn, p \in Output : LetGo(u, p) => LetGo(u, p)'
  BY <1>1, <1>2, StaysLetGo DEF LetGo
<1> QED BY <1>1, <1>2, <1>3, <1>4 DEF DeliveredInv

LEMMA DeliveredKept ==
  ASSUME IInv, KeptInv, DeliveredInv, ledgerEnd = "whole", tears' = tears, [Next]_vars
  PROVE  DeliveredInv'
<1>1. ASSUME NEW c \in Client, AckReads(c) PROVE DeliveredInv'
  <2>1. UNCHANGED <<record, recordOuts, ledger, outs, historyOuts>>
    BY <1>1 DEF AckReads, records, log, turn, journal
  <2>2. \A d \in Client : mine'[d] = mine[d] \/ mine'[d].outs = recordOuts[mine'[d].turn]
    BY <1>1 DEF AckReads, IInv, Types
  <2>3. \A u \in Turn, p \in Output : LetGo(u, p)' = LetGo(u, p) BY <2>1 DEF LetGo, Ended, Pending
  <2> QED BY <2>1, <2>2, <2>3 DEF DeliveredInv
<1>2. ASSUME NEW c \in Client, AckLogs(c) PROVE DeliveredInv'
  <2>1. UNCHANGED <<record, recordOuts, outs>> /\ historyOuts' = historyOuts
    BY <1>2, AckWrites DEF IInv
  <2>2. /\ ledger \subseteq ledger'
        /\ \A u \in Turn, p \in Output : <<"pending", u, p>> \in ledger' => <<"pending", u, p>> \in ledger
    <3>1. PICK q \in mine[c].chosen : ledger' \in {ledger, ledger \cup {<<"delivered", mine[c].turn, q>>}}
      BY <1>2, AckWrites DEF IInv
    <3> QED BY <3>1
  <2>3. \A u \in Turn, p \in Output : LetGo(u, p) => LetGo(u, p)' BY <2>1, <2>2, StaysLetGo DEF Ended
  <2>4. ASSUME NEW d \in Client, NEW p \in Output, NEW u \in Turn, mine'[d].turn = u,
               mine'[d].outs[p] = "delivered"
        PROVE  LetGo(u, p)'
    <3>1. mine[d].turn = u
      BY <1>2, <2>4, AckWrites, Listings DEF IInv
    <3>2. CASE mine[d].outs[p] = "delivered" BY <2>3, <3>1, <3>2 DEF DeliveredInv
    <3>3. CASE mine[d].outs[p] = "pending" /\ <<"delivered", u, p>> \in ledger'
      <4>1. <<"pending", u, p>> \notin Pending' BY <3>3 DEF Pending
      <4>2. Ended(u)' BY <2>1, <3>1, <3>3 DEF KeptInv, Claims, Ended
      <4> QED BY <4>1, <4>2 DEF LetGo
    <3>4. mine[d].outs[p] = "delivered" \/ (mine[d].outs[p] = "pending" /\ <<"delivered", u, p>> \in ledger')
      <4>1. \/ mine'[d].outs[p] = mine[d].outs[p]
            \/ mine[d].outs[p] = "pending" /\ <<"delivered", mine[d].turn, p>> \in ledger'
            \/ mine'[d].outs[p] = "none"
        BY <1>2, AckWrites DEF IInv
      <4> QED BY <2>4, <3>1, <4>1
    <3> QED BY <3>2, <3>3, <3>4
  <2> QED BY <2>1, <2>3, <2>4 DEF DeliveredInv
<1>3. ASSUME NEW c \in Client, AckLogged(c) PROVE DeliveredInv'
  <2>1. UNCHANGED <<record, recordOuts, ledger, outs, historyOuts, mine>>
    BY <1>3 DEF AckLogged, records, log, turn, journal
  <2> QED BY <2>1 DEF DeliveredInv, LetGo, Ended, Pending
<1>4. ASSUME NEW c \in Client, AckPersists(c) PROVE DeliveredInv'
  <2>1. UNCHANGED <<record, ledger, outs, historyOuts>>
    BY <1>4 DEF AckPersists, log, turn, journal
  <2>2. /\ \A d \in Client : mine'[d] \in {mine[d], NoAck}
        /\ \A u \in Turn : recordOuts'[u] = recordOuts[u] \/ (u = mine[c].turn /\ recordOuts'[u] = mine[c].outs)
    BY <1>4 DEF AckPersists, IInv, Types
  <2>3. \A u \in Turn, p \in Output : LetGo(u, p)' = LetGo(u, p) BY <2>1 DEF LetGo, Ended, Pending
  <2> QED BY <2>1, <2>2, <2>3, Listings DEF DeliveredInv
<1>5. CASE PruneSteps
  <2>1. UNCHANGED <<record, recordOuts, outs, historyOuts, mine>>
    BY <1>5 DEF PruneSteps, PruneDue, PruneReads, PruneHistory, PruneActive, PruneLedger, PruneRemoves,
                PruneEnds, records, journal, turn, calls
  <2>2. \A u \in Turn, p \in Output :
          <<"pending", u, p>> \in ledger' =>
            /\ <<"pending", u, p>> \in ledger
            /\ <<"delivered", u, p>> \in ledger => <<"delivered", u, p>> \in ledger'
    <3>1. CASE PruneLedger BY <3>1 DEF PruneLedger
    <3>2. CASE ~PruneLedger
      <4>1. ledger' = ledger
        BY <1>5, <3>2 DEF PruneSteps, PruneDue, PruneReads, PruneHistory, PruneActive, PruneRemoves,
                          PruneEnds, log
      <4> QED BY <4>1
    <3> QED BY <3>1, <3>2
  <2>3. \A u \in Turn, p \in Output : LetGo(u, p) => LetGo(u, p)' BY <2>1, <2>2, StaysLetGo DEF Ended
  <2> QED BY <2>1, <2>3 DEF DeliveredInv
<1>6. CASE Crash
  <2>1. /\ \A c \in Client : mine'[c] = NoAck
        /\ \A t \in Turn, o \in Output : outs'[t][o] = "none"
        /\ UNCHANGED <<recordOuts, record, ledger, historyOuts>>
    BY <1>6, Listings DEF Crash, records, journal, log
  <2> QED BY <2>1, Listings DEF DeliveredInv, LetGo, Ended, Pending
<1>7. CASE Serve \/ UNCHANGED vars
  <2>1. UNCHANGED <<record, recordOuts, ledger, outs, historyOuts, mine>>
    BY <1>7 DEF Serve, vars, records, log, turn, journal, calls
  <2> QED BY <2>1 DEF DeliveredInv, LetGo, Ended, Pending
<1> QED BY <1>1, <1>2, <1>3, <1>4, <1>5, <1>6, <1>7, TurnDelivered DEF Next, AckSteps

(* A step that tears no line leaves the ledger whole. *)
LEMMA WholeKept == ASSUME IInv, [Next]_vars PROVE WholeInv'
<1> SUFFICES ASSUME tears' = 0 PROVE ledgerEnd' = "whole" /\ KeptInv' /\ DeliveredInv'
  BY DEF WholeInv
<1>1. tears' = tears /\ (ledgerEnd = "whole" => ledgerEnd' = "whole")
  <2> DEFINE Torn == tears' = tears + 1
             Spared == tears' = tears /\ (ledgerEnd = "whole" => ledgerEnd' = "whole")
  <2>1. LogFails => Torn \/ Spared BY DEF LogFails, Fault, Tear
  <2>2. ASSUME NEW t \in Turn, Submit(t) \/ AgentWrites(t) \/ TurnSteps(t) PROVE Torn \/ Spared
    <3>1. CASE Activate(t) \/ LogOutput(t) BY <2>1, <3>1 DEF Activate, LogOutput, LogLine, bounds
    <3>2. CASE ~Activate(t) /\ ~LogOutput(t)
      BY <2>2, <3>2 DEF Submit, AgentWrites, TurnSteps, FinishTurn, Stage, StagingFails, End, LookUp, Reuse,
                        Collect, OutputsLogged, AppendHistory, Retire, ClearInbox, Record, Recover,
                        Fault, Tear, bounds, log
    <3> QED BY <3>1, <3>2
  <2>3. ASSUME NEW c \in Client, AckReads(c) \/ AckSteps(c) PROVE Torn \/ Spared
    BY <2>1, <2>3 DEF AckReads, AckSteps, AckLogs, AckLogged, AckPersists, LogLine, bounds, log
  <2>4. CASE PruneSteps
    BY <2>4 DEF PruneSteps, PruneDue, PruneReads, PruneHistory, PruneActive, PruneLedger, PruneRemoves,
                PruneEnds, bounds, log
  <2>5. CASE Crash \/ Serve \/ UNCHANGED vars BY <2>5 DEF Crash, Serve, vars, bounds, log
  <2>6. Torn \/ Spared BY <2>2, <2>3, <2>4, <2>5 DEF Next
  <2> QED BY <2>6 DEF IInv, Types
<1>2. ledgerEnd = "whole" /\ KeptInv /\ DeliveredInv BY <1>1 DEF IInv, WholeInv
<1> QED BY <1>1, <1>2, KeptKept, DeliveredKept

-----------------------------------------------------------------------------
LEMMA IInvInitially == Init => IInv
  BY TypesInitially, RecordInitially DEF IInv

LEMMA IInvIsInductive == IInv /\ [Next]_vars => IInv'
<1> SUFFICES ASSUME IInv, [Next]_vars PROVE IInv' OBVIOUS
<1>1. Types' /\ LockInv' /\ RecordInv' BY TypesKept, LockKept, RecordKept DEF IInv
<1>2. HistoryInv' /\ SpareInv' BY HistoryKept, SpareKept DEF IInv
<1> QED BY <1>1, <1>2, WholeKept DEF IInv

LEMMA Invariance == Spec => []IInv
  BY IInvInitially, IInvIsInductive, PTL DEF Spec

(* Every variable keeps its type, and the queue of the workspace lock holds exactly *)
(* the calls that are inside withWorkspaceLock, each once: no call that throws keeps *)
(* the lock, none is forgotten in the queue.                                        *)
THEOREM LockedAreQueued == Spec => []TypeOK
<1>1. IInv => TypeOK
  <2> SUFFICES ASSUME IInv PROVE TypeOK OBVIOUS
  <2>1. lock \in Seq(Job) /\ ToSet(lock) \subseteq Job BY DEF IInv, Types, ToSet
  <2>2. ToSet(lock) = {t \in Turn : phase[t] \in InLock} \cup {c \in Client : ack[c] = "logging"}
                      \cup {j \in {Prune} : pruning # "idle"}
    BY <2>1 DEF IInv, LockInv, Inside, Job
  <2> QED BY <2>2 DEF IInv, Types, LockInv, TypeOK, Listed, Ends
<1> QED BY <1>1, Invariance, PTL

(* A turn is in its session's history at most once, whatever is lost or torn between *)
(* the append and the record (finishTurn).                                           *)
THEOREM TurnsAreRecordedOnce == Spec => []OneRecordPerTurn
<1>1. IInv => OneRecordPerTurn BY DEF IInv, HistoryInv
<1> QED BY <1>1, Invariance, PTL

(* Retention takes nothing from a turn that is at work, unless its active file has   *)
(* grown too old (prune, startTurn).                                                 *)
THEOREM RetentionSparesLiveTurns == Spec => []LiveTurnsAreSpared
<1>1. IInv => LiveTurnsAreSpared
  <2> SUFFICES ASSUME IInv, NEW t \in Turn, phase[t] = "running", t \notin expired
               PROVE  t \in active /\ {"inbox", "inboxArchive", "outbox"} \X {t} \subseteq dirs
    BY DEF LiveTurnsAreSpared
  <2>1. t \in active /\ \A k \in {"inbox", "inboxArchive", "outbox"} : <<k, t>> \in dirs
    BY DEF IInv, SpareInv
  <2>2. \A d \in {"inbox", "inboxArchive", "outbox"} \X {t} :
          d = <<d[1], t>> /\ d[1] \in {"inbox", "inboxArchive", "outbox"}
    OBVIOUS
  <2> QED BY <2>1, <2>2
<1> QED BY <1>1, Invariance, PTL

(* An output that is listed as pending and that nobody has said to be delivered is in *)
(* the archive and its turn in the history, as long as no line is torn (prune).       *)
THEOREM PendingOutputsAreKept == Spec => []PendingIsKeptUnlessTorn
<1>1. IInv => PendingIsKeptUnlessTorn
  BY DEF IInv, WholeInv, KeptInv, Claims, Kept, PendingIsKeptUnlessTorn, PendingIsKept
<1> QED BY <1>1, Invariance, PTL

(* What a record lists as delivered no longer keeps its turn from ageing out, as long *)
(* as no line is torn (acknowledgeOutputs, prune).                                    *)
THEOREM DeliveredOutputsAreLetGo == Spec => []DeliveredIsLetGo
<1>1. IInv => DeliveredIsLetGo
  BY DEF IInv, WholeInv, DeliveredInv, LetGo, DeliveredIsLetGo
<1> QED BY <1>1, Invariance, PTL
=============================================================================
