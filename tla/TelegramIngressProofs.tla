------------------------ MODULE TelegramIngressProofs ------------------------
(***************************************************************************)
(* Proofs about TelegramIngress, for any number of updates, commands,      *)
(* losses of the adapter, operations that throw, reports that cannot be    *)
(* sent and failed writes.                                                 *)
(***************************************************************************)
EXTENDS TelegramIngress, FiniteSetTheorems, WellFoundedInduction, TLAPS

Heads == {"idle", "preparing", "posting", "posted", "interrupting", "announcing", "waiting",
          "barrier", "closing", "settling", "failed"}
Commands == {"none", "discarding", "preparing", "prepared", "refused", "interrupting",
             "replying", "erring", "settling", "threw"}

Types ==
  /\ kind \in [Update -> Kind] /\ joining \in BOOLEAN
  /\ confirmed \in 1..(MaxUpdate + 1) /\ diskOffset \in 1..(MaxUpdate + 1)
  /\ offset \in 1..(MaxUpdate + 1)
  /\ queue \subseteq Update /\ batch \subseteq Update /\ inflight \subseteq Update
  /\ loop \in {"poll", "saving", "advancing", "replaying", "down"}
  /\ loop \in {"saving", "advancing", "replaying"} => batch # {}
  /\ burst \in Seq(Update) /\ chain \in Seq(Seq(Update)) /\ left \in Seq(Update)
  /\ head \in Heads /\ cancelled \in BOOLEAN
  /\ command \in [Update -> Commands] /\ dropped \in [Update -> Seq(Update)]
  /\ barriers \subseteq Update /\ forgone \subseteq Update
  /\ attempts \in [Update -> Nat] /\ timers \subseteq Seq(Update)
  /\ discarded \in [Update -> SUBSET Update]
  /\ turns \in Seq(Seq(Update)) /\ prior \in [Update -> Nat]
  /\ turn \in 0..Len(turns) /\ running \in 0..Len(turns)
  /\ crashes \in Nat /\ errors \in Nat /\ unreported \in Nat /\ writeFaults \in Nat

(* What the await of the running job implies. *)
JobInv ==
  /\ head # "idle" => chain # <<>>
  /\ head = "idle" => left = <<>> /\ ~cancelled
  /\ head \in {"idle", "preparing", "posting", "barrier", "closing"} => turn = 0
  /\ head \in {"posted", "interrupting", "announcing", "waiting"} => turn # 0
  /\ head \in {"barrier", "closing"} => ~Text(Primary)
  /\ head = "failed" => errors > 0

(* Every update in flight has one place: in a job of the chain, in the burst, or *)
(* in what a /stop discards.  c, b, d and i are the four.                        *)
Grouped(parts) ==
  /\ parts # <<>>
  /\ \/ \A u \in Range(parts) : Text(u)
     \/ Len(parts) = 1 /\ kind[parts[1]] = "reset"
  /\ \A j, k \in DOMAIN parts : parts[j] = parts[k] => j = k
  /\ ~joining => Len(parts) = 1

Buffered(b) ==
  /\ \A u \in Range(b) : Text(u)
  /\ \A j, k \in DOMAIN b : b[j] = b[k] => j = k
  /\ ~joining => b = <<>>

Apart(s, t) == Range(s) \cap Range(t) = {}

Lined(c, b, d, i) ==
  /\ \A n \in DOMAIN c : Grouped(c[n]) /\ Range(c[n]) \subseteq i /\ Apart(c[n], b)
  /\ \A m, n \in DOMAIN c : m # n => Apart(c[m], c[n])
  /\ Buffered(b) /\ Range(b) \subseteq i
  /\ \A u \in Update :
       /\ Buffered(d[u]) /\ Range(d[u]) \subseteq i
       /\ Apart(d[u], b)
       /\ \A n \in DOMAIN c : Apart(d[u], c[n])
       /\ \A v \in Update : u # v => Apart(d[u], d[v])

CommandInv ==
  \A u \in Update :
    /\ command[u] # "none" => u \in inflight /\ ~Text(u)
    /\ command[u] \in {"discarding", "replying", "erring", "settling"} => kind[u] = "stop"
    /\ command[u] \in {"erring", "threw"} => errors > 0

TimersInv ==
  /\ \A parts \in timers :
       /\ parts # <<>>
       /\ Len(parts) > 1 => \A u \in Range(parts) : Text(u)
       /\ \A j, k \in DOMAIN parts : parts[j] = parts[k] => j = k
       /\ ~joining => Len(parts) = 1
  /\ unreported = 0 => timers = {}

(* The polling loop, as long as the offset on disk is not stale at a restart. *)
Regular == crashes = 0 \/ writeFaults = 0
LoopInv ==
  /\ crashes = 0 => loop \notin {"replaying", "down"}
  /\ Regular =>
       /\ loop # "down" => confirmed <= offset
       /\ loop = "saving" => offset <= MaxUpdate /\ \E newest \in Update : batch = offset..newest
       /\ loop = "advancing" => offset > 1 /\ \E newest \in Update : batch = (offset - 1)..newest
       /\ loop = "replaying" => \A u \in batch : u <= offset
  /\ writeFaults = 0 =>
       /\ confirmed <= diskOffset
       /\ \A u \in queue : u <= diskOffset
       /\ loop \in {"poll", "saving", "replaying"} => diskOffset = offset
       /\ loop = "advancing" => diskOffset + 1 = offset

(* What may be dispatched from here on, until another loss of the adapter. *)
Coming ==
  {u \in Nat :
     \/ loop = "down" /\ (u \in queue \/ u >= diskOffset)
     \/ loop = "replaying" /\ (u \in batch \/ u >= offset)
     \/ loop = "advancing" /\ u + 1 >= offset
     \/ loop \in {"poll", "saving"} /\ u >= offset}

(* An update that was taken over has its file, a turn, an answer or the trace of one. *)
Accounted == Submitted \cup told \cup Discarded \cup unsaid
Kept(u) == u \in queue \cup Accounted
KeepsFiles == joining => Undisturbed

(* As far as the source of updates has come, and in its answer. *)
Saved ==
  /\ \A u \in Update : u < offset \/ u < diskOffset \/ u < confirmed => Kept(u)
  /\ loop \in {"saving", "advancing"} =>
       \A u \in Update, v \in batch : u < v /\ u \notin batch => Kept(u)
  /\ loop = "advancing" => \E v \in batch : v < offset /\ \A u \in batch : v <= u

(* What the running job is about to remove, or to wait for. *)
JobAnswers ==
  /\ head = "settling" => Range(left) \subseteq Accounted
  /\ head \in {"posted", "interrupting", "announcing", "waiting"} =>
       Range(Parts) \subseteq Submitted

AnswerInv ==
  KeepsFiles => Saved /\ JobAnswers /\ \A u \in Update : command[u] = "settling" => u \in told

PriorInv == \A u \in Update : prior[u] # 0 => prior[u] \in DOMAIN turns /\ u \in Range(turns[prior[u]])

(* The first job of the chain that is still to be posted. *)
FirstUnposted == IF head \in {"idle", "preparing", "posting"} THEN 1 ELSE 2

UpTo(S, T) == \A u \in S, v \in T : u <= v
Rising(s) == \A j, k \in DOMAIN s : j < k => s[j] < s[k]

(* While the adapter is undisturbed nothing is dispatched that was before.  C is *)
(* what is to come, S what was submitted, k the first unposted job.              *)
Fresh(c, b, i, C, S, k) ==
  /\ S \cap C = {} /\ i \cap C = {} /\ S \cap Range(b) = {}
  /\ \A n \in DOMAIN c : n >= k => S \cap Range(c[n]) = {}

(* The order of what was dispatched and is to come. *)
Orderly == Undisturbed \/ ReplaysAll
Ranked(c, b, C) ==
  /\ \A n \in DOMAIN c : Rising(c[n]) /\ UpTo(Range(c[n]), Range(b)) /\ UpTo(Range(c[n]), C)
  /\ \A m, n \in DOMAIN c : m < n => UpTo(Range(c[m]), Range(c[n]))
  /\ Rising(b) /\ UpTo(Range(b), C)

(* All of that comes after what was submitted. *)
Sequential == Undisturbed \/ (ReplaysAll /\ ~joining /\ crashes < 2)
Later(c, b, C, S, k) ==
  /\ \A n \in DOMAIN c : n >= k \/ ~joining => UpTo(S, Range(c[n]))
  /\ UpTo(S, Range(b)) /\ UpTo(S, C)

Row(c, b, d, i, C, S, k) ==
  /\ c \in Seq(Seq(Update)) /\ b \in Seq(Update) /\ d \in [Update -> Seq(Update)]
  /\ i \subseteq Update /\ C \subseteq Nat /\ S \subseteq Update /\ k \in {1, 2}
  /\ Lined(c, b, d, i)
  /\ Undisturbed => Fresh(c, b, i, C, S, k)
  /\ Orderly => Ranked(c, b, C)
  /\ Sequential => Later(c, b, C, S, k)

RowInv == Row(chain, burst, dropped, inflight, Coming, Submitted, FirstUnposted)

(* Without a reset the daemon knows every update that was submitted alone. *)
NoResets == \A u \in Update : kind[u] # "reset"
Distinct(ts) == \A n, m \in DOMAIN ts : n # m => Apart(ts[n], ts[m])
Alone == joining \/ (\E u \in Update : kind[u] = "reset") => Undisturbed
TurnsInv ==
  /\ ~joining /\ NoResets => \A u \in Submitted : prior[u] # 0
  /\ Alone => Distinct(turns)
  /\ Orderly => PartsInOrder
  /\ Sequential => TurnsInOrder

(* Before the adapter is lost every file is of an update that waits for its job or *)
(* is settled by it.                                                               *)
Filed ==
  /\ \A u \in queue : u \in Coming \/ \E n \in DOMAIN chain : u \in Range(chain[n])
  /\ head = "settling" => queue \cap Range(Parts) \subseteq Range(left)
  /\ \A u \in Submitted : u <= diskOffset
  /\ \A n \in DOMAIN chain : \A u \in Range(chain[n]) : u <= diskOffset
Simple == ReplaysAll /\ ~joining /\ crashes = 0
FiledInv == Simple => Filed

(* An operation that was cancelled at a late await has its turn interrupted. *)
Halted == \/ turn # running
          \/ turn \in stopped
          \/ \E u \in Update : command[u] = "interrupting"
StopInv ==
  errors = 0 /\ head \in {"announcing", "waiting", "settling"} /\ cancelled /\ turn # 0 => Halted

IInv == Types /\ JobInv /\ RowInv /\ CommandInv /\ TimersInv /\ LoopInv /\ AnswerInv /\ PriorInv
        /\ TurnsInv /\ FiledInv /\ StopInv

-----------------------------------------------------------------------------
(* Numbers and sequences. *)
LEMMA LeastOf ==
  ASSUME NEW T \in SUBSET Nat, T # {}
  PROVE  \E n \in T : \A m \in T : n <= m
<1> DEFINE R == {ss \in Nat \X Nat : ss[1] < ss[2]}
<1>1. IsWellFoundedOn(R, Nat)
  BY NatLessThanWellFounded DEF OpToRel
<1>2. \E x \in T : \A y \in T : ~(<<y, x>> \in R)
  <2> HIDE DEF R
  <2> QED BY <1>1, WFMin, Zenon
<1>3. PICK x \in T : \A y \in T : ~(<<y, x>> \in R)
  BY <1>2, Zenon
<1>4. ASSUME NEW y \in T PROVE x <= y
  <2>1. x \in Nat /\ y \in Nat
    OBVIOUS
  <2>2. y < x => <<y, x>> \in R
    BY <2>1
  <2>3. ~(y < x)
    <3> HIDE DEF R
    <3> QED BY <1>3, <2>2, Zenon
  <2> QED BY <2>1, <2>3
<1> QED BY <1>4

LEMMA UpdatesAreNumbers == MaxUpdate \in Nat /\ Update \subseteq Nat /\ Update = 1..MaxUpdate
BY BoundsAreNatural DEF Update

LEMMA EarliestIsLeast ==
  ASSUME NEW b \in SUBSET Update, b # {}
  PROVE  Earliest(b) \in b /\ \A v \in b : Earliest(b) <= v
<1>1. \E u \in b : \A v \in b : u <= v
  BY UpdatesAreNumbers, LeastOf
<1> QED BY <1>1 DEF Earliest

LEMMA InRange ==
  ASSUME NEW X, NEW s \in Seq(X), NEW x
  PROVE  x \in Range(s) <=> \E i \in 1..Len(s) : s[i] = x
BY DEF Range

LEMMA RangeIn ==
  ASSUME NEW X, NEW s \in Seq(X)
  PROVE  Range(s) \subseteq X /\ DOMAIN s = 1..Len(s) /\ Len(s) \in Nat
BY DEF Range

LEMMA NoneIn == Range(<<>>) = {} /\ Len(<<>>) = 0 /\ DOMAIN <<>> = {}
BY DEF Range

LEMMA OneIn ==
  ASSUME NEW u
  PROVE  Range(<<u>>) = {u} /\ Len(<<u>>) = 1 /\ DOMAIN <<u>> = {1} /\ <<u>>[1] = u /\ <<u>> # <<>>
         /\ Head(<<u>>) = u
BY DEF Range

LEMMA Longer ==
  ASSUME NEW X, NEW s \in Seq(X), NEW e \in X
  PROVE  /\ Append(s, e) \in Seq(X) /\ Append(s, e) # <<>>
         /\ DOMAIN Append(s, e) = 1..(Len(s) + 1) /\ Len(Append(s, e)) = Len(s) + 1
         /\ \A n \in 1..Len(s) : Append(s, e)[n] = s[n]
         /\ Append(s, e)[Len(s) + 1] = e
         /\ Range(Append(s, e)) = Range(s) \cup {e}
<1> DEFINE a == Append(s, e)
<1>1. /\ a \in Seq(X) /\ a # <<>> /\ DOMAIN a = 1..(Len(s) + 1) /\ Len(a) = Len(s) + 1
      /\ \A n \in 1..Len(s) : a[n] = s[n]
      /\ a[Len(s) + 1] = e /\ Len(s) \in Nat
  OBVIOUS
<1> HIDE DEF a
<1>2. \A x : x \in Range(a) <=> \E i \in 1..Len(a) : a[i] = x
  BY <1>1, InRange
<1>3. \A x : x \in Range(s) <=> \E i \in 1..Len(s) : s[i] = x
  BY InRange
<1>4. \A x : x \in Range(a) <=> x \in Range(s) \/ x = e
  BY <1>1, <1>2, <1>3
<1> QED BY <1>1, <1>4 DEF a

LEMMA Shorter ==
  ASSUME NEW X, NEW s \in Seq(X), s # <<>>
  PROVE  /\ Tail(s) \in Seq(X) /\ DOMAIN Tail(s) = 1..(Len(s) - 1) /\ Len(Tail(s)) = Len(s) - 1
         /\ \A n \in 1..(Len(s) - 1) : Tail(s)[n] = s[n + 1] /\ n + 1 \in 1..Len(s)
         /\ Head(s) = s[1] /\ s[1] \in X /\ 1 \in 1..Len(s) /\ Len(s) - 1 \in Nat
         /\ Range(s) = {s[1]} \cup Range(Tail(s))
<1> DEFINE t == Tail(s)
<1>1. /\ t \in Seq(X) /\ DOMAIN t = 1..(Len(s) - 1) /\ Len(t) = Len(s) - 1
      /\ \A n \in 1..(Len(s) - 1) : t[n] = s[n + 1] /\ n + 1 \in 1..Len(s)
      /\ Head(s) = s[1] /\ s[1] \in X /\ 1 \in 1..Len(s) /\ Len(s) - 1 \in Nat
  OBVIOUS
<1> HIDE DEF t
<1>2. \A x : x \in Range(t) <=> \E i \in 1..Len(t) : t[i] = x
  BY <1>1, InRange
<1>3. \A x : x \in Range(s) <=> \E i \in 1..Len(s) : s[i] = x
  BY InRange
<1>4. \A i \in 1..Len(s) : i = 1 \/ (i - 1 \in 1..Len(t) /\ t[i - 1] = s[i])
  <2> SUFFICES ASSUME NEW i \in 1..Len(s), i # 1
               PROVE  i - 1 \in 1..Len(t) /\ t[i - 1] = s[i]
    OBVIOUS
  <2>1. i - 1 \in 1..(Len(s) - 1) /\ i - 1 + 1 = i
    OBVIOUS
  <2> QED BY <1>1, <2>1
<1>5. \A x : x \in Range(s) <=> x = s[1] \/ x \in Range(t)
  BY <1>1, <1>2, <1>3, <1>4
<1> QED BY <1>1, <1>5 DEF t

LEMMA Joined ==
  ASSUME NEW X, NEW s \in Seq(X), NEW t \in Seq(X)
  PROVE  /\ s \o t \in Seq(X) /\ Len(s \o t) = Len(s) + Len(t)
         /\ \A n \in 1..Len(s) : (s \o t)[n] = s[n]
         /\ \A n \in 1..Len(t) : (s \o t)[Len(s) + n] = t[n]
         /\ Range(s \o t) = Range(s) \cup Range(t)
<1> DEFINE a == s \o t
<1>1. /\ a \in Seq(X) /\ Len(a) = Len(s) + Len(t) /\ Len(s) \in Nat /\ Len(t) \in Nat
      /\ \A n \in 1..Len(s) : a[n] = s[n]
      /\ \A n \in 1..Len(t) : a[Len(s) + n] = t[n]
  OBVIOUS
<1> HIDE DEF a
<1>2. \A x : x \in Range(a) <=> \E i \in 1..Len(a) : a[i] = x
  BY <1>1, InRange
<1>3. \A x : x \in Range(s) <=> \E i \in 1..Len(s) : s[i] = x
  BY InRange
<1>4. \A x : x \in Range(t) <=> \E i \in 1..Len(t) : t[i] = x
  BY InRange
<1>5. \A i \in 1..Len(a) : i \in 1..Len(s) \/ (i - Len(s) \in 1..Len(t) /\ a[i] = t[i - Len(s)])
  <2> SUFFICES ASSUME NEW i \in 1..Len(a), i \notin 1..Len(s)
               PROVE  i - Len(s) \in 1..Len(t) /\ a[i] = t[i - Len(s)]
    OBVIOUS
  <2>1. i - Len(s) \in 1..Len(t) /\ Len(s) + (i - Len(s)) = i
    BY <1>1
  <2> QED BY <1>1, <2>1
<1>6. \A i \in 1..Len(s) : i \in 1..Len(a)
  BY <1>1
<1>7. \A i \in 1..Len(t) : Len(s) + i \in 1..Len(a)
  BY <1>1
<1>8. \A x : x \in Range(a) <=> x \in Range(s) \/ x \in Range(t)
  <2> SUFFICES ASSUME NEW x PROVE x \in Range(a) <=> x \in Range(s) \/ x \in Range(t)
    OBVIOUS
  <2>1. x \in Range(a) => x \in Range(s) \/ x \in Range(t)
    BY <1>1, <1>2, <1>3, <1>4, <1>5
  <2>2. x \in Range(s) => x \in Range(a)
    BY <1>1, <1>2, <1>3, <1>6
  <2>3. x \in Range(t) => x \in Range(a)
    BY <1>1, <1>2, <1>4, <1>7
  <2> QED BY <2>1, <2>2, <2>3
<1> QED BY <1>1, <1>8 DEF a

-----------------------------------------------------------------------------
(* What is dispatched, and its way to the chain. *)
(* The burst becomes a job of its own. *)
LEMMA RowFlushes ==
  ASSUME NEW c, NEW b, NEW d, NEW i, NEW C, NEW S, NEW k, Row(c, b, d, i, C, S, k), b # <<>>
  PROVE  Row(Append(c, b), <<>>, d, i, C, S, k)
<1> DEFINE e == Append(c, b)
<1>1. /\ c \in Seq(Seq(Update)) /\ b \in Seq(Update) /\ d \in [Update -> Seq(Update)]
      /\ i \subseteq Update /\ C \subseteq Nat /\ S \subseteq Update /\ k \in {1, 2}
      /\ DOMAIN c = 1..Len(c) /\ Len(c) \in Nat
  BY RangeIn DEF Row
<1>2. /\ e \in Seq(Seq(Update)) /\ DOMAIN e = 1..(Len(c) + 1) /\ e[Len(c) + 1] = b
      /\ \A n \in 1..Len(c) : e[n] = c[n]
  BY <1>1, Longer
<1>3. \A n \in DOMAIN e : (n \in DOMAIN c /\ e[n] = c[n] /\ n < Len(c) + 1) \/ (n = Len(c) + 1 /\ e[n] = b)
  BY <1>1, <1>2
<1> HIDE DEF e
<1>4. Range(<<>>) = {} /\ DOMAIN <<>> = {} /\ <<>> \in Seq(Update)
  BY NoneIn
<1>5. Lined(e, <<>>, d, i)
  <2>1. Lined(c, b, d, i) /\ Grouped(b)
    BY <1>1 DEF Row, Lined, Buffered, Grouped
  <2>2. \A n \in DOMAIN e : Grouped(e[n]) /\ Range(e[n]) \subseteq i /\ Apart(e[n], <<>>)
    BY <1>3, <1>4, <2>1 DEF Lined, Apart
  <2>3. \A m, n \in DOMAIN e : m # n => Apart(e[m], e[n])
    BY <1>1, <1>3, <2>1 DEF Lined, Apart
  <2>4. Buffered(<<>>) /\ Range(<<>>) \subseteq i
    BY <1>4 DEF Buffered
  <2>5. ASSUME NEW u \in Update
        PROVE  /\ Buffered(d[u]) /\ Range(d[u]) \subseteq i /\ Apart(d[u], <<>>)
               /\ \A n \in DOMAIN e : Apart(d[u], e[n])
               /\ \A v \in Update : u # v => Apart(d[u], d[v])
    BY <1>3, <1>4, <2>1 DEF Lined, Apart
  <2> QED BY <2>2, <2>3, <2>4, <2>5 DEF Lined
<1>6. Undisturbed => Fresh(e, <<>>, i, C, S, k)
  BY <1>3, <1>4 DEF Row, Fresh
<1>7. Orderly => Ranked(e, <<>>, C)
  <2> SUFFICES ASSUME Orderly PROVE Ranked(e, <<>>, C)
    OBVIOUS
  <2>1. Ranked(c, b, C)
    BY DEF Row
  <2>2. \A n \in DOMAIN e : Rising(e[n]) /\ UpTo(Range(e[n]), {}) /\ UpTo(Range(e[n]), C)
    BY <1>3, <2>1 DEF Ranked, UpTo
  <2>3. \A m, n \in DOMAIN e : m < n => UpTo(Range(e[m]), Range(e[n]))
    BY <1>1, <1>3, <2>1 DEF Ranked
  <2> QED BY <1>4, <2>2, <2>3 DEF Ranked, Rising, UpTo
<1>8. Sequential => Later(e, <<>>, C, S, k)
  BY <1>3, <1>4 DEF Row, Later, UpTo
<1> QED BY <1>1, <1>2, <1>4, <1>5, <1>6, <1>7, <1>8 DEF Row, e

(* What a dispatch knows of the update, and of what comes after it. *)
Dispatchable(u, i, C, D) ==
  /\ u \in Update /\ u \notin i
  /\ Orderly => u \in C /\ D \subseteq C /\ UpTo({u}, D)
  /\ Undisturbed => u \notin D
  /\ D \subseteq Nat

LEMMA RowPushes ==
  ASSUME NEW c, NEW b, NEW d, NEW i, NEW C, NEW S, NEW k, Row(c, b, d, i, C, S, k), b = <<>>,
         NEW u, NEW D, Dispatchable(u, i, C, D), Grouped(<<u>>)
  PROVE  Row(Append(c, <<u>>), b, d, i \cup {u}, D, S, k)
<1> DEFINE e == Append(c, <<u>>)
<1>1. /\ c \in Seq(Seq(Update)) /\ b \in Seq(Update) /\ d \in [Update -> Seq(Update)]
      /\ i \subseteq Update /\ C \subseteq Nat /\ S \subseteq Update /\ k \in {1, 2}
      /\ DOMAIN c = 1..Len(c) /\ Len(c) \in Nat
      /\ u \in Update /\ u \notin i /\ D \subseteq Nat
  BY RangeIn DEF Row, Dispatchable
<1>2. <<u>> \in Seq(Update) /\ Range(<<u>>) = {u} /\ DOMAIN <<u>> = {1}
  BY <1>1, OneIn
<1>3. /\ e \in Seq(Seq(Update)) /\ DOMAIN e = 1..(Len(c) + 1) /\ e[Len(c) + 1] = <<u>>
      /\ \A n \in 1..Len(c) : e[n] = c[n]
  BY <1>1, <1>2, Longer
<1>4. \A n \in DOMAIN e :
        (n \in DOMAIN c /\ e[n] = c[n] /\ n < Len(c) + 1) \/ (n = Len(c) + 1 /\ e[n] = <<u>>)
  BY <1>1, <1>3
<1> HIDE DEF e
<1>5. Range(b) = {} /\ DOMAIN b = {}
  BY NoneIn
<1>6. Lined(e, b, d, i \cup {u})
  <2>1. Lined(c, b, d, i)
    BY DEF Row
  <2>2. \A n \in DOMAIN e : Grouped(e[n]) /\ Range(e[n]) \subseteq i \cup {u} /\ Apart(e[n], b)
    BY <1>2, <1>4, <1>5, <2>1 DEF Lined, Apart
  <2>3. \A m, n \in DOMAIN e : m # n => Apart(e[m], e[n])
    <3>0. \A n \in DOMAIN c : u \notin Range(c[n])
      BY <1>1, <2>1 DEF Lined
    <3>1. \A n \in DOMAIN c : Apart(c[n], <<u>>) /\ Apart(<<u>>, c[n])
      BY <1>2, <3>0 DEF Apart
    <3>2. \A m, n \in DOMAIN c : m # n => Apart(c[m], c[n])
      BY <2>1 DEF Lined
    <3> QED BY <1>1, <1>4, <3>1, <3>2
  <2>4. Buffered(b) /\ Range(b) \subseteq i \cup {u}
    BY <2>1 DEF Lined
  <2>5. ASSUME NEW v \in Update
        PROVE  /\ Buffered(d[v]) /\ Range(d[v]) \subseteq i \cup {u} /\ Apart(d[v], b)
               /\ \A n \in DOMAIN e : Apart(d[v], e[n])
               /\ \A w \in Update : v # w => Apart(d[v], d[w])
    BY <1>1, <1>2, <1>4, <2>1 DEF Lined, Apart
  <2> QED BY <2>2, <2>3, <2>4, <2>5 DEF Lined
<1>7. Undisturbed => Fresh(e, b, i \cup {u}, D, S, k)
  BY <1>2, <1>4, <1>5 DEF Row, Fresh, Dispatchable, Orderly
<1>8. Orderly => Ranked(e, b, D)
  <2> SUFFICES ASSUME Orderly PROVE Ranked(e, b, D)
    OBVIOUS
  <2>1. Ranked(c, b, C) /\ u \in C /\ D \subseteq C /\ UpTo({u}, D)
    BY DEF Row, Dispatchable
  <2>2. \A n \in DOMAIN e : Rising(e[n]) /\ UpTo(Range(e[n]), {}) /\ UpTo(Range(e[n]), D)
    BY <1>2, <1>4, <2>1 DEF Ranked, UpTo, Rising
  <2>3. \A n \in DOMAIN c : UpTo(Range(c[n]), {u})
    BY <2>1 DEF Ranked, UpTo
  <2>4. \A m, n \in DOMAIN e : m < n => UpTo(Range(e[m]), Range(e[n]))
    <3>1. \A m, n \in DOMAIN c : m < n => UpTo(Range(c[m]), Range(c[n]))
      BY <2>1 DEF Ranked
    <3>2. \A n \in DOMAIN c : n < Len(c) + 1
      BY <1>1
    <3>3. \A m, n \in DOMAIN e : m < n => m \in DOMAIN c /\ e[m] = c[m]
      BY <1>1, <1>3
    <3> QED BY <1>2, <1>4, <2>3, <3>1, <3>3
  <2> QED BY <1>5, <2>2, <2>4 DEF Ranked, Rising, UpTo
<1>9. Sequential => Later(e, b, D, S, k)
  <2> SUFFICES ASSUME Sequential PROVE Later(e, b, D, S, k)
    OBVIOUS
  <2>1. Later(c, b, C, S, k) /\ u \in C /\ D \subseteq C
    BY DEF Row, Dispatchable, Sequential, Orderly
  <2>2. UpTo(S, {u}) /\ UpTo(S, D)
    BY <2>1 DEF Later, UpTo
  <2> QED BY <1>2, <1>4, <2>1, <2>2 DEF Later
<1> QED BY <1>1, <1>3, <1>6, <1>7, <1>8, <1>9 DEF Row, e

LEMMA RowJoins ==
  ASSUME NEW c, NEW b, NEW d, NEW i, NEW C, NEW S, NEW k, Row(c, b, d, i, C, S, k), joining,
         NEW u, NEW D, Dispatchable(u, i, C, D), Text(u)
  PROVE  Row(c, Append(b, u), d, i \cup {u}, D, S, k)
<1> DEFINE e == Append(b, u)
<1>1. /\ c \in Seq(Seq(Update)) /\ b \in Seq(Update) /\ d \in [Update -> Seq(Update)]
      /\ i \subseteq Update /\ C \subseteq Nat /\ S \subseteq Update /\ k \in {1, 2}
      /\ DOMAIN b = 1..Len(b) /\ Len(b) \in Nat
      /\ u \in Update /\ u \notin i /\ D \subseteq Nat
  BY RangeIn DEF Row, Dispatchable
<1>2. /\ e \in Seq(Update) /\ DOMAIN e = 1..(Len(b) + 1) /\ e[Len(b) + 1] = u
      /\ \A n \in 1..Len(b) : e[n] = b[n] /\ e[n] \in Range(b)
      /\ Range(e) = Range(b) \cup {u}
  BY <1>1, Longer, InRange
<1> HIDE DEF e
<1>3. Lined(c, e, d, i \cup {u})
  <2>1. Lined(c, b, d, i)
    BY DEF Row
  <2>2. \A n \in DOMAIN c : Grouped(c[n]) /\ Range(c[n]) \subseteq i \cup {u} /\ Apart(c[n], e)
    BY <1>1, <1>2, <2>1 DEF Lined, Apart
  <2>3. Buffered(e)
    <3>1. \A j, m \in DOMAIN e : e[j] = e[m] => j = m
      <4>1. \A j \in 1..Len(b) : e[j] # u
        BY <1>1, <1>2, <2>1 DEF Lined
      <4> QED BY <1>1, <1>2, <2>1, <4>1 DEF Lined, Buffered
    <3> QED BY <1>2, <2>1, <3>1 DEF Lined, Buffered
  <2>4. ASSUME NEW v \in Update
        PROVE  /\ Buffered(d[v]) /\ Range(d[v]) \subseteq i \cup {u} /\ Apart(d[v], e)
               /\ \A n \in DOMAIN c : Apart(d[v], c[n])
               /\ \A w \in Update : v # w => Apart(d[v], d[w])
    BY <1>1, <1>2, <2>1 DEF Lined, Apart
  <2> QED BY <1>2, <2>1, <2>2, <2>3, <2>4 DEF Lined
<1>4. ASSUME Undisturbed PROVE Fresh(c, e, i \cup {u}, D, S, k)
  <2>1. Fresh(c, b, i, C, S, k) /\ u \in C /\ D \subseteq C /\ u \notin D
    BY <1>4 DEF Row, Dispatchable, Orderly
  <2> QED BY <1>2, <2>1 DEF Fresh
<1>5. Orderly => Ranked(c, e, D)
  <2> SUFFICES ASSUME Orderly PROVE Ranked(c, e, D)
    OBVIOUS
  <2>1. Ranked(c, b, C) /\ u \in C /\ D \subseteq C /\ UpTo({u}, D)
    BY DEF Row, Dispatchable
  <2>2. \A n \in DOMAIN c : UpTo(Range(c[n]), Range(e)) /\ UpTo(Range(c[n]), D)
    BY <1>2, <2>1 DEF Ranked, UpTo
  <2>3. UpTo(Range(e), D)
    BY <1>2, <2>1 DEF Ranked, UpTo
  <2>4. Rising(e)
    <3>1. \A j \in 1..Len(b) : e[j] < u
      <4> SUFFICES ASSUME NEW j \in 1..Len(b) PROVE e[j] < u
        OBVIOUS
      <4>1. e[j] \in Range(b) /\ e[j] \in Update
        BY <1>1, <1>2
      <4>2. e[j] # u
        BY <1>1, <4>1 DEF Row, Lined
      <4>3. e[j] <= u
        BY <2>1, <4>1 DEF Ranked, UpTo
      <4> QED BY <1>1, <4>1, <4>2, <4>3, UpdatesAreNumbers
    <3> QED BY <1>1, <1>2, <2>1, <3>1 DEF Ranked, Rising
  <2> QED BY <2>1, <2>2, <2>3, <2>4 DEF Ranked
<1>6. Sequential => Later(c, e, D, S, k)
  <2> SUFFICES ASSUME Sequential PROVE Later(c, e, D, S, k)
    OBVIOUS
  <2>1. Later(c, b, C, S, k) /\ u \in C /\ D \subseteq C
    BY DEF Row, Dispatchable, Sequential, Orderly
  <2> QED BY <1>2, <2>1 DEF Later, UpTo
<1> QED BY <1>1, <1>2, <1>3, <1>4, <1>5, <1>6 DEF Row, e

LEMMA RowDrops ==
  ASSUME NEW c, NEW b, NEW d, NEW i, NEW C, NEW S, NEW k, Row(c, b, d, i, C, S, k),
         NEW u, NEW D, Dispatchable(u, i, C, D)
  PROVE  Row(c, <<>>, [d EXCEPT ![u] = b], i \cup {u}, D, S, k)
<1> DEFINE e == [d EXCEPT ![u] = b]
<1>1. /\ c \in Seq(Seq(Update)) /\ b \in Seq(Update) /\ d \in [Update -> Seq(Update)]
      /\ i \subseteq Update /\ C \subseteq Nat /\ S \subseteq Update /\ k \in {1, 2}
      /\ u \in Update /\ u \notin i /\ D \subseteq Nat
  BY DEF Row, Dispatchable
<1>2. /\ e \in [Update -> Seq(Update)] /\ e[u] = b
      /\ \A v \in Update : v # u => e[v] = d[v]
  BY <1>1
<1> HIDE DEF e
<1>3. Range(<<>>) = {} /\ DOMAIN <<>> = {} /\ <<>> \in Seq(Update)
  BY NoneIn
<1>4. Lined(c, <<>>, e, i \cup {u})
  <2>1. Lined(c, b, d, i)
    BY DEF Row
  <2>2. \A n \in DOMAIN c : Grouped(c[n]) /\ Range(c[n]) \subseteq i \cup {u} /\ Apart(c[n], <<>>)
    BY <1>3, <2>1 DEF Lined, Apart
  <2>3. Buffered(<<>>) /\ Range(<<>>) \subseteq i \cup {u}
    BY <1>3 DEF Buffered
  <2>4. ASSUME NEW v \in Update
        PROVE  /\ Buffered(e[v]) /\ Range(e[v]) \subseteq i \cup {u} /\ Apart(e[v], <<>>)
               /\ \A n \in DOMAIN c : Apart(e[v], c[n])
    BY <1>2, <1>3, <2>1 DEF Lined, Apart
  <2>5. \A v, w \in Update : v # w => Apart(e[v], e[w])
    <3>1. \A v, w \in Update : v # w => Apart(d[v], d[w])
      BY <2>1 DEF Lined
    <3>2. \A v \in Update : Apart(d[v], b) /\ Apart(b, d[v])
      BY <2>1 DEF Lined, Apart
    <3> QED BY <1>2, <3>1, <3>2
  <2>6. \A m, n \in DOMAIN c : m # n => Apart(c[m], c[n])
    BY <2>1 DEF Lined
  <2> QED BY <2>2, <2>3, <2>4, <2>5, <2>6 DEF Lined
<1>5. Undisturbed => Fresh(c, <<>>, i \cup {u}, D, S, k)
  BY <1>3 DEF Row, Fresh, Dispatchable, Orderly
<1>6. Orderly => Ranked(c, <<>>, D)
  BY <1>3 DEF Row, Ranked, Dispatchable, UpTo, Rising
<1>7. Sequential => Later(c, <<>>, D, S, k)
  BY <1>3 DEF Row, Later, Dispatchable, UpTo, Sequential, Orderly
<1> QED BY <1>1, <1>2, <1>3, <1>4, <1>5, <1>6, <1>7 DEF Row, e

(* Parts dispatched again by a timer join the burst; a report was lost before. *)
LEMMA RowGathers ==
  ASSUME NEW c, NEW b, NEW d, NEW i, NEW C, NEW S, NEW k, Row(c, b, d, i, C, S, k), joining,
         unreported # 0, NEW again \in Seq(Update), NEW D \in SUBSET Nat,
         \A u \in Range(again) : Text(u) /\ u \notin i,
         \A j, m \in DOMAIN again : again[j] = again[m] => j = m
  PROVE  Row(c, b \o again, d, i \cup Range(again), D, S, k)
<1> DEFINE e == b \o again
<1>1. /\ c \in Seq(Seq(Update)) /\ b \in Seq(Update) /\ d \in [Update -> Seq(Update)]
      /\ i \subseteq Update /\ C \subseteq Nat /\ S \subseteq Update /\ k \in {1, 2}
      /\ Range(again) \subseteq Update
      /\ DOMAIN b = 1..Len(b) /\ DOMAIN again = 1..Len(again) /\ Len(b) \in Nat /\ Len(again) \in Nat
  BY RangeIn DEF Row
<1>2. /\ e \in Seq(Update) /\ Len(e) = Len(b) + Len(again) /\ Range(e) = Range(b) \cup Range(again)
      /\ \A n \in 1..Len(b) : e[n] = b[n]
      /\ \A n \in 1..Len(again) : e[Len(b) + n] = again[n]
  BY <1>1, Joined
<1> HIDE DEF e
<1>3. Lined(c, e, d, i \cup Range(again))
  <2>1. Lined(c, b, d, i)
    BY DEF Row
  <2>2. \A n \in DOMAIN c : Grouped(c[n]) /\ Range(c[n]) \subseteq i \cup Range(again) /\ Apart(c[n], e)
    BY <1>2, <2>1 DEF Lined, Apart
  <2>3. Buffered(e)
    <3>1. \A j, m \in DOMAIN e : e[j] = e[m] => j = m
      <4>1. \A j \in 1..Len(b) : b[j] \in i
        BY <1>1, <2>1, InRange DEF Lined
      <4>2. \A j \in 1..Len(again) : again[j] \notin i
        BY InRange
      <4>3. DOMAIN e = 1..(Len(b) + Len(again))
        BY <1>2
      <4>4. \A j \in DOMAIN e :
              \/ j \in 1..Len(b) /\ e[j] = b[j]
              \/ \E m \in 1..Len(again) : j = Len(b) + m /\ e[j] = again[m]
        <5> SUFFICES ASSUME NEW j \in DOMAIN e, j \notin 1..Len(b)
                     PROVE  \E m \in 1..Len(again) : j = Len(b) + m /\ e[j] = again[m]
          BY <1>2
        <5>1. j - Len(b) \in 1..Len(again) /\ j = Len(b) + (j - Len(b))
          BY <1>1, <4>3
        <5> QED BY <1>2, <5>1
      <4>5. \A j, m \in 1..Len(b) : b[j] = b[m] => j = m
        BY <1>1, <2>1 DEF Lined, Buffered
      <4>6. \A j, m \in 1..Len(again) : again[j] = again[m] => j = m
        BY <1>1
      <4> SUFFICES ASSUME NEW j \in DOMAIN e, NEW m \in DOMAIN e, e[j] = e[m] PROVE j = m
        OBVIOUS
      <4>7. CASE j \in 1..Len(b) /\ e[j] = b[j]
        BY <4>1, <4>2, <4>4, <4>5, <4>7
      <4>8. CASE \E n \in 1..Len(again) : j = Len(b) + n /\ e[j] = again[n]
        BY <4>1, <4>2, <4>4, <4>6, <4>8
      <4> QED BY <4>4, <4>7, <4>8
    <3> QED BY <1>2, <2>1, <3>1 DEF Lined, Buffered
  <2>4. ASSUME NEW v \in Update
        PROVE  /\ Buffered(d[v]) /\ Range(d[v]) \subseteq i \cup Range(again) /\ Apart(d[v], e)
               /\ \A n \in DOMAIN c : Apart(d[v], c[n])
               /\ \A w \in Update : v # w => Apart(d[v], d[w])
    BY <1>2, <2>1 DEF Lined, Apart
  <2>5. Range(e) \subseteq i \cup Range(again) /\ \A m, n \in DOMAIN c : m # n => Apart(c[m], c[n])
    BY <1>2, <2>1 DEF Lined
  <2> QED BY <2>2, <2>3, <2>4, <2>5 DEF Lined
<1>4. ~Orderly /\ ~Sequential /\ ~Undisturbed
  BY DEF Orderly, Sequential, Undisturbed, ReplaysAll
<1> QED BY <1>1, <1>2, <1>3, <1>4 DEF Row, e

(* What is removed from inflight is in no other place. *)
LEMMA RowReleases ==
  ASSUME NEW c, NEW b, NEW d, NEW i, NEW C, NEW S, NEW k, Row(c, b, d, i, C, S, k),
         NEW u, ~Text(u), kind[u] # "reset"
  PROVE  Row(c, b, d, i \ {u}, C, S, k)
<1>1. Lined(c, b, d, i \ {u})
  <2>1. Lined(c, b, d, i)
    BY DEF Row
  <2>2. \A n \in DOMAIN c : u \notin Range(c[n])
    <3>1. ASSUME NEW n \in DOMAIN c, u \in Range(c[n]) PROVE FALSE
      <4>1. Grouped(c[n]) /\ c[n] \in Seq(Update)
        BY <2>1, <3>1, RangeIn DEF Row, Lined
      <4>2. Len(c[n]) = 1 /\ kind[c[n][1]] = "reset"
        BY <3>1, <4>1 DEF Grouped
      <4>3. \E j \in 1..Len(c[n]) : c[n][j] = u
        BY <3>1, <4>1, InRange
      <4> QED BY <4>2, <4>3
    <3> QED BY <3>1
  <2>3. u \notin Range(b) /\ \A v \in Update : u \notin Range(d[v])
    BY <2>1 DEF Lined, Buffered
  <2> QED BY <2>1, <2>2, <2>3 DEF Lined
<1> QED BY <1>1 DEF Row, Fresh

LEMMA RowDiscards ==
  ASSUME NEW c, NEW b, NEW d, NEW i, NEW C, NEW S, NEW k, Row(c, b, d, i, C, S, k),
         NEW u \in Update, d[u] # <<>>
  PROVE  Row(c, b, [d EXCEPT ![u] = Tail(d[u])], i \ {Head(d[u])}, C, S, k)
<1> DEFINE e == [d EXCEPT ![u] = Tail(d[u])]
           h == Head(d[u])
<1>1. /\ c \in Seq(Seq(Update)) /\ b \in Seq(Update) /\ d \in [Update -> Seq(Update)]
      /\ i \subseteq Update /\ C \subseteq Nat /\ S \subseteq Update /\ k \in {1, 2}
      /\ d[u] \in Seq(Update)
  BY DEF Row
<1>2. /\ Tail(d[u]) \in Seq(Update) /\ DOMAIN Tail(d[u]) = 1..(Len(d[u]) - 1)
      /\ \A n \in 1..(Len(d[u]) - 1) : Tail(d[u])[n] = d[u][n + 1] /\ n + 1 \in 1..Len(d[u])
      /\ h = d[u][1] /\ 1 \in 1..Len(d[u]) /\ Len(d[u]) - 1 \in Nat
      /\ Range(d[u]) = {h} \cup Range(Tail(d[u]))
      /\ DOMAIN d[u] = 1..Len(d[u])
  BY <1>1, Shorter, RangeIn
<1> DEFINE t == Tail(d[u])
<1>3. e \in [Update -> Seq(Update)] /\ e[u] = t /\ \A v \in Update : v # u => e[v] = d[v]
  BY <1>1, <1>2
<1> HIDE DEF e, t, h
<1>4. Lined(c, b, d, i)
  BY DEF Row
<1>5. \A j, m \in DOMAIN d[u] : d[u][j] = d[u][m] => j = m
  BY <1>4 DEF Lined, Buffered
<1>6. h \notin Range(t)
  <2>1. \A n \in 1..(Len(d[u]) - 1) : t[n] # h
    <3> SUFFICES ASSUME NEW n \in 1..(Len(d[u]) - 1) PROVE t[n] # h
      OBVIOUS
    <3>1. n + 1 \in 1..Len(d[u]) /\ t[n] = d[u][n + 1] /\ n + 1 # 1
      BY <1>2 DEF t
    <3> QED BY <1>2, <1>5, <3>1
  <2> QED BY <1>2, <2>1 DEF t, Range
<1>7. Buffered(t)
  <2>1. \A j, m \in DOMAIN t : t[j] = t[m] => j = m
    <3> SUFFICES ASSUME NEW j \in DOMAIN t, NEW m \in DOMAIN t, t[j] = t[m] PROVE j = m
      OBVIOUS
    <3>1. j + 1 \in DOMAIN d[u] /\ m + 1 \in DOMAIN d[u] /\ d[u][j + 1] = d[u][m + 1]
      BY <1>2 DEF t
    <3>2. j + 1 = m + 1 /\ j \in Nat /\ m \in Nat
      BY <1>2, <1>5, <3>1 DEF t
    <3> QED BY <3>2
  <2>2. ~joining => t = <<>>
    <3> SUFFICES ASSUME ~joining PROVE FALSE
      OBVIOUS
    <3> QED BY <1>4 DEF Lined, Buffered
  <2> QED BY <1>2, <1>4, <2>1, <2>2 DEF Lined, Buffered, t
<1>8. /\ h \in Range(d[u]) /\ Range(t) \subseteq Range(d[u])
  BY <1>2 DEF t
<1>9. Lined(c, b, e, i \ {h})
  <2>1. \A n \in DOMAIN c : Grouped(c[n]) /\ Range(c[n]) \subseteq i \ {h} /\ Apart(c[n], b)
    BY <1>4, <1>8 DEF Lined, Apart
  <2>2. \A m, n \in DOMAIN c : m # n => Apart(c[m], c[n])
    BY <1>4 DEF Lined
  <2>3. Buffered(b) /\ Range(b) \subseteq i \ {h}
    BY <1>4, <1>8 DEF Lined, Apart
  <2>4. ASSUME NEW v \in Update
        PROVE  /\ Buffered(e[v]) /\ Range(e[v]) \subseteq i \ {h}
               /\ Apart(e[v], b) /\ \A n \in DOMAIN c : Apart(e[v], c[n])
    <3>1. CASE v = u
      BY <1>3, <1>4, <1>6, <1>7, <1>8, <3>1 DEF Lined, Apart
    <3>2. CASE v # u
      <4>1. Apart(d[v], d[u])
        BY <1>4, <3>2 DEF Lined
      <4> QED BY <1>3, <1>4, <1>8, <3>2, <4>1 DEF Lined, Apart
    <3> QED BY <3>1, <3>2
  <2>5. \A v, w \in Update : v # w => Apart(e[v], e[w])
    <3>1. \A v, w \in Update : v # w => Apart(d[v], d[w])
      BY <1>4 DEF Lined
    <3>2. \A v \in Update : Range(e[v]) \subseteq Range(d[v])
      BY <1>3, <1>8
    <3> QED BY <3>1, <3>2 DEF Apart
  <2> QED BY <2>1, <2>2, <2>3, <2>4, <2>5 DEF Lined
<1> QED BY <1>1, <1>3, <1>9 DEF Row, Fresh, e, h, t

(* The running job leaves the chain. *)
LEMMA RowLeaves ==
  ASSUME NEW c, NEW b, NEW d, NEW i, NEW C, NEW S, NEW k, Row(c, b, d, i, C, S, k), c # <<>>
  PROVE  Row(Tail(c), b, d, i \ Range(Head(c)), C, S, 1)
<1> DEFINE e == Tail(c)
           h == Head(c)
<1>1. /\ c \in Seq(Seq(Update)) /\ b \in Seq(Update) /\ d \in [Update -> Seq(Update)]
      /\ i \subseteq Update /\ C \subseteq Nat /\ S \subseteq Update /\ k \in {1, 2}
      /\ DOMAIN c = 1..Len(c)
  BY RangeIn DEF Row
<1>2. /\ e \in Seq(Seq(Update)) /\ DOMAIN e = 1..(Len(c) - 1)
      /\ \A n \in DOMAIN e : e[n] = c[n + 1] /\ n + 1 \in 1..Len(c)
      /\ h = c[1] /\ 1 \in 1..Len(c) /\ Len(c) - 1 \in Nat
  BY <1>1, Shorter
<1> HIDE DEF e, h
<1>3. \A n \in DOMAIN e : e[n] = c[n + 1] /\ n + 1 \in DOMAIN c /\ n + 1 # 1 /\ n + 1 >= k /\ n >= 1
  BY <1>1, <1>2
<1>4. \A m, n \in DOMAIN e : (m # n => m + 1 # n + 1) /\ (m < n => m + 1 < n + 1)
  BY <1>2
<1>5. Lined(e, b, d, i \ Range(h))
  <2>1. Lined(c, b, d, i) /\ 1 \in DOMAIN c
    BY <1>1, <1>2 DEF Row
  <2>2. \A n \in DOMAIN e : Grouped(e[n]) /\ Range(e[n]) \subseteq i \ Range(h) /\ Apart(e[n], b)
    <3> SUFFICES ASSUME NEW n \in DOMAIN e
                 PROVE  Grouped(e[n]) /\ Range(e[n]) \subseteq i \ Range(h) /\ Apart(e[n], b)
      OBVIOUS
    <3>1. Grouped(c[n + 1]) /\ Range(c[n + 1]) \subseteq i /\ Apart(c[n + 1], b)
      BY <1>3, <2>1 DEF Lined
    <3>2. Apart(c[1], c[n + 1])
      BY <1>3, <2>1 DEF Lined
    <3> QED BY <1>2, <1>3, <3>1, <3>2 DEF Apart
  <2>3. \A m, n \in DOMAIN e : m # n => Apart(e[m], e[n])
    BY <1>3, <1>4, <2>1 DEF Lined
  <2>4. Buffered(b) /\ Range(b) \subseteq i \ Range(h)
    BY <1>2, <2>1 DEF Lined, Apart
  <2>5. ASSUME NEW v \in Update
        PROVE  /\ Buffered(d[v]) /\ Range(d[v]) \subseteq i \ Range(h) /\ Apart(d[v], b)
               /\ \A n \in DOMAIN e : Apart(d[v], e[n])
               /\ \A w \in Update : v # w => Apart(d[v], d[w])
    <3>1. Apart(d[v], c[1]) /\ Buffered(d[v]) /\ Range(d[v]) \subseteq i /\ Apart(d[v], b)
      BY <2>1 DEF Lined
    <3>2. \A n \in DOMAIN c : Apart(d[v], c[n])
      BY <2>1 DEF Lined
    <3>3. \A w \in Update : v # w => Apart(d[v], d[w])
      BY <2>1 DEF Lined
    <3> QED BY <1>2, <1>3, <3>1, <3>2, <3>3 DEF Apart
  <2> QED BY <2>2, <2>3, <2>4, <2>5 DEF Lined
<1>6. Undisturbed => Fresh(e, b, i \ Range(h), C, S, 1)
  BY <1>3 DEF Row, Fresh
<1>7. Orderly => Ranked(e, b, C)
  BY <1>3, <1>4 DEF Row, Ranked
<1>8. Sequential => Later(e, b, C, S, 1)
  BY <1>3 DEF Row, Later
<1> QED BY <1>1, <1>2, <1>5, <1>6, <1>7, <1>8 DEF Row, e, h

(* The running job becomes a turn. *)
LEMMA RowPosts ==
  ASSUME NEW c, NEW b, NEW d, NEW i, NEW C, NEW S, Row(c, b, d, i, C, S, 1), c # <<>>
  PROVE  Row(c, b, d, i, C, S \cup Range(Head(c)), 2)
<1> DEFINE T == S \cup Range(Head(c))
<1>1. /\ c \in Seq(Seq(Update)) /\ b \in Seq(Update) /\ d \in [Update -> Seq(Update)]
      /\ i \subseteq Update /\ C \subseteq Nat /\ S \subseteq Update
      /\ DOMAIN c = 1..Len(c)
  BY RangeIn DEF Row
<1>2. Head(c) = c[1] /\ 1 \in DOMAIN c /\ c[1] \in Seq(Update)
  BY <1>1, Shorter
<1>3. \A n \in DOMAIN c : n # 1 => 1 < n /\ n >= 2
  BY <1>1
<1>4. T = S \cup Range(c[1]) /\ T \subseteq Update
  BY <1>1, <1>2, RangeIn
<1> HIDE DEF T
<1>5. Lined(c, b, d, i)
  BY DEF Row
<1>6. Undisturbed => Fresh(c, b, i, C, T, 2)
  <2> SUFFICES ASSUME Undisturbed PROVE Fresh(c, b, i, C, T, 2)
    OBVIOUS
  <2>1. Fresh(c, b, i, C, S, 1)
    BY DEF Row
  <2>2. Range(c[1]) \subseteq i /\ Range(c[1]) \cap Range(b) = {}
    BY <1>2, <1>5 DEF Lined, Apart
  <2>3. ASSUME NEW n \in DOMAIN c, n >= 2 PROVE T \cap Range(c[n]) = {}
    <3>1. n # 1 /\ n >= 1
      BY <1>1, <2>3
    <3>2. Range(c[1]) \cap Range(c[n]) = {}
      BY <1>2, <1>5, <3>1 DEF Lined, Apart
    <3>3. S \cap Range(c[n]) = {}
      BY <2>1, <3>1 DEF Fresh
    <3> QED BY <1>4, <3>2, <3>3
  <2> QED BY <1>4, <2>1, <2>2, <2>3 DEF Fresh
<1>7. Sequential => Later(c, b, C, T, 2)
  <2> SUFFICES ASSUME Sequential PROVE Later(c, b, C, T, 2)
    OBVIOUS
  <2>1. Later(c, b, C, S, 1) /\ Ranked(c, b, C)
    BY DEF Row, Sequential, Orderly
  <2>2. ASSUME NEW n \in DOMAIN c, n >= 2 \/ ~joining PROVE UpTo(T, Range(c[n]))
    <3>1. UpTo(S, Range(c[n]))
      BY <1>1, <2>1 DEF Later
    <3>2. CASE n = 1
      <4>1. ~joining
        BY <2>2, <3>2
      <4>2. Len(c[1]) = 1
        BY <1>2, <1>5, <4>1 DEF Lined, Grouped
      <4>3. Range(c[1]) = {c[1][1]} /\ c[1][1] \in Nat
        <5>1. 1 \in 1..Len(c[1]) /\ \A j \in 1..Len(c[1]) : j = 1
          BY <4>2
        <5>2. \A x : x \in Range(c[1]) <=> x = c[1][1]
          BY <1>2, <5>1, InRange
        <5>3. Range(c[1]) \subseteq Update
          BY <1>2, RangeIn
        <5> QED BY <5>2, <5>3, UpdatesAreNumbers
      <4> QED BY <1>4, <3>1, <3>2, <4>3 DEF UpTo
    <3>3. CASE n # 1
      <4>1. UpTo(Range(c[1]), Range(c[n]))
        BY <1>2, <1>3, <2>1, <3>3 DEF Ranked
      <4> QED BY <1>4, <3>1, <4>1 DEF UpTo
    <3> QED BY <3>2, <3>3
  <2>3. UpTo(T, Range(b)) /\ UpTo(T, C)
    BY <1>2, <1>4, <2>1 DEF Later, Ranked, UpTo
  <2> QED BY <2>2, <2>3 DEF Later
<1> QED BY <1>1, <1>4, <1>5, <1>6, <1>7 DEF Row, T

(* Later in the job's life there is less to say. *)
LEMMA RowAdvances ==
  ASSUME NEW c, NEW b, NEW d, NEW i, NEW C, NEW S, NEW k, Row(c, b, d, i, C, S, k),
         NEW D \in SUBSET Nat, Orderly => D \subseteq C, NEW j \in {1, 2}, k <= j
  PROVE  Row(c, b, d, i, D, S, j)
<1>1. \A n \in DOMAIN c : n >= j => n >= k
  BY RangeIn DEF Row
<1> QED BY <1>1 DEF Row, Fresh, Ranked, Later, UpTo, Orderly, Sequential

(* The row of the next state, from what it is where the adapter stands now. *)
Fades ==
  /\ kind' = kind /\ joining' = joining
  /\ Undisturbed' => Undisturbed
  /\ Orderly' => Orderly
  /\ Sequential' => Sequential

LEMMA RowHolds ==
  ASSUME Fades, Row(chain', burst', dropped', inflight', Coming', Submitted', FirstUnposted')
  PROVE  RowInv'
BY DEF Fades, RowInv, Row, Lined, Grouped, Buffered, Text, Fresh, Ranked, Later

-----------------------------------------------------------------------------
(* What every step does to the counts. *)
LEMMA FaultsGrow ==
  ASSUME Types, [Next]_vars
  PROVE  /\ kind' = kind /\ joining' = joining
         /\ crashes' \in Nat /\ errors' \in Nat /\ unreported' \in Nat /\ writeFaults' \in Nat
         /\ crashes <= crashes' /\ errors <= errors' /\ unreported <= unreported'
         /\ writeFaults <= writeFaults'
<1> DEFINE Q == /\ kind' = kind /\ joining' = joining
                /\ crashes' \in Nat /\ errors' \in Nat /\ unreported' \in Nat /\ writeFaults' \in Nat
                /\ crashes <= crashes' /\ errors <= errors' /\ unreported <= unreported'
                /\ writeFaults <= writeFaults'
<1>0. crashes \in Nat /\ errors \in Nat /\ unreported \in Nat /\ writeFaults \in Nat
  BY DEF Types
<1>1. UNCHANGED <<constants, faults>> => Q
  BY <1>0 DEF constants, faults
<1>2. Poll \/ Replay \/ FlushBurst \/ TurnEnds \/ Restart => Q
  BY <1>1 DEF Poll, Replay, FlushBurst, TurnEnds, Restart
<1>3. SaveUpdate \/ SaveOffset => Q
  BY <1>0 DEF SaveUpdate, SaveOffset, WriteFault, constants
<1>4. StartJob \/ Prepare \/ Post \/ Accepted \/ InterruptOwn \/ Announce \/ Deliver => Q
  <2>1. StartJob \/ Post \/ Accepted => Q
    BY <1>1 DEF StartJob, Post, Accepted
  <2>2. LastWord(Parts) => errors' \in Nat /\ errors <= errors'
    BY <1>0 DEF LastWord, Fails
  <2>3. Prepare \/ InterruptOwn \/ Announce \/ Deliver => Q
    BY <1>0, <2>2 DEF Prepare, InterruptOwn, Announce, Deliver, Fails, constants
  <2> QED BY <2>1, <2>3
<1>5. BeginReset \/ CloseSession \/ RemoveFile \/ FinishJob => Q
  BY <1>1 DEF BeginReset, CloseSession, RemoveFile, FinishJob
<1>6. Throw \/ ReportFailure => Q
  BY <1>0 DEF Throw, Fails, ReportFailure, constants
<1>7. ASSUME NEW parts \in timers, Retry(parts) PROVE Q
  BY <1>1, <1>7 DEF Retry
<1>8. ASSUME NEW u \in Update, RunCommand(u) PROVE Q
  <2>1. Discard(u) \/ Stop(u) \/ StopSettles(u) => Q
    BY <1>1 DEF Discard, Stop, StopSettles
  <2>2. PrepareReset(u) \/ InterruptTurn(u) \/ StopReplies(u) => Q
    BY <1>0 DEF PrepareReset, InterruptTurn, StopReplies, Fails, constants
  <2> QED BY <1>8, <2>1, <2>2 DEF RunCommand
<1>9. Crash => Q
  BY <1>0 DEF Crash, constants
<1>10. UNCHANGED vars => Q
  BY <1>1 DEF vars
<1> QED BY <1>2, <1>3, <1>4, <1>5, <1>6, <1>7, <1>8, <1>9, <1>10
        DEF Next, Ingest, RunJob, Retries

LEMMA Fading ==
  ASSUME Types, [Next]_vars
  PROVE  Fades
<1>0. crashes \in Nat /\ unreported \in Nat /\ writeFaults \in Nat
  BY DEF Types
<1>1. /\ kind' = kind /\ joining' = joining
      /\ crashes' = 0 => crashes = 0
      /\ crashes' < 2 => crashes < 2
      /\ unreported' = 0 => unreported = 0
      /\ writeFaults' = 0 => writeFaults = 0
  BY <1>0, FaultsGrow
<1> QED BY <1>1 DEF Fades, Undisturbed, Orderly, Sequential, ReplaysAll

LEMMA RowTypes ==
  ASSUME Types
  PROVE  Coming \subseteq Nat /\ Submitted \subseteq Update /\ FirstUnposted \in {1, 2}
<1>1. ASSUME NEW n \in DOMAIN turns PROVE Range(turns[n]) \subseteq Update
  <2>1. turns[n] \in Seq(Update)
    BY <1>1 DEF Types
  <2> QED BY <2>1, RangeIn
<1> QED BY <1>1 DEF Coming, Submitted, FirstUnposted

(* Where the running job keeps its place. *)
LEMMA FrontStays ==
  ASSUME Types, chain # <<>>, NEW e \in Seq(Update), chain' = Append(chain, e)
  PROVE  chain' # <<>> /\ Head(chain') = Head(chain)
<1>1. chain \in Seq(Seq(Update))
  BY DEF Types
<1>2. chain' \in Seq(Seq(Update)) /\ chain' # <<>> /\ chain'[1] = chain[1]
  <2>1. chain' \in Seq(Seq(Update)) /\ chain' # <<>> /\ \A n \in 1..Len(chain) : chain'[n] = chain[n]
    BY <1>1, Longer
  <2>2. 1 \in 1..Len(chain)
    BY <1>1, Shorter
  <2> QED BY <2>1, <2>2
<1>3. Head(chain) = chain[1] /\ Head(chain') = chain'[1]
  BY <1>1, <1>2, Shorter
<1> QED BY <1>2, <1>3

(* A dispatch, of an update that is Dispatchable if it is not in flight. *)
LEMMA DispatchKeepsRow ==
  ASSUME RowInv, Fades, NEW u \in Update, Dispatch(u),
         Coming' \subseteq Nat, Orderly => Coming' \subseteq Coming,
         u \notin inflight => Dispatchable(u, inflight, Coming, Coming'),
         UNCHANGED <<turns, head, kind, joining>>
  PROVE  RowInv'
<1>0. Submitted' = Submitted /\ FirstUnposted' = FirstUnposted
  BY DEF Submitted, FirstUnposted
<1> DEFINE R(c, b, d, i) == Row(c, b, d, i, Coming', Submitted, FirstUnposted)
<1>1. Row(chain, burst, dropped, inflight, Coming, Submitted, FirstUnposted)
  BY DEF RowInv
<1>2. CASE u \in inflight
  <2>1. UNCHANGED <<chain, burst, dropped, inflight>>
    BY <1>2 DEF Dispatch, dispatched
  <2>2. R(chain, burst, dropped, inflight)
    BY <1>1, RowAdvances DEF FirstUnposted
  <2> QED BY <1>0, <2>1, <2>2, RowHolds
<1>3. CASE u \notin inflight
  <2>0. Dispatchable(u, inflight, Coming, Coming') /\ inflight' = inflight \cup {u}
    BY <1>3 DEF Dispatch
  <2>1. CASE Text(u) /\ DispatchText(u)
    <3>1. CASE joining
      <4>1. R(chain, Append(burst, u), dropped, inflight \cup {u})
        BY <1>1, <2>0, <2>1, <3>1, RowJoins
      <4> QED BY <1>0, <2>0, <2>1, <3>1, <4>1, RowHolds DEF DispatchText
    <3>2. CASE ~joining
      <4>1. burst = <<>> /\ Grouped(<<u>>)
        BY <1>1, <2>1, <3>2, OneIn DEF Row, Lined, Buffered, Grouped
      <4>2. R(Append(chain, <<u>>), burst, dropped, inflight \cup {u})
        BY <1>1, <2>0, <4>1, RowPushes
      <4> QED BY <1>0, <2>0, <2>1, <3>2, <4>2, RowHolds DEF DispatchText
    <3> QED BY <1>1, <3>1, <3>2
  <2>2. CASE kind[u] = "stop" /\ DispatchStop(u)
    <3>1. R(chain, <<>>, [dropped EXCEPT ![u] = burst], inflight \cup {u})
      BY <1>1, <2>0, RowDrops
    <3> QED BY <1>0, <2>0, <2>2, <3>1, RowHolds DEF DispatchStop
  <2>3. CASE kind[u] = "reset" /\ DispatchReset(u)
    <3>1. Row(Flushed, <<>>, dropped, inflight, Coming, Submitted, FirstUnposted)
      BY <1>1, RowFlushes DEF Flushed
    <3>2. Grouped(<<u>>)
      BY <2>3, OneIn DEF Grouped
    <3>3. R(Append(Flushed, <<u>>), <<>>, dropped, inflight \cup {u})
      BY <2>0, <3>1, <3>2, RowPushes
    <3> QED BY <1>0, <2>0, <2>3, <3>3, RowHolds DEF DispatchReset
  <2> QED BY <1>3, <2>1, <2>2, <2>3 DEF Dispatch
<1> QED BY <1>2, <1>3

(* What is to come, while nothing is dispatched. *)
LEMMA ComingStays ==
  ASSUME UNCHANGED <<source, diskOffset>>, queue' \subseteq queue
  PROVE  Coming' \subseteq Coming /\ Coming' \subseteq Nat
BY DEF source, Coming

LEMMA ComingPoll ==
  ASSUME Poll
  PROVE  Coming' \subseteq Coming /\ Coming' \subseteq Nat
BY DEF Poll, disk, Coming

LEMMA ComingRestart ==
  ASSUME Restart
  PROVE  Coming' \subseteq Coming /\ Coming' \subseteq Nat
BY DEF Restart, disk, Coming

LEMMA FirstOfBatch ==
  ASSUME Types, LoopInv, loop \in {"saving", "advancing", "replaying"}
  PROVE  /\ Earliest(batch) \in batch /\ Earliest(batch) \in Update /\ Earliest(batch) \in Nat
         /\ \A v \in batch : Earliest(batch) <= v
         /\ Regular /\ loop = "saving" => Earliest(batch) = offset
         /\ Regular /\ loop = "advancing" => Earliest(batch) + 1 = offset
         /\ Regular /\ loop = "replaying" => Earliest(batch) <= offset
<1>1. /\ Earliest(batch) \in batch /\ Earliest(batch) \in Update /\ Earliest(batch) \in Nat
      /\ \A v \in batch : Earliest(batch) <= v
  BY EarliestIsLeast, UpdatesAreNumbers DEF Types
<1>2. offset \in Nat /\ \A newest \in Update : newest \in Nat
  BY UpdatesAreNumbers DEF Types
<1>3. ASSUME Regular, loop = "saving" PROVE Earliest(batch) = offset
  <2>1. PICK newest \in Update : batch = offset..newest
    BY <1>3 DEF LoopInv
  <2> QED BY <1>1, <1>2, <2>1
<1>4. ASSUME Regular, loop = "advancing" PROVE Earliest(batch) + 1 = offset
  <2>1. PICK newest \in Update : batch = (offset - 1)..newest
    BY <1>4 DEF LoopInv
  <2>2. offset - 1 \in Nat
    BY <1>2, <1>4 DEF LoopInv
  <2> QED BY <1>1, <1>2, <2>1, <2>2
<1>5. Regular /\ loop = "replaying" => Earliest(batch) <= offset
  BY <1>1 DEF LoopInv
<1> QED BY <1>1, <1>3, <1>4, <1>5

LEMMA OrderlyIsRegular ==
  ASSUME Types
  PROVE  Orderly => Regular
BY DEF Orderly, Undisturbed, ReplaysAll, Regular

LEMMA ComingSave ==
  ASSUME Types, LoopInv, SaveUpdate
  PROVE  Coming' \subseteq Nat /\ (Orderly => Coming' \subseteq Coming)
<1>1. Coming' \subseteq Nat
  BY DEF Coming
<1>2. ASSUME Regular PROVE Coming' \subseteq Coming
  <2>1. loop = "saving" /\ Earliest(batch) = offset /\ offset \in Nat
    BY <1>2, FirstOfBatch, UpdatesAreNumbers DEF SaveUpdate, Types
  <2>2. CASE loop' = "poll" /\ offset' = offset
    BY <2>1, <2>2 DEF Coming
  <2>3. CASE loop' = "advancing" /\ offset' = offset + 1
    BY <2>1, <2>3 DEF Coming
  <2> QED BY <2>1, <2>2, <2>3 DEF SaveUpdate
<1> QED BY <1>1, <1>2, OrderlyIsRegular

(* The update read first is behind everything that is still to come. *)
LEMMA ComingDispatch ==
  ASSUME Types, LoopInv, SaveOffset \/ Replay
  PROVE  /\ Coming' \subseteq Nat
         /\ Orderly => /\ Coming' \subseteq Coming /\ Earliest(batch) \in Coming
                       /\ UpTo({Earliest(batch)}, Coming')
         /\ Undisturbed => Earliest(batch) \notin Coming'
<1> DEFINE e == Earliest(batch)
<1>1. Coming' \subseteq Nat
  BY DEF Coming
<1>2. e \in batch /\ e \in Nat /\ offset \in Nat /\ batch \subseteq Nat /\ \A v \in batch : e <= v
  <2>1. loop \in {"advancing", "replaying"}
    BY DEF SaveOffset, Replay
  <2>2. offset \in Nat /\ batch \subseteq Nat
    BY UpdatesAreNumbers DEF Types
  <2> QED BY <2>1, <2>2, FirstOfBatch
<1> HIDE DEF e
<1>3. ASSUME Regular PROVE Coming' \subseteq Coming /\ e \in Coming /\ UpTo({e}, Coming')
  <2>1. CASE SaveOffset
    <3>1. loop = "advancing" /\ e + 1 = offset /\ offset' = offset /\ loop' \in {"poll", "saving"}
      BY <1>3, <2>1, FirstOfBatch DEF SaveOffset, e
    <3>2. Coming' = {u \in Nat : u >= offset} /\ Coming = {u \in Nat : u + 1 >= offset}
      BY <3>1 DEF Coming
    <3> QED BY <1>2, <3>1, <3>2 DEF UpTo
  <2>2. CASE Replay
    <3>1. loop = "replaying" /\ e <= offset /\ offset' = offset /\ batch' = batch \ {e}
          /\ loop' = IF batch' = {} THEN "poll" ELSE "replaying"
      BY <1>3, <2>2, FirstOfBatch DEF Replay, e
    <3>2. /\ Coming = {u \in Nat : u \in batch \/ u >= offset}
          /\ Coming' \subseteq {u \in Nat : u \in batch \/ u >= offset}
      BY <3>1 DEF Coming
    <3> QED BY <1>2, <3>1, <3>2 DEF UpTo
  <2> QED BY <2>1, <2>2
<1>4. ASSUME Undisturbed PROVE e \notin Coming'
  <2>1. crashes = 0 /\ Regular
    BY <1>4 DEF Undisturbed, Regular
  <2>2. SaveOffset /\ loop = "advancing" /\ e + 1 = offset
    BY <2>1, FirstOfBatch DEF LoopInv, Replay, SaveOffset, e
  <2>3. offset' = offset /\ loop' \in {"poll", "saving"}
    BY <2>2 DEF SaveOffset
  <2> QED BY <1>2, <2>2, <2>3 DEF Coming
<1> QED BY <1>1, <1>3, <1>4, OrderlyIsRegular DEF e

LEMMA RowStands ==
  ASSUME RowInv, Types, Fades, UNCHANGED <<chain, burst, dropped, inflight, turns>>,
         Coming' \subseteq Nat, Orderly => Coming' \subseteq Coming,
         FirstUnposted <= FirstUnposted'
  PROVE  RowInv'
<1>1. Submitted' = Submitted /\ FirstUnposted \in {1, 2} /\ FirstUnposted' \in {1, 2}
  BY DEF Submitted, FirstUnposted
<1>2. Row(chain, burst, dropped, inflight, Coming', Submitted, FirstUnposted')
  BY <1>1, RowAdvances DEF RowInv
<1> QED BY <1>1, <1>2, RowHolds

LEMMA PostKeepsRow ==
  ASSUME IInv, Fades, Post
  PROVE  RowInv'
<1>1. /\ chain # <<>> /\ chain \in Seq(Seq(Update)) /\ turns \in Seq(Seq(Update))
      /\ Parts \in Seq(Update) /\ FirstUnposted = 1 /\ FirstUnposted' = 2
      /\ UNCHANGED <<chain, burst, dropped, inflight, source, disk>>
  <2>1. chain # <<>> /\ chain \in Seq(Seq(Update)) /\ turns \in Seq(Seq(Update))
    BY DEF IInv, JobInv, Types, Post
  <2>2. Parts \in Seq(Update)
    BY <2>1, Shorter DEF Parts
  <2> QED BY <2>1, <2>2 DEF Post, FirstUnposted, dispatched, commands, Answer, Settle
<1>2. Coming' = Coming /\ Coming \subseteq Nat
  BY <1>1 DEF source, disk, Coming
<1>3. Row(chain, burst, dropped, inflight, Coming, Submitted, 1)
  BY <1>1 DEF IInv, RowInv
<1>4. CASE turns' = turns
  BY <1>1, <1>2, <1>4, RowStands DEF IInv, disk
<1>5. CASE turns' = Append(turns, Parts)
  <2>1. Submitted' = Submitted \cup Range(Head(chain))
    <3>1. /\ \A n \in DOMAIN turns : n \in DOMAIN turns' /\ turns'[n] = turns[n]
          /\ \A n \in DOMAIN turns' : n \in DOMAIN turns \/ turns'[n] = Parts
          /\ Len(turns) + 1 \in DOMAIN turns' /\ turns'[Len(turns) + 1] = Parts
      BY <1>1, <1>5, Longer, RangeIn
    <3> QED BY <3>1 DEF Submitted, Parts
  <2>2. Row(chain, burst, dropped, inflight, Coming, Submitted', 2)
    BY <1>1, <1>3, <2>1, RowPosts
  <2> QED BY <1>1, <1>2, <2>2, RowHolds
<1> QED BY <1>4, <1>5 DEF Post

LEMMA LeaveKeepsRow ==
  ASSUME IInv, Fades, LeaveChain, head \in {"settling", "failed"},
         UNCHANGED <<disk, source, burst, dropped, turns>>
  PROVE  RowInv'
<1>1. chain # <<>> /\ FirstUnposted' = 1 /\ Submitted' = Submitted /\ Coming' = Coming
  BY DEF IInv, JobInv, LeaveChain, FirstUnposted, Submitted, Coming, disk, source
<1>2. Row(chain, burst, dropped, inflight, Coming, Submitted, FirstUnposted)
  BY DEF IInv, RowInv
<1>3. Row(Tail(chain), burst, dropped, inflight \ Range(Head(chain)), Coming, Submitted, 1)
  BY <1>1, <1>2, RowLeaves
<1> QED BY <1>1, <1>3, RowHolds DEF LeaveChain, Parts

LEMMA JobKeepsRow ==
  ASSUME IInv, Fades, RunJob
  PROVE  RowInv'
<1> USE RowStands, ComingStays DEF IInv, disk, source, dispatched, commands, daemon
<1>1. CASE StartJob
  BY <1>1 DEF StartJob, FirstUnposted
<1>2. CASE Prepare
  BY <1>2 DEF Prepare, FirstUnposted, LastWord, Answer, Settle
<1>3. CASE Post
  BY <1>3, PostKeepsRow
<1>4. CASE Accepted
  BY <1>4 DEF Accepted, FirstUnposted
<1>5. CASE InterruptOwn
  BY <1>5 DEF InterruptOwn, FirstUnposted, LastWord, Answer, Settle
<1>6. CASE Announce
  BY <1>6 DEF Announce, FirstUnposted, LastWord, Answer, Settle
<1>7. CASE Deliver
  BY <1>7 DEF Deliver, FirstUnposted, Settle
<1>8. CASE BeginReset
  BY <1>8 DEF BeginReset, FirstUnposted, Answer, Settle
<1>9. CASE CloseSession
  BY <1>9 DEF CloseSession, FirstUnposted, Answer, Settle
<1>10. CASE RemoveFile
  BY <1>10 DEF RemoveFile, FirstUnposted
<1>11. CASE FinishJob
  BY <1>11, LeaveKeepsRow DEF FinishJob
<1>12. CASE Throw
  BY <1>12 DEF Throw, FirstUnposted
<1>13. CASE ReportFailure
  <2>1. CASE Answer(Parts) /\ UNCHANGED <<inflight, chain>>
    BY <1>13, <2>1 DEF ReportFailure, FirstUnposted, Answer, Settle
  <2>2. CASE LeaveChain
    BY <1>13, <2>2, LeaveKeepsRow DEF ReportFailure
  <2> QED BY <1>13, <2>1, <2>2 DEF ReportFailure
<1> QED BY <1>1, <1>2, <1>3, <1>4, <1>5, <1>6, <1>7, <1>8, <1>9, <1>10, <1>11, <1>12, <1>13 DEF RunJob

LEMMA CommandKeepsRow ==
  ASSUME IInv, Fades, NEW u \in Update, RunCommand(u)
  PROVE  RowInv'
<1> USE DEF disk, source, dispatched, commands, daemon, job
<1>0. /\ Row(chain, burst, dropped, inflight, Coming, Submitted, FirstUnposted)
      /\ Submitted \subseteq Update /\ FirstUnposted \in {1, 2}
  BY RowTypes DEF IInv, RowInv
<1>1. CASE Discard(u)
  <2>1. /\ Submitted' = Submitted /\ FirstUnposted' = FirstUnposted
        /\ Coming' \subseteq Coming /\ Coming' \subseteq Nat
    BY <1>1, ComingStays DEF Discard, Submitted, FirstUnposted
  <2>2. Row(chain, burst, [dropped EXCEPT ![u] = Tail(dropped[u])], inflight \ {Head(dropped[u])},
            Coming, Submitted, FirstUnposted)
    BY <1>0, <1>1, RowDiscards DEF Discard
  <2>3. Row(chain, burst, [dropped EXCEPT ![u] = Tail(dropped[u])], inflight \ {Head(dropped[u])},
            Coming', Submitted, FirstUnposted)
    BY <1>0, <2>1, <2>2, RowAdvances
  <2> QED BY <1>1, <2>1, <2>3, RowHolds DEF Discard
<1>2. CASE Stop(u)
  BY <1>2, RowStands, ComingStays DEF Stop, FirstUnposted, IInv
<1>3. CASE PrepareReset(u)
  BY <1>3, RowStands, ComingStays DEF PrepareReset, FirstUnposted, IInv
<1>4. CASE InterruptTurn(u)
  BY <1>4, RowStands, ComingStays DEF InterruptTurn, FirstUnposted, IInv
<1>5. ASSUME kind[u] = "stop", inflight' = inflight \ {u}, queue' \subseteq queue,
             UNCHANGED <<chain, burst, dropped, turns, head, source, diskOffset>>
      PROVE  RowInv'
  <2>1. /\ Submitted' = Submitted /\ FirstUnposted' = FirstUnposted
        /\ Coming' \subseteq Coming /\ Coming' \subseteq Nat
    BY <1>5, ComingStays DEF Submitted, FirstUnposted
  <2>2. Row(chain, burst, dropped, inflight \ {u}, Coming, Submitted, FirstUnposted)
    BY <1>0, <1>5, RowReleases DEF Text
  <2>3. Row(chain, burst, dropped, inflight \ {u}, Coming', Submitted, FirstUnposted)
    BY <1>0, <2>1, <2>2, RowAdvances
  <2> QED BY <1>5, <2>1, <2>3, RowHolds
<1>6. CASE StopReplies(u)
  <2>1. command[u] \in {"replying", "erring"} /\ kind[u] = "stop"
    BY <1>6 DEF StopReplies, At, IInv, CommandInv
  <2>2. CASE UNCHANGED inflight
    BY <1>6, <2>2, RowStands, ComingStays DEF StopReplies, FirstUnposted, IInv
  <2>3. CASE inflight' = inflight \ {u}
    BY <1>5, <1>6, <2>1, <2>3 DEF StopReplies
  <2> QED BY <1>6, <2>2, <2>3 DEF StopReplies
<1>7. CASE StopSettles(u)
  <2>1. command[u] = "settling" /\ kind[u] = "stop"
    BY <1>7 DEF StopSettles, At, IInv, CommandInv
  <2> QED BY <1>5, <1>7, <2>1 DEF StopSettles
<1> QED BY <1>1, <1>2, <1>3, <1>4, <1>6, <1>7 DEF RunCommand

LEMMA RetryKeepsRow ==
  ASSUME IInv, Fades, NEW parts \in timers, Retry(parts)
  PROVE  RowInv'
<1>1. /\ parts \in Seq(Update) /\ unreported # 0 /\ Coming' = Coming
      /\ Len(parts) \in Nat /\ (Len(parts) = 1 => Head(parts) \in Update)
  <2>1. parts \in Seq(Update) /\ parts # <<>> /\ unreported # 0
    BY DEF IInv, Types, TimersInv
  <2>2. Head(parts) \in Update
    BY <2>1, Shorter
  <2> QED BY <2>1, <2>2 DEF Retry, disk, source, Coming
<1>2. ~Orderly /\ ~Undisturbed /\ Coming \subseteq Nat
  BY <1>1, RowTypes DEF Orderly, Undisturbed, ReplaysAll, IInv
<1>3. CASE Len(parts) = 1
  <2>1. Dispatch(Head(parts)) /\ Head(parts) \in Update
    BY <1>1, <1>3 DEF Retry
  <2>2. Head(parts) \notin inflight => Dispatchable(Head(parts), inflight, Coming, Coming')
    BY <1>1, <1>2, <2>1 DEF Dispatchable
  <2>3. UNCHANGED <<turns, head, kind, joining>>
    BY DEF Retry, daemon, constants
  <2> QED BY <1>1, <1>2, <2>1, <2>2, <2>3, DispatchKeepsRow DEF IInv
<1>4. CASE Len(parts) # 1
  <2>1. /\ joining /\ \A u \in Range(parts) : Text(u)
    <3>1. parts # <<>> /\ (~joining => Len(parts) = 1)
          /\ (Len(parts) > 1 => \A u \in Range(parts) : Text(u))
      BY DEF IInv, TimersInv
    <3>2. Len(parts) > 1
      <4>1. Len(parts) - 1 \in Nat
        BY <1>1, <3>1, Shorter
      <4> QED BY <1>1, <1>4, <4>1
    <3> QED BY <1>4, <3>1, <3>2 DEF IInv, Types
  <2>2. PICK again \in Again(parts) :
          /\ inflight' = inflight \cup Range(again)
          /\ burst' = burst \o again
          /\ UNCHANGED <<chain, command, dropped>>
    BY <1>4 DEF Retry
  <2> DEFINE missing == Range(parts) \ inflight
  <2>3. /\ again \in [1..Cardinality(missing) -> missing]
        /\ \A i, j \in DOMAIN again : i < j =>
             \E m, n \in DOMAIN parts : m < n /\ parts[m] = again[i] /\ parts[n] = again[j]
    BY <2>2 DEF Again
  <2>4. missing \subseteq Update /\ Cardinality(missing) \in Nat
    <3>1. missing \subseteq Update
      BY <1>1, RangeIn
    <3>2. IsFiniteSet(Update)
      BY UpdatesAreNumbers, FS_Interval
    <3> HIDE DEF missing
    <3> QED BY <3>1, <3>2, FS_Subset, FS_CardinalityType
  <2>5. again \in Seq(Update) /\ DOMAIN again = 1..Cardinality(missing)
    <3> DEFINE k == Cardinality(missing)
    <3>1. k \in Nat /\ again \in [1..k -> Update]
      BY <2>3, <2>4
    <3> HIDE DEF k
    <3>2. DOMAIN again = 1..k
      BY <3>1
    <3>3. again \in Seq(Update)
      BY <3>1
    <3> QED BY <3>2, <3>3 DEF k
  <2>6. \A u \in Range(again) : u \in missing
    BY <2>3 DEF Range
  <2>7. \A i, j \in DOMAIN again : i < j => again[i] # again[j]
    <3> SUFFICES ASSUME NEW i \in DOMAIN again, NEW j \in DOMAIN again, i < j
                 PROVE  again[i] # again[j]
      OBVIOUS
    <3>1. PICK m, n \in DOMAIN parts : m < n /\ parts[m] = again[i] /\ parts[n] = again[j]
      BY <2>3
    <3>2. m \in Nat /\ n \in Nat /\ m # n
      BY <1>1, <3>1, RangeIn
    <3> QED BY <3>1, <3>2 DEF IInv, TimersInv
  <2>8. \A i, j \in DOMAIN again : again[i] = again[j] => i = j
    <3>1. \A i \in DOMAIN again : i \in Nat
      BY <2>4, <2>5
    <3>2. \A i, j \in DOMAIN again : i = j \/ i < j \/ j < i
      BY <3>1
    <3> QED BY <2>7, <3>2
  <2> HIDE DEF missing
  <2>9. Row(chain, burst \o again, dropped, inflight \cup Range(again), Coming, Submitted, FirstUnposted)
    <3>1. Row(chain, burst, dropped, inflight, Coming, Submitted, FirstUnposted)
      BY DEF IInv, RowInv
    <3>2. \A u \in Range(again) : Text(u) /\ u \notin inflight
      BY <2>1, <2>6 DEF missing
    <3> QED BY <1>1, <1>2, <2>1, <2>5, <2>8, <3>1, <3>2, RowGathers
  <2>10. Submitted' = Submitted /\ FirstUnposted' = FirstUnposted
    BY DEF Retry, daemon, Submitted, FirstUnposted
  <2> QED BY <1>1, <2>2, <2>9, <2>10, RowHolds
<1> QED BY <1>1, <1>3, <1>4 DEF Retry

LEMMA CrashKeepsRow ==
  ASSUME IInv, Fades, Crash
  PROVE  RowInv'
<1>1. /\ chain' = <<>> /\ burst' = <<>> /\ dropped' = [u \in Update |-> <<>>] /\ inflight' = {}
      /\ Submitted' = Submitted /\ FirstUnposted' = 1 /\ crashes' = crashes + 1
      /\ Coming' = {u \in Nat : u \in queue \/ u >= diskOffset}
  BY DEF Crash, daemon, disk, Submitted, FirstUnposted, Coming
<1>2. Range(<<>>) = {} /\ DOMAIN <<>> = {}
  BY NoneIn
<1> DEFINE none == [u \in Update |-> <<>>]
           C == {u \in Nat : u \in queue \/ u >= diskOffset}
<1>3. Lined(<<>>, <<>>, none, {})
  BY <1>2 DEF Lined, Buffered, Apart
<1>4. ~Undisturbed'
  BY <1>1 DEF Undisturbed, IInv, Types
<1>5. Ranked(<<>>, <<>>, C)
  BY <1>2 DEF Ranked, Rising, UpTo
<1>6. ASSUME Sequential' PROVE UpTo(Submitted, C)
  <2>1. ReplaysAll' /\ ~joining /\ crashes = 0
    <3>1. ReplaysAll' /\ ~joining' /\ crashes' < 2
      BY <1>4, <1>6 DEF Sequential
    <3> QED BY <1>1, <3>1 DEF Fades, IInv, Types
  <2>2. ReplaysAll
    BY <2>1 DEF ReplaysAll, Crash, constants
  <2>3. Filed /\ Sequential
    BY <2>1, <2>2 DEF IInv, FiledInv, Simple, Sequential
  <2>4. Later(chain, burst, Coming, Submitted, FirstUnposted)
    BY <2>3 DEF IInv, RowInv, Row
  <2>5. \A u \in Submitted : u \in Nat /\ u <= diskOffset
    BY <2>3, RowTypes, UpdatesAreNumbers DEF Filed, IInv
  <2>6. diskOffset \in Nat
    BY UpdatesAreNumbers DEF IInv, Types
  <2>7. \A v \in queue : UpTo(Submitted, {v})
    BY <2>1, <2>3, <2>4 DEF Filed, Later, UpTo
  <2> QED BY <2>5, <2>6, <2>7 DEF UpTo
<1>7. Later(<<>>, <<>>, C, Submitted, 1) \/ ~Sequential'
  BY <1>2, <1>6 DEF Later, UpTo
<1>8. Submitted \subseteq Update /\ none \in [Update -> Seq(Update)] /\ C \subseteq Nat
  BY RowTypes DEF IInv
<1> HIDE DEF C, none
<1> QED BY <1>1, <1>3, <1>4, <1>5, <1>7, <1>8
        DEF C, none, RowInv, Row, Fades, Lined, Grouped, Buffered, Text, Fresh, Ranked, Later

LEMMA RowKept ==
  ASSUME IInv, [Next]_vars
  PROVE  RowInv'
<1>0. Fades /\ Types /\ RowInv /\ LoopInv
  BY Fading DEF IInv
<1>1. CASE Poll
  BY <1>0, <1>1, RowStands, ComingPoll DEF Poll, dispatched, job, commands, daemon, FirstUnposted
<1>2. CASE SaveUpdate
  BY <1>0, <1>2, RowStands, ComingSave DEF SaveUpdate, dispatched, job, commands, daemon, FirstUnposted
<1>3. CASE SaveOffset \/ Replay
  <2> DEFINE u == Earliest(batch)
  <2>1. u \in Update /\ Dispatch(u) /\ UNCHANGED <<turns, head, kind, joining>>
    BY <1>0, <1>3, FirstOfBatch DEF SaveOffset, Replay, daemon, constants
  <2>2. u \notin inflight => Dispatchable(u, inflight, Coming, Coming')
    BY <1>0, <1>3, <2>1, ComingDispatch DEF Dispatchable
  <2> QED BY <1>0, <1>3, <2>1, <2>2, ComingDispatch, DispatchKeepsRow
<1>4. CASE FlushBurst
  <2>1. Coming' = Coming /\ Submitted' = Submitted /\ FirstUnposted' = FirstUnposted
    BY <1>4 DEF FlushBurst, source, disk, daemon, Coming, Submitted, FirstUnposted
  <2>2. Row(Append(chain, burst), <<>>, dropped, inflight, Coming, Submitted, FirstUnposted)
    BY <1>0, <1>4, RowFlushes DEF FlushBurst, RowInv
  <2> QED BY <1>0, <1>4, <2>1, <2>2, RowHolds DEF FlushBurst, Flushed, commands
<1>5. CASE RunJob
  BY <1>0, <1>5, JobKeepsRow
<1>6. CASE TurnEnds
  BY <1>0, <1>6, RowStands, ComingStays
     DEF TurnEnds, dispatched, job, commands, disk, source, FirstUnposted
<1>7. CASE Retries
  BY <1>0, <1>7, RetryKeepsRow DEF Retries
<1>8. ASSUME NEW u \in Update, RunCommand(u) PROVE RowInv'
  BY <1>0, <1>8, CommandKeepsRow
<1>9. CASE Crash
  BY <1>0, <1>9, CrashKeepsRow
<1>10. CASE Restart
  BY <1>0, <1>10, RowStands, ComingRestart DEF Restart, dispatched, job, commands, daemon, FirstUnposted
<1>11. CASE UNCHANGED vars
  BY <1>0, <1>11, RowStands, ComingStays
     DEF vars, dispatched, job, commands, daemon, disk, source, FirstUnposted
<1> QED BY <1>1, <1>2, <1>3, <1>4, <1>5, <1>6, <1>7, <1>8, <1>9, <1>10, <1>11 DEF Next, Ingest

-----------------------------------------------------------------------------
(* Types. *)
LEMMA PartsIn ==
  ASSUME Types, chain # <<>>
  PROVE  /\ Parts \in Seq(Update) /\ Range(Parts) \subseteq Update /\ Parts = chain[1]
         /\ 1 \in DOMAIN chain
<1>1. chain \in Seq(Seq(Update))
  BY DEF Types
<1>2. Parts = chain[1] /\ 1 \in DOMAIN chain /\ Parts \in Seq(Update)
  BY <1>1, Shorter, RangeIn DEF Parts
<1> QED BY <1>2, RangeIn

LEMMA PrimaryIn ==
  ASSUME Types, RowInv, chain # <<>>
  PROVE  /\ Parts # <<>> /\ Grouped(Parts) /\ Primary = Parts[1] /\ Primary \in Range(Parts)
         /\ Primary \in Update /\ Range(Parts) \subseteq inflight
<1>1. Parts \in Seq(Update) /\ Parts = chain[1] /\ 1 \in DOMAIN chain /\ Range(Parts) \subseteq Update
  BY PartsIn
<1>2. Grouped(Parts) /\ Range(Parts) \subseteq inflight
  BY <1>1 DEF RowInv, Row, Lined
<1>3. Parts # <<>>
  BY <1>2 DEF Grouped
<1>4. Primary = Parts[1] /\ Primary \in Range(Parts)
  BY <1>1, <1>3, Shorter DEF Primary
<1> QED BY <1>1, <1>2, <1>3, <1>4

(* What the polling loop and a restart leave to the others. *)
LEMMA SourceStays ==
  ASSUME [Next]_vars
  PROVE  \/ Ingest \/ Crash \/ Restart
         \/ UNCHANGED <<confirmed, diskOffset, source>> /\ queue' \subseteq queue
<1> DEFINE Q == UNCHANGED <<confirmed, diskOffset, source>> /\ queue' \subseteq queue
<1>1. CASE FlushBurst \/ TurnEnds
  BY <1>1 DEF FlushBurst, TurnEnds, disk
<1>2. CASE StartJob \/ Prepare \/ Post \/ Accepted \/ InterruptOwn \/ Announce \/ Deliver
  BY <1>2 DEF StartJob, Prepare, Post, Accepted, InterruptOwn, Announce, Deliver, disk
<1>3. CASE BeginReset \/ CloseSession \/ RemoveFile \/ FinishJob \/ Throw \/ ReportFailure
  BY <1>3 DEF BeginReset, CloseSession, RemoveFile, FinishJob, Throw, ReportFailure, disk
<1>4. ASSUME NEW parts \in timers, Retry(parts) PROVE Q
  BY <1>4 DEF Retry, disk
<1>5. ASSUME NEW u \in Update, RunCommand(u) PROVE Q
  BY <1>5 DEF RunCommand, Discard, Stop, PrepareReset, InterruptTurn, StopReplies, StopSettles, disk
<1>6. CASE UNCHANGED vars
  BY <1>6 DEF vars, disk
<1> QED BY <1>1, <1>2, <1>3, <1>4, <1>5, <1>6 DEF Next, RunJob, Retries

LEMMA SourceTyped ==
  ASSUME Types, LoopInv, [Next]_vars
  PROVE  /\ confirmed' \in 1..(MaxUpdate + 1) /\ diskOffset' \in 1..(MaxUpdate + 1)
         /\ offset' \in 1..(MaxUpdate + 1)
         /\ queue' \subseteq Update /\ batch' \subseteq Update
         /\ loop' \in {"poll", "saving", "advancing", "replaying", "down"}
         /\ (loop \in {"saving", "advancing", "replaying"} => batch # {})'
<1> DEFINE Q == /\ confirmed' \in 1..(MaxUpdate + 1) /\ diskOffset' \in 1..(MaxUpdate + 1)
                /\ offset' \in 1..(MaxUpdate + 1)
                /\ queue' \subseteq Update /\ batch' \subseteq Update
                /\ loop' \in {"poll", "saving", "advancing", "replaying", "down"}
                /\ (loop \in {"saving", "advancing", "replaying"} => batch # {})'
<1>0. /\ confirmed \in 1..(MaxUpdate + 1) /\ diskOffset \in 1..(MaxUpdate + 1)
      /\ offset \in 1..(MaxUpdate + 1)
      /\ queue \subseteq Update /\ batch \subseteq Update
      /\ loop \in {"poll", "saving", "advancing", "replaying", "down"}
      /\ (loop \in {"saving", "advancing", "replaying"} => batch # {})
      /\ MaxUpdate \in Nat /\ Update = 1..MaxUpdate
  BY UpdatesAreNumbers DEF Types
<1>1. UNCHANGED <<confirmed, diskOffset, source>> /\ queue' \subseteq queue => Q
  BY <1>0 DEF source
<1>2. CASE Poll
  <2>1. PICK newest \in confirmed'..MaxUpdate : batch' = confirmed'..newest
    BY <1>2 DEF Poll
  <2>2. confirmed' \in 1..(MaxUpdate + 1)
    BY <1>0, <1>2 DEF Poll
  <2>3. batch' \subseteq Update /\ batch' # {}
    BY <1>0, <2>1, <2>2
  <2> QED BY <1>0, <1>2, <2>2, <2>3 DEF Poll, disk
<1>3. CASE SaveUpdate
  <2>1. Earliest(batch) \in Update /\ batch # {}
    BY <1>0, <1>3, FirstOfBatch DEF SaveUpdate
  <2>2. offset' \in 1..(MaxUpdate + 1)
    BY <1>0, <1>3, <2>1 DEF SaveUpdate
  <2> QED BY <1>0, <1>3, <2>1, <2>2 DEF SaveUpdate
<1>4. CASE SaveOffset
  BY <1>0, <1>4 DEF SaveOffset
<1>5. CASE Replay
  BY <1>0, <1>5 DEF Replay, disk
<1>6. CASE Crash
  BY <1>0, <1>6 DEF Crash, disk
<1>7. CASE Restart
  BY <1>0, <1>7 DEF Restart, disk
<1> QED BY <1>1, <1>2, <1>3, <1>4, <1>5, <1>6, <1>7, SourceStays DEF Ingest

LEMMA DispatchCommands ==
  ASSUME NEW u \in Update, Dispatch(u), command \in [Update -> Commands]
  PROVE  /\ command' \in [Update -> Commands]
         /\ \A v \in Update : v # u => command'[v] = command[v]
         /\ command'[u] # command[u] =>
              /\ u \notin inflight /\ u \in inflight'
              /\ \/ kind[u] = "stop" /\ command'[u] = "discarding"
                 \/ kind[u] = "reset" /\ command'[u] = "preparing"
         /\ inflight \subseteq inflight' /\ inflight' \subseteq inflight \cup {u}
BY DEF Dispatch, DispatchText, DispatchStop, DispatchReset, Commands, dispatched

LEMMA AttemptTyped ==
  ASSUME Types, NEW parts \in Seq(Update), parts # <<>>, CountAttempt(parts)
  PROVE  /\ attempts' \in [Update -> Nat] /\ timers' \subseteq Seq(Update) /\ forgone' \subseteq Update
         /\ timers' \subseteq timers \cup {parts}
<1>1. Head(parts) \in Update /\ Range(parts) \subseteq Update
  BY Shorter, RangeIn
<1>2. attempts \in [Update -> Nat] /\ timers \subseteq Seq(Update) /\ forgone \subseteq Update
  BY DEF Types
<1>3. attempts[Head(parts)] + 1 \in Nat
  BY <1>1, <1>2
<1>4. attempts' \in [Update -> Nat]
  BY <1>1, <1>2, <1>3 DEF CountAttempt
<1>5. timers' \subseteq timers \cup {parts} /\ forgone' \subseteq forgone \cup Range(parts)
  BY DEF CountAttempt
<1> QED BY <1>1, <1>2, <1>4, <1>5

LEMMA MemoryTyped ==
  ASSUME Types, RowInv, JobInv, [Next]_vars
  PROVE  /\ left' \in Seq(Update) /\ head' \in Heads /\ cancelled' \in BOOLEAN
         /\ command' \in [Update -> Commands] /\ barriers' \subseteq Update
         /\ forgone' \subseteq Update /\ attempts' \in [Update -> Nat] /\ timers' \subseteq Seq(Update)
<1> DEFINE Q == /\ left' \in Seq(Update) /\ head' \in Heads /\ cancelled' \in BOOLEAN
                /\ command' \in [Update -> Commands] /\ barriers' \subseteq Update
                /\ forgone' \subseteq Update /\ attempts' \in [Update -> Nat]
                /\ timers' \subseteq Seq(Update)
<1>0. /\ left \in Seq(Update) /\ head \in Heads /\ cancelled \in BOOLEAN
      /\ command \in [Update -> Commands] /\ barriers \subseteq Update
      /\ forgone \subseteq Update /\ attempts \in [Update -> Nat] /\ timers \subseteq Seq(Update)
  BY DEF Types
<1>1. <<>> \in Seq(Update) /\ {"idle", "preparing", "posting", "posted", "interrupting", "announcing",
       "waiting", "barrier", "closing", "settling", "failed"} \subseteq Heads
  BY DEF Heads
<1>2. /\ {"none", "discarding", "preparing", "prepared", "refused", "interrupting", "replying",
          "erring", "settling", "threw"} \subseteq Commands
      /\ \A u \in Update, c \in Commands : [command EXCEPT ![u] = c] \in [Update -> Commands]
  BY <1>0 DEF Commands
<1>3. head # "idle" => chain # <<>> /\ Parts \in Seq(Update) /\ Parts # <<>> /\ Primary \in Update
  BY PartsIn, PrimaryIn DEF JobInv
<1>4. CASE Poll \/ SaveUpdate
  BY <1>0, <1>4 DEF Poll, SaveUpdate, job, commands, retries
<1>5. CASE SaveOffset
  BY <1>0, <1>5, DispatchCommands, FirstOfBatch, EarliestIsLeast DEF SaveOffset, retries, Types
<1>6. CASE Replay
  BY <1>0, <1>6, DispatchCommands, EarliestIsLeast DEF Replay, retries, Types
<1>7. CASE FlushBurst \/ TurnEnds
  BY <1>0, <1>7 DEF FlushBurst, TurnEnds, job, commands, retries
<1>8. CASE StartJob
  BY <1>0, <1>1, <1>8 DEF StartJob, commands, retries
<1>9. CASE Prepare \/ Post \/ Accepted \/ InterruptOwn \/ Announce \/ Deliver
  BY <1>0, <1>1, <1>3, <1>9
     DEF Prepare, Post, Accepted, InterruptOwn, Announce, Deliver, LastWord, Answer, Settle, commands,
         retries
<1>10. CASE BeginReset \/ CloseSession
  BY <1>0, <1>1, <1>3, <1>10 DEF BeginReset, CloseSession, Answer, Settle, commands, retries
<1>11. CASE RemoveFile
  BY <1>0, <1>11, Shorter DEF RemoveFile, commands, retries
<1>12. LeaveChain => /\ left' \in Seq(Update) /\ head' \in Heads /\ cancelled' \in BOOLEAN
                     /\ command' \in [Update -> Commands]
  BY <1>0, <1>1, <1>2 DEF LeaveChain
<1>13. CASE FinishJob
  BY <1>0, <1>3, <1>12, <1>13 DEF FinishJob
<1>14. CASE Throw
  BY <1>0, <1>1, <1>14 DEF Throw, retries
<1>15. CASE ReportFailure
  <2>1. CASE Answer(Parts) /\ UNCHANGED <<cancelled, command, retries>>
    BY <1>0, <1>1, <1>3, <1>15, <2>1 DEF ReportFailure, Answer, Settle, retries
  <2>2. CASE CountAttempt(Parts) /\ LeaveChain
    BY <1>0, <1>3, <1>12, <1>15, <2>2, AttemptTyped DEF ReportFailure
  <2> QED BY <1>15, <2>1, <2>2 DEF ReportFailure
<1>16. ASSUME NEW parts \in timers, Retry(parts) PROVE Q
  <2>1. command' \in [Update -> Commands]
    <3>1. CASE Len(parts) = 1
      <4>1. Head(parts) \in Update
        <5>1. parts \in Seq(Update)
          BY <1>0
        <5>2. parts # <<>>
          BY <3>1
        <5> QED BY <5>1, <5>2, Shorter
      <4> QED BY <1>0, <1>16, <3>1, <4>1, DispatchCommands DEF Retry
    <3>2. CASE Len(parts) # 1
      BY <1>0, <1>16, <3>2 DEF Retry
    <3> QED BY <3>1, <3>2
  <2> QED BY <1>0, <1>16, <2>1 DEF Retry
<1>17. ASSUME NEW u \in Update, RunCommand(u) PROVE Q
  <2>1. CASE Discard(u) \/ InterruptTurn(u)
    BY <1>0, <1>2, <1>17, <2>1 DEF Discard, InterruptTurn, At, job, retries
  <2>2. CASE Stop(u) \/ PrepareReset(u)
    BY <1>0, <1>2, <2>2 DEF Stop, PrepareReset, CancelOperation, Operating, retries
  <2>3. CASE StopReplies(u)
    <3>1. <<u>> \in Seq(Update) /\ <<u>> # <<>>
      OBVIOUS
    <3>2. CountAttempt(<<u>>) => /\ forgone' \subseteq Update /\ attempts' \in [Update -> Nat]
                                 /\ timers' \subseteq Seq(Update)
      BY <3>1, AttemptTyped
    <3> QED BY <1>0, <1>2, <2>3, <3>2 DEF StopReplies, At, job, retries
  <2>4. CASE StopSettles(u)
    BY <1>0, <1>2, <2>4 DEF StopSettles, At, job
  <2> QED BY <1>17, <2>1, <2>2, <2>3, <2>4 DEF RunCommand
<1>18. CASE Crash
  BY <1>1, <1>2, <1>18 DEF Crash
<1>19. CASE Restart \/ UNCHANGED vars
  BY <1>0, <1>19 DEF Restart, vars, job, commands, retries
<1> QED BY <1>4, <1>5, <1>6, <1>7, <1>8, <1>9, <1>10, <1>11, <1>13, <1>14, <1>15, <1>16, <1>17, <1>18, <1>19
        DEF Next, Ingest, RunJob, Retries

(* The three outcomes of a submission. *)
LEMMA PostCases ==
  ASSUME Types, RowInv, JobInv, Post
  PROVE  \/ /\ prior[Primary] # 0 /\ turn' = prior[Primary] /\ head' = "posted"
            /\ UNCHANGED <<turns, prior, running, told>>
         \/ /\ head' = "settling" /\ left' = Parts /\ told' = told \cup Range(Parts)
            /\ UNCHANGED <<turn, turns, prior, running>>
         \/ /\ prior[Primary] = 0 /\ running = 0 /\ head' = "posted" /\ told' = told
            /\ turns' \in Seq(Seq(Update)) /\ DOMAIN turns' = 1..(Len(turns) + 1)
            /\ Len(turns') = Len(turns) + 1 /\ turns'[Len(turns) + 1] = Parts
            /\ \A n \in DOMAIN turns : n \in DOMAIN turns' /\ turns'[n] = turns[n] /\ n < Len(turns) + 1
            /\ \A n \in DOMAIN turns' : n # Len(turns) + 1 => n \in DOMAIN turns
            /\ turn' = Len(turns) + 1 /\ running' = Len(turns) + 1
            /\ prior' = [prior EXCEPT ![Primary] = Len(turns) + 1]
<1>1. chain # <<>> /\ turns \in Seq(Seq(Update))
  BY DEF Post, JobInv, Types
<1>2. Parts \in Seq(Update)
  BY <1>1, PartsIn
<1>3. CASE prior[Primary] # 0
  BY <1>3 DEF Post, answers
<1>4. CASE prior[Primary] = 0 /\ running # 0
  BY <1>4 DEF Post, Answer, Settle
<1>5. CASE prior[Primary] = 0 /\ running = 0
  <2>1. turns' = Append(turns, Parts) /\ UNCHANGED told
    BY <1>5 DEF Post, answers
  <2>2. /\ turns' \in Seq(Seq(Update)) /\ DOMAIN turns' = 1..(Len(turns) + 1)
        /\ Len(turns') = Len(turns) + 1 /\ turns'[Len(turns) + 1] = Parts
        /\ \A n \in 1..Len(turns) : turns'[n] = turns[n]
    BY <1>1, <1>2, <2>1, Longer
  <2>3. Len(turns) \in Nat /\ DOMAIN turns = 1..Len(turns)
    BY <1>1, RangeIn
  <2>4. /\ \A n \in DOMAIN turns : n \in DOMAIN turns' /\ turns'[n] = turns[n] /\ n < Len(turns) + 1
        /\ \A n \in DOMAIN turns' : n # Len(turns) + 1 => n \in DOMAIN turns
    BY <2>2, <2>3
  <2>5. turn' = Len(turns) + 1 /\ running' = Len(turns) + 1 /\ head' = "posted"
        /\ prior' = [prior EXCEPT ![Primary] = Len(turns) + 1]
    BY <1>5, <2>2 DEF Post
  <2> QED BY <1>5, <2>1, <2>2, <2>4, <2>5
<1> QED BY <1>3, <1>4, <1>5 DEF Post

(* Everything but a submission leaves the daemon's turns alone. *)
LEMMA TurnsStay ==
  ASSUME [Next]_vars
  PROVE  /\ Post \/ UNCHANGED turns
         /\ Post \/ CloseSession \/ TurnEnds \/ UNCHANGED running
         /\ Post \/ CloseSession \/ UNCHANGED prior
<1> DEFINE Q == UNCHANGED <<turns, running, prior>>
<1>1. CASE Poll \/ SaveUpdate \/ SaveOffset \/ Replay \/ FlushBurst
  BY <1>1 DEF Poll, SaveUpdate, SaveOffset, Replay, FlushBurst, daemon
<1>2. CASE StartJob \/ Prepare \/ Accepted \/ InterruptOwn \/ Announce \/ Deliver
  BY <1>2 DEF StartJob, Prepare, Accepted, InterruptOwn, Announce, Deliver, daemon
<1>3. CASE BeginReset \/ RemoveFile \/ FinishJob \/ Throw \/ ReportFailure
  BY <1>3 DEF BeginReset, RemoveFile, FinishJob, Throw, ReportFailure, daemon
<1>4. CASE CloseSession
  BY <1>4 DEF CloseSession
<1>5. CASE TurnEnds
  BY <1>5 DEF TurnEnds
<1>6. ASSUME NEW parts \in timers, Retry(parts) PROVE Q
  BY <1>6 DEF Retry, daemon
<1>7. ASSUME NEW u \in Update, RunCommand(u) PROVE Q
  BY <1>7 DEF RunCommand, Discard, Stop, PrepareReset, InterruptTurn, StopReplies, StopSettles, daemon
<1>8. CASE Crash \/ Restart \/ UNCHANGED vars
  BY <1>8 DEF Crash, Restart, vars, daemon
<1> QED BY <1>1, <1>2, <1>3, <1>4, <1>5, <1>6, <1>7, <1>8 DEF Next, Ingest, RunJob, Retries

(* Who changes the turn of the running job. *)
LEMMA TurnStays ==
  ASSUME [Next]_vars
  PROVE  Post \/ turn' = 0 \/ UNCHANGED turn
<1>1. CASE Poll \/ SaveUpdate \/ SaveOffset \/ Replay \/ FlushBurst \/ TurnEnds
  BY <1>1 DEF Poll, SaveUpdate, SaveOffset, Replay, FlushBurst, TurnEnds, job
<1>2. CASE StartJob \/ Prepare \/ Accepted \/ InterruptOwn \/ Announce \/ Deliver
  BY <1>2 DEF StartJob, Prepare, Accepted, InterruptOwn, Announce, Deliver
<1>3. CASE BeginReset \/ CloseSession \/ RemoveFile \/ FinishJob \/ Throw \/ ReportFailure
  BY <1>3 DEF BeginReset, CloseSession, RemoveFile, FinishJob, Throw, ReportFailure, LeaveChain
<1>4. ASSUME NEW parts \in timers, Retry(parts) PROVE UNCHANGED turn
  BY <1>4 DEF Retry
<1>5. ASSUME NEW u \in Update, RunCommand(u) PROVE UNCHANGED turn
  BY <1>5 DEF RunCommand, Discard, Stop, PrepareReset, InterruptTurn, StopReplies, StopSettles, job
<1>6. CASE Crash \/ Restart \/ UNCHANGED vars
  BY <1>6 DEF Crash, Restart, vars, job
<1> QED BY <1>1, <1>2, <1>3, <1>4, <1>5, <1>6 DEF Next, Ingest, RunJob, Retries

LEMMA DaemonTyped ==
  ASSUME Types, RowInv, JobInv, PriorInv, [Next]_vars
  PROVE  /\ turns' \in Seq(Seq(Update)) /\ prior' \in [Update -> Nat]
         /\ turn' \in 0..Len(turns') /\ running' \in 0..Len(turns')
<1>0. /\ turns \in Seq(Seq(Update)) /\ prior \in [Update -> Nat] /\ Len(turns) \in Nat
      /\ turn \in 0..Len(turns) /\ running \in 0..Len(turns) /\ DOMAIN turns = 1..Len(turns)
  BY RangeIn DEF Types
<1>1. CASE Post
  <2>1. Primary \in Update
    BY <1>1, PrimaryIn DEF Post, JobInv
  <2>2. prior[Primary] \in 0..Len(turns)
    BY <1>0, <2>1 DEF PriorInv
  <2>3. CASE UNCHANGED <<turns, prior, running>> /\ (UNCHANGED turn \/ turn' = prior[Primary])
    BY <1>0, <2>2, <2>3
  <2>4. CASE /\ turns' \in Seq(Seq(Update)) /\ Len(turns') = Len(turns) + 1
             /\ turn' = Len(turns) + 1 /\ running' = Len(turns) + 1
             /\ prior' = [prior EXCEPT ![Primary] = Len(turns) + 1]
    BY <1>0, <2>1, <2>4
  <2> QED BY <1>1, <2>3, <2>4, PostCases
<1>2. CASE CloseSession
  BY <1>0, <1>2 DEF CloseSession
<1>3. CASE TurnEnds
  <2>1. UNCHANGED <<turns, prior, turn>> /\ running' = 0
    BY <1>3 DEF TurnEnds, job
  <2> QED BY <1>0, <2>1
<1>4. CASE ~Post /\ ~CloseSession /\ ~TurnEnds
  <2>1. UNCHANGED <<turns, prior, running>> /\ (turn' = 0 \/ turn' = turn)
    BY <1>4, TurnsStay, TurnStays
  <2> QED BY <1>0, <2>1
<1> QED BY <1>1, <1>2, <1>3, <1>4

(* What was told stays told, and what a /stop has dropped is told or not. *)
LEMMA WordsStay ==
  ASSUME Types, [Next]_vars
  PROVE  /\ told \subseteq told' /\ unsaid \subseteq unsaid'
         /\ discarded' \in [Update -> SUBSET Update]
         /\ \A u \in Update : discarded[u] \subseteq discarded'[u] \cup told' \cup unsaid'
<1> DEFINE Q == /\ told \subseteq told' /\ unsaid \subseteq unsaid'
                /\ discarded' \in [Update -> SUBSET Update]
                /\ \A u \in Update : discarded[u] \subseteq discarded'[u] \cup told' \cup unsaid'
<1>0. discarded \in [Update -> SUBSET Update]
  BY DEF Types
<1>1. told \subseteq told' /\ unsaid \subseteq unsaid' /\ UNCHANGED discarded => Q
  BY <1>0
<1>2. UNCHANGED answers => Q
  BY <1>1 DEF answers
<1>3. Answer(Parts) \/ LastWord(Parts) => Q
  BY <1>1 DEF LastWord, Answer
<1>4. CASE Poll \/ SaveUpdate \/ SaveOffset \/ Replay \/ FlushBurst \/ TurnEnds
  BY <1>2, <1>4 DEF Poll, SaveUpdate, SaveOffset, Replay, FlushBurst, TurnEnds
<1>5. CASE StartJob \/ Prepare \/ Post \/ Accepted \/ InterruptOwn \/ Announce
  BY <1>2, <1>3, <1>5 DEF StartJob, Prepare, Post, Accepted, InterruptOwn, Announce
<1>6. CASE Deliver
  BY <1>1, <1>6 DEF Deliver
<1>7. CASE BeginReset \/ CloseSession \/ RemoveFile \/ FinishJob \/ Throw \/ ReportFailure
  BY <1>2, <1>3, <1>7 DEF BeginReset, CloseSession, RemoveFile, FinishJob, Throw, ReportFailure
<1>8. ASSUME NEW parts \in timers, Retry(parts) PROVE Q
  BY <1>2, <1>8 DEF Retry
<1>9. ASSUME NEW u \in Update, RunCommand(u) PROVE Q
  <2>1. CASE Discard(u)
    <3>1. dropped[u] \in Seq(Update) /\ dropped[u] # <<>>
      BY <2>1 DEF Discard, Types
    <3>2. Head(dropped[u]) \in Update
      BY <3>1, Shorter
    <3> QED BY <1>0, <2>1, <3>2 DEF Discard
  <2>2. CASE Stop(u) \/ PrepareReset(u) \/ InterruptTurn(u) \/ StopSettles(u)
    BY <1>2, <2>2 DEF Stop, PrepareReset, InterruptTurn, StopSettles
  <2>3. CASE StopReplies(u)
    <3>1. discarded[u] \subseteq told' \cup unsaid' /\ told \subseteq told' /\ unsaid \subseteq unsaid'
      BY <2>3 DEF StopReplies, NameDropped, ForgetDropped
    <3>2. discarded' = [discarded EXCEPT ![u] = {}]
      BY <2>3 DEF StopReplies
    <3> QED BY <1>0, <3>1, <3>2
  <2> QED BY <1>9, <2>1, <2>2, <2>3 DEF RunCommand
<1>10. CASE Crash
  BY <1>0, <1>10 DEF Crash, Discarded, Range
<1>11. CASE Restart \/ UNCHANGED vars
  BY <1>2, <1>11 DEF Restart, vars
<1> QED BY <1>4, <1>5, <1>6, <1>7, <1>8, <1>9, <1>10, <1>11 DEF Next, Ingest, RunJob, Retries

LEMMA TypesKept ==
  ASSUME IInv, [Next]_vars
  PROVE  Types'
<1>1. /\ chain' \in Seq(Seq(Update)) /\ burst' \in Seq(Update) /\ dropped' \in [Update -> Seq(Update)]
      /\ inflight' \subseteq Update
  BY RowKept DEF RowInv, Row
<1>2. /\ kind' \in [Update -> Kind] /\ joining' \in BOOLEAN
      /\ crashes' \in Nat /\ errors' \in Nat /\ unreported' \in Nat /\ writeFaults' \in Nat
  BY FaultsGrow DEF IInv, Types
<1>3. discarded' \in [Update -> SUBSET Update]
  BY WordsStay DEF IInv
<1> QED BY <1>1, <1>2, <1>3, SourceTyped, MemoryTyped, DaemonTyped DEF IInv, Types

-----------------------------------------------------------------------------
(* The running job. *)
LEMMA FrontKept ==
  ASSUME Types, RowInv, chain # <<>>, [Next]_vars
  PROVE  \/ chain' # <<>> /\ Parts' = Parts /\ Primary' = Primary
         \/ head' = "idle" /\ left' = <<>> /\ ~cancelled' /\ turn' = 0
<1> DEFINE Q == chain' # <<>> /\ Parts' = Parts /\ Primary' = Primary
<1>1. UNCHANGED chain => Q
  BY DEF Parts, Primary
<1>2. ASSUME NEW e \in Seq(Update), chain' = Append(chain, e) PROVE Q
  BY <1>2, FrontStays DEF Parts, Primary
<1>3. chain \in Seq(Seq(Update)) /\ burst \in Seq(Update)
  BY DEF Types
<1>4. ASSUME NEW u \in Update, Dispatch(u) PROVE Q
  <2>1. <<u>> \in Seq(Update)
    OBVIOUS
  <2>2. CASE UNCHANGED chain \/ chain' = Append(chain, <<u>>)
    BY <1>1, <1>2, <2>1, <2>2
  <2>3. CASE chain' = Append(Append(chain, burst), <<u>>)
    <3>1. Append(chain, burst) \in Seq(Seq(Update)) /\ Append(chain, burst) # <<>>
          /\ Head(Append(chain, burst)) = Head(chain)
      <4> DEFINE c == Append(chain, burst)
      <4>1. c \in Seq(Seq(Update)) /\ c # <<>> /\ \A n \in 1..Len(chain) : c[n] = chain[n]
        BY <1>3, Longer
      <4>2. 1 \in 1..Len(chain) /\ Head(chain) = chain[1] /\ Head(c) = c[1]
        BY <1>3, <4>1, Shorter
      <4> QED BY <4>1, <4>2
    <3> DEFINE c == Append(chain, burst)
    <3>2. c \in Seq(Seq(Update)) /\ c # <<>> /\ Head(c) = Head(chain) /\ chain' = Append(c, <<u>>)
      BY <2>3, <3>1
    <3> HIDE DEF c
    <3>3. chain' \in Seq(Seq(Update)) /\ chain' # <<>> /\ \A n \in 1..Len(c) : chain'[n] = c[n]
      BY <2>1, <3>2, Longer
    <3>4. 1 \in 1..Len(c) /\ Head(c) = c[1] /\ Head(chain') = chain'[1]
      BY <3>2, <3>3, Shorter
    <3> QED BY <3>2, <3>3, <3>4 DEF Parts, Primary
  <2> QED BY <1>4, <2>2, <2>3 DEF Dispatch, DispatchText, DispatchStop, DispatchReset, Flushed
<1>5. CASE Poll \/ SaveUpdate \/ TurnEnds
  BY <1>1, <1>5 DEF Poll, SaveUpdate, TurnEnds, job
<1>6. CASE SaveOffset \/ Replay
  <2>1. Earliest(batch) \in Update /\ Dispatch(Earliest(batch))
    BY <1>6, EarliestIsLeast DEF SaveOffset, Replay, Types
  <2> QED BY <1>4, <2>1
<1>7. CASE FlushBurst
  BY <1>2, <1>3, <1>7 DEF FlushBurst, Flushed
<1>8. CASE StartJob \/ Prepare \/ Post \/ Accepted \/ InterruptOwn \/ Announce \/ Deliver
  BY <1>1, <1>8 DEF StartJob, Prepare, Post, Accepted, InterruptOwn, Announce, Deliver
<1>9. CASE BeginReset \/ CloseSession \/ RemoveFile \/ Throw
  BY <1>1, <1>9 DEF BeginReset, CloseSession, RemoveFile, Throw
<1>10. CASE FinishJob \/ ReportFailure
  BY <1>1, <1>10 DEF FinishJob, ReportFailure, LeaveChain
<1>11. ASSUME NEW parts \in timers, Retry(parts) PROVE Q
  <2>1. CASE Len(parts) = 1
    <3>1. parts \in Seq(Update)
      BY DEF Types
    <3>2. parts # <<>>
      BY <2>1
    <3>3. Head(parts) \in Update /\ Dispatch(Head(parts))
      BY <1>11, <2>1, <3>1, <3>2, Shorter DEF Retry
    <3> QED BY <1>4, <3>3
  <2>2. CASE Len(parts) # 1
    BY <1>1, <1>11, <2>2 DEF Retry
  <2> QED BY <2>1, <2>2
<1>12. ASSUME NEW u \in Update, RunCommand(u) PROVE Q
  BY <1>1, <1>12 DEF RunCommand, Discard, Stop, PrepareReset, InterruptTurn, StopReplies, StopSettles, job
<1>13. CASE Crash
  BY <1>13 DEF Crash
<1>14. CASE Restart \/ UNCHANGED vars
  BY <1>1, <1>14 DEF Restart, vars, job
<1> QED BY <1>5, <1>6, <1>7, <1>8, <1>9, <1>10, <1>11, <1>12, <1>13, <1>14
        DEF Next, Ingest, RunJob, Retries

(* What is not the running job's own step leaves its await alone. *)
LEMMA HeadStays ==
  ASSUME [Next]_vars, ~RunJob, ~Crash
  PROVE  UNCHANGED <<head, left, turn>>
<1>1. CASE Poll \/ SaveUpdate \/ SaveOffset \/ Replay \/ FlushBurst \/ TurnEnds
  BY <1>1 DEF Poll, SaveUpdate, SaveOffset, Replay, FlushBurst, TurnEnds, job
<1>2. ASSUME NEW parts \in timers, Retry(parts) PROVE UNCHANGED <<head, left, turn>>
  BY <1>2 DEF Retry
<1>3. ASSUME NEW u \in Update, RunCommand(u) PROVE UNCHANGED <<head, left, turn>>
  BY <1>3 DEF RunCommand, Discard, Stop, PrepareReset, InterruptTurn, StopReplies, StopSettles, job
<1>4. CASE Restart \/ UNCHANGED vars
  BY <1>4 DEF Restart, vars, job
<1> QED BY <1>1, <1>2, <1>3, <1>4 DEF Next, Ingest, Retries

LEMMA CancelledStays ==
  ASSUME [Next]_vars, Types, head = "idle", ~RunJob
  PROVE  cancelled' = cancelled \/ ~cancelled'
<1>1. CASE Poll \/ SaveUpdate \/ SaveOffset \/ Replay \/ FlushBurst \/ TurnEnds
  BY <1>1 DEF Poll, SaveUpdate, SaveOffset, Replay, FlushBurst, TurnEnds, job
<1>2. ASSUME NEW parts \in timers, Retry(parts) PROVE UNCHANGED cancelled
  BY <1>2 DEF Retry
<1>3. ASSUME NEW u \in Update, RunCommand(u) PROVE UNCHANGED cancelled
  <2>1. ~Operating /\ cancelled \in BOOLEAN
    BY DEF Operating, Types
  <2> QED BY <1>3, <2>1 DEF RunCommand, Discard, Stop, PrepareReset, InterruptTurn, StopReplies, StopSettles,
                            CancelOperation, job
<1>4. CASE Crash \/ Restart \/ UNCHANGED vars
  BY <1>4 DEF Crash, Restart, vars, job
<1> QED BY <1>1, <1>2, <1>3, <1>4 DEF Next, Ingest, Retries

LEMMA JobKept ==
  ASSUME IInv, [Next]_vars
  PROVE  JobInv'
<1>0. /\ Types /\ JobInv /\ RowInv /\ kind' = kind /\ errors \in Nat
      /\ errors' \in Nat /\ errors <= errors'
  BY FaultsGrow DEF IInv, Types
<1>1. head # "idle" => chain # <<>>
  BY <1>0 DEF JobInv
<1>2. chain # <<>> => \/ chain' # <<>> /\ Parts' = Parts /\ Primary' = Primary
                      \/ head' = "idle" /\ left' = <<>> /\ ~cancelled' /\ turn' = 0
  BY <1>0, FrontKept
<1>3. CASE ~RunJob /\ ~Crash
  <2>1. UNCHANGED <<head, left, turn>>
    BY <1>3, HeadStays
  <2>2. head = "idle" => ~cancelled'
    BY <1>0, <1>3, CancelledStays DEF JobInv
  <2> QED BY <1>0, <1>1, <1>2, <2>1, <2>2 DEF JobInv, Text
<1>4. CASE Crash
  BY <1>4 DEF Crash, JobInv
<1>5. CASE RunJob
  <2> SUFFICES ASSUME chain # <<>>, chain' # <<>>, Parts' = Parts, Primary' = Primary, head' # "idle"
               PROVE  JobInv'
    <3>1. CASE head' = "idle" /\ left' = <<>> /\ ~cancelled' /\ turn' = 0
      BY <3>1 DEF JobInv
    <3>2. chain # <<>>
      BY <1>1, <1>5 DEF RunJob, StartJob, Prepare, Post, Accepted, InterruptOwn, Announce, Deliver,
                        BeginReset, CloseSession, RemoveFile, FinishJob, Throw, ReportFailure
    <3>3. head' = "idle" => left' = <<>> /\ ~cancelled' /\ turn' = 0
      BY <1>2, <1>5 DEF RunJob, StartJob, Prepare, Post, Accepted, InterruptOwn, Announce, Deliver,
                   BeginReset, CloseSession, RemoveFile, FinishJob, Throw, ReportFailure, LeaveChain,
                   LastWord, Answer, Settle
    <3> QED BY <1>2, <3>1, <3>2, <3>3
  <2>0. Text(Primary)' <=> Text(Primary)
    BY <1>0 DEF Text
  <2>1. CASE StartJob
    BY <1>0, <2>0, <2>1 DEF StartJob, JobInv, faults
  <2>2. CASE Prepare \/ Accepted \/ InterruptOwn \/ Announce \/ Deliver
    BY <1>0, <2>0, <2>2
       DEF Prepare, Accepted, InterruptOwn, Announce, Deliver, LastWord, Answer, Settle, JobInv
  <2>3. CASE Post
    <3>1. Len(turns) + 1 # 0
      BY <1>0 DEF Types
    <3>2. (head' = "posted" /\ turn' # 0) \/ head' = "settling"
      BY <1>0, <2>3, <3>1, PostCases
    <3> QED BY <3>2 DEF JobInv
  <2>4. CASE BeginReset \/ CloseSession \/ RemoveFile
    <3>1. Primary \in Update
      BY <1>0, PrimaryIn
    <3>2. command[Primary] = "threw" => errors > 0
      BY <3>1 DEF IInv, CommandInv
    <3> QED BY <1>0, <2>0, <2>4, <3>2 DEF BeginReset, CloseSession, RemoveFile, Answer, Settle, JobInv, faults
  <2>5. CASE FinishJob
    BY <2>5 DEF FinishJob, LeaveChain
  <2>6. CASE Throw
    BY <1>0, <2>6 DEF Throw, Fails, JobInv
  <2>7. CASE ReportFailure
    BY <1>0, <2>7 DEF ReportFailure, LeaveChain, Answer, Settle, JobInv
  <2> QED BY <1>5, <2>1, <2>2, <2>3, <2>4, <2>5, <2>6, <2>7 DEF RunJob
<1> QED BY <1>3, <1>4, <1>5

-----------------------------------------------------------------------------
(* Commands, timers and the polling loop. *)
LEMMA DispatchKeepsCommands ==
  ASSUME Types, CommandInv, NEW u \in Update, Dispatch(u), kind' = kind, errors' \in Nat, errors <= errors'
  PROVE  CommandInv'
<1>1. command \in [Update -> Commands] /\ errors \in Nat
  BY DEF Types
<1>2. /\ \A v \in Update : v # u => command'[v] = command[v]
      /\ command'[u] # command[u] =>
           /\ u \notin inflight /\ u \in inflight'
           /\ \/ kind[u] = "stop" /\ command'[u] = "discarding"
              \/ kind[u] = "reset" /\ command'[u] = "preparing"
      /\ inflight \subseteq inflight'
  BY <1>1, DispatchCommands
<1> QED BY <1>1, <1>2 DEF CommandInv, Text

LEMMA LeaveKeepsCommands ==
  ASSUME Types, CommandInv, LeaveChain, kind' = kind, errors' \in Nat, errors <= errors'
  PROVE  CommandInv'
BY DEF Types, LeaveChain, CommandInv, Text

(* A command outside the chain changes its own await only, and leaves inflight when *)
(* it is over.                                                                     *)
LEMMA CommandSteps ==
  ASSUME Types, RowInv, CommandInv, NEW u \in Update, RunCommand(u)
  PROVE  /\ \A v \in Update : v # u => command'[v] = command[v]
         /\ command[u] # "none"
         /\ command'[u] # "none" => u \in inflight'
         /\ command'[u] \in {"discarding", "replying", "erring", "settling"} => kind[u] = "stop"
         /\ command'[u] \in {"erring", "threw"} => errors' > 0
         /\ \A v \in inflight : v # u /\ ~Text(v) => v \in inflight'
<1>0. command \in [Update -> Commands] /\ errors \in Nat
  BY DEF Types
<1>1. CASE Discard(u)
  <2>1. Text(Head(dropped[u]))
    <3>1. dropped[u] \in Seq(Update) /\ dropped[u] # <<>> /\ \A v \in Range(dropped[u]) : Text(v)
      BY <1>1 DEF Discard, Types, RowInv, Row, Lined, Buffered
    <3>2. Head(dropped[u]) \in Range(dropped[u])
      <4>1. Head(dropped[u]) = dropped[u][1]
            /\ Range(dropped[u]) = {dropped[u][1]} \cup Range(Tail(dropped[u]))
        BY <3>1, Shorter
      <4> QED BY <4>1
    <3> QED BY <3>1, <3>2
  <2> QED BY <1>0, <1>1, <2>1 DEF Discard, At, CommandInv
<1>2. CASE Stop(u)
  BY <1>0, <1>2 DEF Stop, CancelOperation, CommandInv, dispatched
<1>3. CASE PrepareReset(u)
  BY <1>0, <1>3 DEF PrepareReset, Fails, CancelOperation, CommandInv, dispatched
<1>4. CASE InterruptTurn(u)
  BY <1>0, <1>4 DEF InterruptTurn, Fails, At, CommandInv, dispatched
<1>5. CASE StopReplies(u)
  BY <1>0, <1>5 DEF StopReplies, At, CommandInv
<1>6. CASE StopSettles(u)
  BY <1>0, <1>6 DEF StopSettles, At, CommandInv
<1> QED BY <1>1, <1>2, <1>3, <1>4, <1>5, <1>6 DEF RunCommand

LEMMA CommandKept ==
  ASSUME IInv, [Next]_vars
  PROVE  CommandInv'
<1>0. /\ Types /\ CommandInv /\ RowInv /\ kind' = kind
      /\ errors \in Nat /\ errors' \in Nat /\ errors <= errors'
  BY FaultsGrow DEF IInv, Types
<1>1. UNCHANGED <<command, inflight>> => CommandInv'
  BY <1>0 DEF CommandInv, Text
<1>2. CASE Poll \/ SaveUpdate \/ FlushBurst \/ TurnEnds \/ Restart \/ UNCHANGED vars
  BY <1>1, <1>2 DEF Poll, SaveUpdate, FlushBurst, TurnEnds, Restart, vars, dispatched, commands
<1>3. CASE SaveOffset \/ Replay
  <2>1. Earliest(batch) \in Update /\ Dispatch(Earliest(batch))
    BY <1>0, <1>3, EarliestIsLeast DEF SaveOffset, Replay, Types
  <2> QED BY <1>0, <2>1, DispatchKeepsCommands
<1>4. CASE StartJob \/ Prepare \/ Post \/ Accepted \/ InterruptOwn \/ Announce \/ Deliver
  BY <1>1, <1>4 DEF StartJob, Prepare, Post, Accepted, InterruptOwn, Announce, Deliver, dispatched, commands
<1>5. CASE BeginReset \/ CloseSession \/ RemoveFile \/ Throw
  BY <1>1, <1>5 DEF BeginReset, CloseSession, RemoveFile, Throw, dispatched, commands
<1>6. CASE FinishJob \/ ReportFailure
  BY <1>0, <1>1, <1>6, LeaveKeepsCommands DEF FinishJob, ReportFailure
<1>7. ASSUME NEW parts \in timers, Retry(parts) PROVE CommandInv'
  <2>1. CASE Len(parts) = 1
    <3>1. parts \in Seq(Update) /\ parts # <<>>
      BY <1>0 DEF IInv, Types, TimersInv
    <3>2. Head(parts) \in Update /\ Dispatch(Head(parts))
      BY <1>7, <2>1, <3>1, Shorter DEF Retry
    <3> QED BY <1>0, <3>2, DispatchKeepsCommands
  <2>2. CASE Len(parts) # 1
    BY <1>0, <1>7, <2>2 DEF Retry, CommandInv, Text
  <2> QED BY <2>1, <2>2
<1>8. ASSUME NEW u \in Update, RunCommand(u) PROVE CommandInv'
  <2>1. ~Text(u)
    BY <1>0, <1>8, CommandSteps DEF CommandInv
  <2> QED BY <1>0, <1>8, <2>1, CommandSteps DEF CommandInv, Text
<1>9. CASE Crash
  BY <1>9 DEF Crash, CommandInv
<1> QED BY <1>2, <1>3, <1>4, <1>5, <1>6, <1>7, <1>8, <1>9 DEF Next, Ingest, RunJob, Retries

LEMMA AttemptKeepsTimers ==
  ASSUME Types, TimersInv, NEW parts, parts # <<>>, CountAttempt(parts),
         kind' = kind, joining' = joining, unreported' = unreported + 1,
         \A j, k \in DOMAIN parts : parts[j] = parts[k] => j = k,
         Len(parts) > 1 => \A u \in Range(parts) : Text(u),
         ~joining => Len(parts) = 1
  PROVE  TimersInv'
<1>1. unreported' # 0 /\ timers' \subseteq timers \cup {parts}
  BY DEF Types, CountAttempt
<1> QED BY <1>1 DEF TimersInv, Text

LEMMA TimersKept ==
  ASSUME IInv, [Next]_vars
  PROVE  TimersInv'
<1>0. Types /\ TimersInv /\ RowInv /\ JobInv /\ kind' = kind /\ joining' = joining
      /\ (unreported' = 0 => unreported = 0)
  <2>1. Types /\ TimersInv /\ RowInv /\ JobInv
    BY DEF IInv
  <2>2. kind' = kind /\ joining' = joining /\ unreported <= unreported' /\ unreported' \in Nat
    BY <2>1, FaultsGrow
  <2>3. unreported \in Nat
    BY <2>1 DEF Types
  <2> QED BY <2>1, <2>2, <2>3
<1>1. timers' \subseteq timers => TimersInv'
  BY <1>0 DEF TimersInv, Text
<1>2. CASE Ingest \/ FlushBurst \/ TurnEnds \/ Restart \/ UNCHANGED vars
  BY <1>1, <1>2 DEF Ingest, Poll, SaveUpdate, SaveOffset, Replay, FlushBurst, TurnEnds, Restart, vars, retries
<1>3. CASE StartJob \/ Prepare \/ Post \/ Accepted \/ InterruptOwn \/ Announce \/ Deliver
  BY <1>1, <1>3 DEF StartJob, Prepare, Post, Accepted, InterruptOwn, Announce, Deliver, retries
<1>4. CASE BeginReset \/ CloseSession \/ RemoveFile \/ FinishJob \/ Throw
  BY <1>1, <1>4 DEF BeginReset, CloseSession, RemoveFile, FinishJob, Throw, retries
<1>5. CASE ReportFailure
  <2>1. Grouped(Parts) /\ Parts \in Seq(Update)
    BY <1>0, <1>5, PartsIn, PrimaryIn DEF ReportFailure, JobInv
  <2>2. /\ Parts # <<>> /\ \A j, k \in DOMAIN Parts : Parts[j] = Parts[k] => j = k
        /\ Len(Parts) > 1 => \A u \in Range(Parts) : Text(u)
        /\ ~joining => Len(Parts) = 1
    BY <2>1 DEF Grouped
  <2>3. CASE UNCHANGED retries
    BY <1>1, <2>3 DEF retries
  <2>4. CASE CountAttempt(Parts) /\ unreported' = unreported + 1
    BY <1>0, <2>2, <2>4, AttemptKeepsTimers
  <2> QED BY <1>5, <2>3, <2>4 DEF ReportFailure
<1>6. CASE Retries
  BY <1>1, <1>6 DEF Retries, Retry
<1>7. ASSUME NEW u \in Update, RunCommand(u) PROVE TimersInv'
  <2>1. CASE StopReplies(u)
    <3>1. /\ <<u>> # <<>> /\ Len(<<u>>) = 1 /\ ~(Len(<<u>>) > 1)
          /\ \A j, k \in DOMAIN <<u>> : <<u>>[j] = <<u>>[k] => j = k
      BY OneIn
    <3>2. CASE UNCHANGED retries
      BY <1>1, <3>2 DEF retries
    <3>3. CASE CountAttempt(<<u>>) /\ unreported' = unreported + 1
      BY <1>0, <3>1, <3>3, AttemptKeepsTimers
    <3> QED BY <2>1, <3>2, <3>3 DEF StopReplies
  <2>2. CASE ~StopReplies(u)
    BY <1>1, <1>7, <2>2 DEF RunCommand, Discard, Stop, PrepareReset, InterruptTurn, StopSettles, retries
  <2> QED BY <2>1, <2>2
<1>8. CASE Crash
  BY <1>1, <1>8 DEF Crash
<1> QED BY <1>2, <1>3, <1>4, <1>5, <1>6, <1>7, <1>8 DEF Next, RunJob

LEMMA LoopKept ==
  ASSUME IInv, [Next]_vars
  PROVE  LoopInv'
<1>0. /\ Types /\ LoopInv
      /\ confirmed \in Nat /\ diskOffset \in Nat /\ offset \in Nat
      /\ MaxUpdate \in Nat /\ Update = 1..MaxUpdate /\ queue \subseteq Nat
  <2>1. Types /\ LoopInv
    BY DEF IInv
  <2>2. MaxUpdate \in Nat /\ Update = 1..MaxUpdate
    BY UpdatesAreNumbers
  <2>3. /\ confirmed \in 1..(MaxUpdate + 1) /\ diskOffset \in 1..(MaxUpdate + 1)
        /\ offset \in 1..(MaxUpdate + 1) /\ queue \subseteq Update
    BY <2>1 DEF Types
  <2> QED BY <2>1, <2>2, <2>3
<1>1. crashes' \in Nat /\ writeFaults' \in Nat /\ crashes <= crashes' /\ writeFaults <= writeFaults'
      /\ crashes \in Nat /\ writeFaults \in Nat
  BY <1>0, FaultsGrow DEF Types
<1>2. (crashes' = 0 => crashes = 0) /\ (writeFaults' = 0 => writeFaults = 0) /\ (Regular' => Regular)
  BY <1>1 DEF Regular
<1>3. CASE UNCHANGED <<confirmed, diskOffset, source>> /\ queue' \subseteq queue
  BY <1>0, <1>2, <1>3 DEF LoopInv, source
<1>4. CASE Poll
  <2>1. PICK newest \in confirmed'..MaxUpdate : batch' = confirmed'..newest
    BY <1>4 DEF Poll
  <2>2. loop = "poll" /\ loop' = "saving" /\ UNCHANGED <<offset, queue, diskOffset>>
        /\ confirmed' = (IF offset > confirmed THEN offset ELSE confirmed)
    BY <1>4 DEF Poll, disk
  <2>3. ASSUME Regular
        PROVE  confirmed' = offset /\ offset <= MaxUpdate /\ newest \in Update /\ batch' = offset..newest
    <3>1. confirmed <= offset
      BY <1>0, <2>2, <2>3 DEF LoopInv
    <3>2. confirmed' = offset
      BY <1>0, <2>2, <3>1
    <3>3. 1 <= offset
      BY <1>0 DEF Types
    <3> QED BY <1>0, <2>1, <3>2, <3>3
  <2>4. writeFaults = 0 => Regular
    BY DEF Regular
  <2>5. crashes' = 0 => loop' \notin {"replaying", "down"}
    BY <2>2
  <2>6. Regular' =>
       /\ loop' # "down" => confirmed' <= offset'
       /\ loop' = "saving" => offset' <= MaxUpdate /\ \E n \in Update : batch' = offset'..n
       /\ loop' = "advancing" => offset' > 1 /\ \E n \in Update : batch' = (offset' - 1)..n
       /\ loop' = "replaying" => \A u \in batch' : u <= offset'
    BY <1>0, <1>2, <2>2, <2>3
  <2>7. writeFaults' = 0 =>
       /\ confirmed' <= diskOffset'
       /\ \A u \in queue' : u <= diskOffset'
       /\ loop' \in {"poll", "saving", "replaying"} => diskOffset' = offset'
       /\ loop' = "advancing" => diskOffset' + 1 = offset'
    BY <1>0, <1>2, <2>2, <2>3, <2>4 DEF LoopInv
  <2> QED BY <2>5, <2>6, <2>7 DEF LoopInv, Regular
<1>5. CASE SaveUpdate
  <2>1. loop = "saving" /\ UNCHANGED <<confirmed, diskOffset, crashes>>
    BY <1>5 DEF SaveUpdate
  <2>2. Regular => Earliest(batch) = offset
    BY <1>0, <2>1, FirstOfBatch
  <2>3. CASE /\ queue' = queue \cup {Earliest(batch)}
             /\ offset' = IF Earliest(batch) + 1 > offset THEN Earliest(batch) + 1 ELSE offset
             /\ loop' = "advancing"
             /\ UNCHANGED <<batch, writeFaults>>
    <3>1. ASSUME Regular
          PROVE  /\ Earliest(batch) = offset /\ offset' = offset + 1 /\ queue' = queue \cup {offset}
                 /\ offset' > 1 /\ offset' - 1 = offset /\ confirmed <= offset'
                 /\ \E newest \in Update : batch' = offset..newest
      <4>1. Earliest(batch) = offset /\ offset' = offset + 1
        BY <1>0, <2>2, <2>3, <3>1
      <4>2. confirmed <= offset /\ \E newest \in Update : batch = offset..newest
        BY <1>0, <2>1, <3>1 DEF LoopInv
      <4>3. offset >= 1
        BY <1>0 DEF Types
      <4> QED BY <1>0, <2>3, <4>1, <4>2, <4>3
    <3>2. writeFaults = 0 => Regular
      BY DEF Regular
    <3>3. ASSUME writeFaults = 0
          PROVE  /\ confirmed <= diskOffset /\ diskOffset + 1 = offset'
                 /\ \A u \in queue' : u <= diskOffset
      <4>1. confirmed <= diskOffset /\ diskOffset = offset /\ \A u \in queue : u <= diskOffset
        BY <1>0, <2>1, <3>3 DEF LoopInv
      <4>2. queue' = queue \cup {offset} /\ offset' = offset + 1
        BY <3>1, <3>2, <3>3
      <4> QED BY <1>0, <4>1, <4>2
    <3>4. Regular' => /\ confirmed' <= offset' /\ offset' > 1
                      /\ \E newest \in Update : batch' = (offset' - 1)..newest
      BY <1>2, <2>1, <3>1
    <3>5. writeFaults' = 0 => /\ confirmed' <= diskOffset' /\ diskOffset' + 1 = offset'
                              /\ \A u \in queue' : u <= diskOffset'
      BY <1>2, <2>1, <3>3
    <3>6. loop' = "advancing"
      BY <2>3
    <3> QED BY <3>4, <3>5, <3>6 DEF LoopInv, Regular
  <2>4. CASE writeFaults' = writeFaults + 1 /\ loop' = "poll" /\ UNCHANGED <<queue, offset>>
    <3>1. writeFaults' # 0
      BY <1>1, <2>4
    <3>2. Regular => confirmed <= offset
      BY <1>0, <2>1 DEF LoopInv
    <3>3. Regular' => confirmed' <= offset'
      BY <1>2, <2>1, <2>4, <3>2
    <3> QED BY <2>4, <3>1, <3>3 DEF LoopInv, Regular
  <2> QED BY <1>5, <2>3, <2>4 DEF SaveUpdate, WriteFault
<1>6. CASE SaveOffset
  <2> DEFINE e == Earliest(batch)
  <2>1. /\ loop = "advancing" /\ UNCHANGED <<confirmed, queue, offset, crashes>> /\ batch' = batch \ {e}
        /\ loop' = IF batch' = {} THEN "poll" ELSE "saving"
        /\ \/ diskOffset' = offset /\ UNCHANGED writeFaults
           \/ writeFaults' = writeFaults + 1 /\ UNCHANGED diskOffset
    BY <1>6 DEF SaveOffset, WriteFault
  <2>2. e \in batch /\ e \in Nat /\ (Regular => e + 1 = offset)
    BY <1>0, <2>1, FirstOfBatch
  <2> HIDE DEF e
  <2>3. ASSUME Regular
        PROVE  /\ confirmed <= offset
               /\ batch' # {} => offset <= MaxUpdate /\ \E n \in Update : batch' = offset..n
    <3>1. confirmed <= offset /\ offset > 1
      BY <1>0, <2>1, <2>3 DEF LoopInv
    <3>2. PICK n \in Update : batch = (offset - 1)..n
      BY <1>0, <2>1, <2>3 DEF LoopInv
    <3>3. e = offset - 1 /\ n \in Nat /\ n <= MaxUpdate
      BY <1>0, <2>2, <2>3, <3>1
    <3>4. batch' = offset..n
      BY <1>0, <2>1, <3>1, <3>2, <3>3
    <3>5. batch' # {} => offset <= MaxUpdate
      BY <1>0, <3>3, <3>4
    <3> QED BY <3>1, <3>4, <3>5
  <2>4. ASSUME writeFaults' = 0
        PROVE  confirmed' <= diskOffset' /\ diskOffset' = offset' /\ \A u \in queue' : u <= diskOffset'
    <3>1. writeFaults = 0 /\ diskOffset' = offset
      BY <1>1, <1>2, <2>1, <2>4
    <3>2. /\ confirmed <= diskOffset /\ diskOffset + 1 = offset
          /\ \A u \in queue : u <= diskOffset
      BY <1>0, <2>1, <3>1 DEF LoopInv
    <3> QED BY <1>0, <2>1, <3>1, <3>2
  <2>5. Regular' => confirmed' <= offset' /\
          (loop' = "saving" => offset' <= MaxUpdate /\ \E n \in Update : batch' = offset'..n)
    BY <1>2, <2>1, <2>3
  <2>6. loop' \in {"poll", "saving"}
    BY <2>1
  <2> QED BY <2>4, <2>5, <2>6 DEF LoopInv, Regular
<1>7. CASE Replay
  <2>1. /\ loop = "replaying" /\ UNCHANGED <<confirmed, queue, offset, diskOffset, crashes, writeFaults>>
        /\ batch' \subseteq batch /\ loop' \in {"poll", "replaying"}
    BY <1>7 DEF Replay, disk, faults
  <2> QED BY <2>1, <1>0 DEF LoopInv, Regular
<1>8. CASE Crash
  <2>1. /\ loop' = "down" /\ UNCHANGED <<confirmed, queue, diskOffset, writeFaults>>
        /\ crashes' = crashes + 1
    BY <1>8 DEF Crash, disk
  <2>2. crashes' # 0
    BY <1>1, <2>1
  <2> QED BY <1>0, <2>1, <2>2 DEF LoopInv, Regular
<1>9. CASE Restart
  <2>1. /\ loop = "down" /\ offset' = diskOffset /\ batch' = queue
        /\ loop' \in {"poll", "replaying"}
        /\ UNCHANGED <<confirmed, queue, diskOffset, crashes, writeFaults>>
    BY <1>9 DEF Restart, disk, faults
  <2>2. crashes # 0
    BY <2>1 DEF LoopInv, IInv
  <2> QED BY <1>0, <2>1, <2>2 DEF LoopInv, Regular
<1> QED BY <1>3, <1>4, <1>5, <1>6, <1>7, <1>8, <1>9, SourceStays DEF Ingest

-----------------------------------------------------------------------------
(* What was taken over is kept or answered. *)
LEMMA AnswersGrow ==
  ASSUME Types, RowInv, JobInv, [Next]_vars
  PROVE  /\ Submitted \subseteq Submitted' /\ told \subseteq told' /\ Accounted \subseteq Accounted'
         /\ \/ Submitted' \subseteq Submitted
            \/ Post /\ Submitted' = Submitted \cup Range(Parts)
<1>0. Submitted \subseteq Submitted' => Accounted \subseteq Accounted'
  <2>1. discarded \in [Update -> SUBSET Update]
    BY DEF Types
  <2>2. Discarded \subseteq Discarded' \cup told' \cup unsaid'
    BY <2>1, WordsStay DEF Discarded, Range
  <2> QED BY <2>2, WordsStay DEF Accounted
<1>1. told \subseteq told'
  BY WordsStay
<1>2. CASE UNCHANGED turns
  <2>1. Submitted \subseteq Submitted' /\ Submitted' \subseteq Submitted
    BY <1>2 DEF Submitted
  <2> QED BY <1>0, <1>1, <2>1
<1>3. CASE Post /\ ~UNCHANGED turns
  <2>1. /\ Len(turns) + 1 \in DOMAIN turns' /\ turns'[Len(turns) + 1] = Parts
        /\ \A n \in DOMAIN turns : n \in DOMAIN turns' /\ turns'[n] = turns[n]
        /\ \A n \in DOMAIN turns' : n # Len(turns) + 1 => n \in DOMAIN turns
    <3>1. Len(turns) \in Nat
      BY DEF Types
    <3>2. Len(turns) + 1 \in 1..(Len(turns) + 1)
      BY <3>1
    <3> QED BY <1>3, <3>2, PostCases
  <2>2. Submitted' = Submitted \cup Range(Parts)
    BY <2>1 DEF Submitted
  <2> QED BY <1>0, <1>1, <1>3, <2>2
<1> QED BY <1>2, <1>3, TurnsStay

(* A file goes when its update was answered. *)
LEMMA QueueStays ==
  ASSUME [Next]_vars
  PROVE  \/ queue \subseteq queue' \/ RemoveFile
         \/ \E u \in Update : Discard(u) \/ StopSettles(u)
<1>1. CASE Poll \/ SaveUpdate \/ SaveOffset \/ Replay \/ FlushBurst \/ TurnEnds
  BY <1>1 DEF Poll, SaveUpdate, SaveOffset, Replay, FlushBurst, TurnEnds, disk
<1>2. CASE StartJob \/ Prepare \/ Post \/ Accepted \/ InterruptOwn \/ Announce \/ Deliver
  BY <1>2 DEF StartJob, Prepare, Post, Accepted, InterruptOwn, Announce, Deliver, disk
<1>3. CASE BeginReset \/ CloseSession \/ FinishJob \/ Throw \/ ReportFailure
  BY <1>3 DEF BeginReset, CloseSession, FinishJob, Throw, ReportFailure, disk
<1>4. ASSUME NEW parts \in timers, Retry(parts) PROVE queue' = queue
  BY <1>4 DEF Retry, disk
<1>5. ASSUME NEW u \in Update, RunCommand(u), ~Discard(u), ~StopSettles(u) PROVE queue' = queue
  BY <1>5 DEF RunCommand, Stop, PrepareReset, InterruptTurn, StopReplies, disk
<1>6. CASE Crash \/ Restart \/ UNCHANGED vars
  BY <1>6 DEF Crash, Restart, vars, disk
<1> QED BY <1>1, <1>2, <1>3, <1>4, <1>5, <1>6 DEF Next, Ingest, RunJob, Retries

LEMMA KeptStays ==
  ASSUME IInv, KeepsFiles, [Next]_vars, NEW u \in Update, Kept(u)
  PROVE  Kept(u)'
<1>1. Accounted \subseteq Accounted'
  BY AnswersGrow DEF IInv
<1>2. CASE queue \subseteq queue'
  BY <1>1, <1>2 DEF Kept
<1>3. CASE RemoveFile
  <2>1. head = "settling" /\ left # <<>> /\ left \in Seq(Update) /\ queue' = queue \ {Head(left)}
    BY <1>3 DEF RemoveFile, IInv, Types
  <2>2. Head(left) \in Accounted
    <3>1. Range(left) \subseteq Accounted
      BY <2>1 DEF IInv, AnswerInv, JobAnswers
    <3>2. Head(left) = left[1] /\ Range(left) = {left[1]} \cup Range(Tail(left))
      BY <2>1, Shorter
    <3> QED BY <3>1, <3>2
  <2> QED BY <1>1, <2>1, <2>2 DEF Kept
<1>4. ASSUME NEW v \in Update, Discard(v) PROVE Kept(u)'
  <2>1. discarded \in [Update -> SUBSET Update]
    BY DEF IInv, Types
  <2>2. Head(dropped[v]) \in discarded'[v] /\ v \in DOMAIN discarded'
    BY <1>4, <2>1 DEF Discard
  <2>3. Head(dropped[v]) \in Accounted'
    BY <2>2 DEF Accounted, Discarded, Range
  <2> QED BY <1>1, <1>4, <2>3 DEF Discard, Kept
<1>5. ASSUME NEW v \in Update, StopSettles(v) PROVE Kept(u)'
  <2>1. command[v] = "settling" /\ queue' = queue \ {v}
    BY <1>5 DEF StopSettles, At
  <2>2. v \in Accounted
    BY <2>1 DEF IInv, AnswerInv, Accounted
  <2> QED BY <1>1, <2>1, <2>2 DEF Kept
<1> QED BY <1>2, <1>3, <1>4, <1>5, QueueStays

LEMMA SavedKept ==
  ASSUME IInv, KeepsFiles, [Next]_vars
  PROVE  Saved'
<1>0. /\ Types /\ LoopInv /\ Saved /\ \A u \in Update : Kept(u) => Kept(u)'
      /\ Update \subseteq Nat /\ offset \in Nat /\ diskOffset \in Nat /\ confirmed \in Nat
      /\ batch \subseteq Update
  <2>1. Types /\ LoopInv /\ Saved
    BY DEF IInv, AnswerInv, Saved
  <2>2. /\ confirmed \in 1..(MaxUpdate + 1) /\ diskOffset \in 1..(MaxUpdate + 1)
        /\ offset \in 1..(MaxUpdate + 1) /\ batch \subseteq Update
    BY <2>1 DEF Types
  <2> QED BY <2>1, <2>2, KeptStays, UpdatesAreNumbers
<1>1. CASE UNCHANGED <<confirmed, diskOffset, source>>
  BY <1>0, <1>1 DEF Saved, source
<1>2. CASE Poll
  <2>1. PICK newest \in confirmed'..MaxUpdate : batch' = confirmed'..newest
    BY <1>2 DEF Poll
  <2>2. /\ UNCHANGED <<offset, diskOffset>> /\ loop' = "saving"
        /\ confirmed' = (IF offset > confirmed THEN offset ELSE confirmed)
    BY <1>2 DEF Poll, disk
  <2>3. \A u \in Update : u < confirmed' => Kept(u)'
    BY <1>0, <2>2 DEF Saved
  <2>4. \A u \in Update, v \in batch' : u < v /\ u \notin batch' => u < confirmed'
    <3>1. confirmed' \in Nat /\ newest \in Nat
      BY <1>0, <2>1, <2>2, UpdatesAreNumbers
    <3> QED BY <1>0, <2>1, <3>1
  <2> QED BY <1>0, <2>2, <2>3, <2>4 DEF Saved
<1>3. CASE SaveUpdate
  <2>1. loop = "saving" /\ UNCHANGED <<confirmed, diskOffset>>
    BY <1>3 DEF SaveUpdate
  <2>5. PICK e \in batch : e = Earliest(batch) /\ \A v \in batch : e <= v
    BY <1>0, <2>1, FirstOfBatch
  <2>2. \/ /\ queue' = queue \cup {e} /\ batch' = batch /\ loop' = "advancing"
           /\ offset' = IF e + 1 > offset THEN e + 1 ELSE offset
        \/ loop' = "poll" /\ UNCHANGED offset
    BY <1>3, <2>5 DEF SaveUpdate
  <2>3. CASE /\ queue' = queue \cup {e} /\ batch' = batch /\ loop' = "advancing"
             /\ offset' = IF e + 1 > offset THEN e + 1 ELSE offset
    <3>1. Kept(e)'
      BY <2>3 DEF Kept
    <3>2. \A u \in Update : u < e => Kept(u)
      BY <1>0, <2>1, <2>5 DEF Saved
    <3>3. \A u \in Update : u < offset' => u < offset \/ u = e \/ u < e
      BY <1>0, <2>5, <2>3
    <3>4. \A u \in Update : u < offset' => Kept(u)'
      BY <1>0, <3>1, <3>2, <3>3 DEF Saved
    <3>5. e < offset'
      BY <1>0, <2>5, <2>3
    <3>6. \A u \in Update, v \in batch' : u < v /\ u \notin batch' => Kept(u)'
      BY <1>0, <2>1, <2>3 DEF Saved
    <3>7. \E v \in batch' : v < offset' /\ \A u \in batch' : v <= u
      BY <2>5, <2>3, <3>5
    <3>8. \A u \in Update : u < diskOffset' \/ u < confirmed' => Kept(u)'
      BY <1>0, <2>1 DEF Saved
    <3> QED BY <3>4, <3>6, <3>7, <3>8 DEF Saved
  <2>4. CASE loop' = "poll" /\ UNCHANGED offset
    BY <1>0, <2>1, <2>4 DEF Saved
  <2> QED BY <2>2, <2>3, <2>4
<1>4. CASE SaveOffset
  <2>0. loop = "advancing"
    BY <1>4 DEF SaveOffset
  <2>5. PICK e \in batch : e = Earliest(batch) /\ \A v \in batch : e <= v
    BY <1>0, <2>0, FirstOfBatch
  <2>1. /\ loop = "advancing"
        /\ UNCHANGED <<confirmed, offset>> /\ batch' = batch \ {e} /\ loop' \in {"poll", "saving"}
        /\ diskOffset' = offset \/ diskOffset' = diskOffset
    BY <1>4, <2>5 DEF SaveOffset
  <2>2. e < offset
    <3>1. PICK v \in batch : v < offset /\ \A u \in batch : v <= u
      BY <1>0, <2>1 DEF Saved
    <3> QED BY <1>0, <2>5, <3>1
  <2>3. \A u \in Update : u < offset' \/ u < diskOffset' \/ u < confirmed' => Kept(u)'
    BY <1>0, <2>1 DEF Saved
  <2>4. \A u \in Update, v \in batch' : u < v /\ u \notin batch' => Kept(u)'
    <3> SUFFICES ASSUME NEW u \in Update, NEW v \in batch', u < v, u \notin batch' PROVE Kept(u)'
      OBVIOUS
    <3>1. CASE u = e
      BY <1>0, <2>1, <2>2, <2>3, <3>1
    <3>2. CASE u \notin batch
      BY <1>0, <2>1, <3>2 DEF Saved
    <3> QED BY <2>1, <3>1, <3>2
  <2> QED BY <2>1, <2>3, <2>4 DEF Saved
<1>5. CASE Replay
  <2>1. UNCHANGED <<offset, confirmed, diskOffset>> /\ loop' \in {"poll", "replaying"}
    BY <1>5 DEF Replay, disk
  <2> QED BY <1>0, <2>1 DEF Saved
<1>6. CASE Crash
  <2>1. UNCHANGED <<confirmed, diskOffset>> /\ loop' = "down" /\ offset' = 1
    BY <1>6 DEF Crash, disk
  <2>2. \A u \in Update : ~(u < 1)
    BY UpdatesAreNumbers
  <2> QED BY <1>0, <2>1, <2>2 DEF Saved
<1>7. CASE Restart
  <2>1. UNCHANGED <<confirmed, diskOffset>> /\ loop' \in {"poll", "replaying"} /\ offset' = diskOffset
    BY <1>7 DEF Restart, disk
  <2> QED BY <1>0, <2>1 DEF Saved
<1> QED BY <1>1, <1>2, <1>3, <1>4, <1>5, <1>6, <1>7, SourceStays DEF Ingest

(* A /stop is settled when it was answered. *)
LEMMA StopsKept ==
  ASSUME IInv, [Next]_vars, \A u \in Update : command[u] = "settling" => u \in told
  PROVE  \A u \in Update : command'[u] = "settling" => u \in told'
<1>0. Types /\ RowInv /\ CommandInv /\ TimersInv /\ command \in [Update -> Commands] /\ told \subseteq told'
  BY AnswersGrow DEF IInv, Types
<1> DEFINE Q == \A u \in Update : command'[u] = "settling" => u \in told'
<1>1. (\A u \in Update : command'[u] = "settling" => command[u] = "settling") => Q
  BY <1>0
<1>2. CASE Poll \/ SaveUpdate \/ FlushBurst \/ TurnEnds \/ Restart \/ UNCHANGED vars
  BY <1>1, <1>2 DEF Poll, SaveUpdate, FlushBurst, TurnEnds, Restart, vars, commands
<1>3. ASSUME NEW u \in Update, Dispatch(u) PROVE Q
  BY <1>0, <1>1, <1>3, DispatchCommands
<1>4. CASE SaveOffset \/ Replay
  <2>1. Earliest(batch) \in Update /\ Dispatch(Earliest(batch))
    BY <1>0, <1>4, EarliestIsLeast DEF SaveOffset, Replay, Types
  <2> QED BY <1>3, <2>1
<1>5. CASE StartJob \/ Prepare \/ Post \/ Accepted \/ InterruptOwn \/ Announce \/ Deliver
  BY <1>1, <1>5 DEF StartJob, Prepare, Post, Accepted, InterruptOwn, Announce, Deliver, commands
<1>6. CASE BeginReset \/ CloseSession \/ RemoveFile \/ Throw \/ FinishJob \/ ReportFailure
  BY <1>1, <1>6 DEF BeginReset, CloseSession, RemoveFile, Throw, FinishJob, ReportFailure, LeaveChain, commands
<1>7. ASSUME NEW parts \in timers, Retry(parts) PROVE Q
  <2>1. CASE Len(parts) = 1
    <3>1. parts \in Seq(Update) /\ parts # <<>>
      BY <1>0 DEF Types, TimersInv
    <3>2. Head(parts) \in Update /\ Dispatch(Head(parts))
      BY <1>7, <2>1, <3>1, Shorter DEF Retry
    <3> QED BY <1>3, <3>2
  <2>2. CASE Len(parts) # 1
    BY <1>1, <1>7, <2>2 DEF Retry
  <2> QED BY <2>1, <2>2
<1>8. ASSUME NEW u \in Update, RunCommand(u) PROVE Q
  <2>1. \A v \in Update : v # u => command'[v] = command[v]
    BY <1>0, <1>8, CommandSteps
  <2>2. command'[u] = "settling" => u \in told'
    BY <1>0, <1>8 DEF RunCommand, Discard, Stop, PrepareReset, InterruptTurn, StopReplies, StopSettles,
                      At, CancelOperation, NameDropped
  <2> QED BY <1>0, <2>1, <2>2
<1>9. CASE Crash
  BY <1>9 DEF Crash
<1> QED BY <1>2, <1>4, <1>5, <1>6, <1>7, <1>8, <1>9 DEF Next, Ingest, RunJob, Retries

LEMMA JobAnswersKept ==
  ASSUME IInv, KeepsFiles, [Next]_vars
  PROVE  JobAnswers'
<1>0. /\ Types /\ RowInv /\ JobInv /\ JobAnswers
      /\ Submitted \subseteq Submitted' /\ Accounted \subseteq Accounted'
  BY AnswersGrow DEF IInv, AnswerInv, JobAnswers
<1>1. chain # <<>> => (chain' # <<>> /\ Parts' = Parts) \/ head' = "idle"
  BY <1>0, FrontKept
<1>2. head # "idle" => chain # <<>>
  BY <1>0 DEF JobInv
<1>3. head' = "idle" => JobAnswers'
  BY DEF JobAnswers
<1>4. CASE ~RunJob /\ ~Crash
  <2>1. UNCHANGED <<head, left>>
    BY <1>4, HeadStays
  <2> QED BY <1>0, <1>1, <1>2, <1>3, <2>1 DEF JobAnswers
<1>5. CASE Crash
  BY <1>3, <1>5 DEF Crash
<1>6. Answer(Parts) \/ LastWord(Parts) => JobAnswers'
  BY DEF LastWord, Answer, Settle, JobAnswers, Accounted
<1>7. CASE RunJob
  <2>1. CASE StartJob
    BY <2>1 DEF StartJob, JobAnswers
  <2>2. CASE Prepare
    BY <1>6, <2>2 DEF Prepare, JobAnswers
  <2>3. CASE Post
    <3>1. chain # <<>> /\ chain' = chain
      BY <1>2, <2>3 DEF Post
    <3>2. Parts' = Parts /\ Parts \in Seq(Update) /\ Grouped(Parts) /\ Primary = Parts[1] /\ Primary \in Update
      BY <1>0, <3>1, PartsIn, PrimaryIn DEF Parts
    <3>3. CASE prior[Primary] # 0 /\ head' = "posted" /\ UNCHANGED turns
      <4>1. Primary \in Submitted
        BY <3>2, <3>3 DEF IInv, PriorInv, Submitted
      <4>2. ~joining
        <5> SUFFICES ASSUME joining PROVE FALSE
          OBVIOUS
        <5>1. Undisturbed /\ FirstUnposted = 1
          BY <2>3 DEF KeepsFiles, FirstUnposted, Post
        <5>2. Fresh(chain, burst, inflight, Coming, Submitted, 1)
          BY <1>0, <5>1 DEF RowInv, Row
        <5>3. 1 \in DOMAIN chain /\ Primary \in Range(chain[1])
          BY <1>0, <3>1, PartsIn, PrimaryIn
        <5> QED BY <4>1, <5>2, <5>3 DEF Fresh
      <4>3. Range(Parts) = {Primary}
        <5>1. Len(Parts) = 1
          BY <3>2, <4>2 DEF Grouped
        <5>2. 1 \in 1..Len(Parts) /\ \A j \in 1..Len(Parts) : j = 1
          BY <5>1
        <5>3. \A x : x \in Range(Parts) <=> x = Primary
          BY <3>2, <5>2, InRange
        <5> QED BY <5>3
      <4>4. head' = "posted" /\ Range(Parts') \subseteq Submitted'
        BY <1>0, <3>2, <3>3, <4>1, <4>3
      <4> QED BY <4>4 DEF JobAnswers
    <3>4. CASE head' = "settling" /\ left' = Parts /\ told' = told \cup Range(Parts)
      BY <3>4 DEF JobAnswers, Accounted
    <3>5. CASE /\ head' = "posted" /\ DOMAIN turns' = 1..(Len(turns) + 1)
               /\ turns'[Len(turns) + 1] = Parts
      <4>1. Len(turns) \in Nat
        BY <1>0 DEF Types
      <4>2. Len(turns) + 1 \in DOMAIN turns'
        BY <3>5, <4>1
      <4>3. Range(Parts') \subseteq Submitted'
        BY <3>2, <3>5, <4>2 DEF Submitted
      <4> QED BY <3>5, <4>3 DEF JobAnswers
    <3> QED BY <1>0, <2>3, <3>3, <3>4, <3>5, PostCases
  <2>4. CASE Accepted
    BY <1>0, <1>1, <1>2, <2>4 DEF Accepted, JobAnswers
  <2>5. CASE InterruptOwn
    BY <1>6, <2>5 DEF InterruptOwn
  <2>6. CASE Announce
    BY <1>0, <1>1, <1>2, <1>6, <2>6 DEF Announce, JobAnswers
  <2>7. CASE Deliver
    <3>1. Range(Parts) \subseteq Accounted' /\ head' = "settling" /\ left' = Parts
      BY <1>0, <2>7 DEF Deliver, Settle, JobAnswers, Accounted
    <3> QED BY <3>1 DEF JobAnswers
  <2>8. CASE BeginReset \/ CloseSession
    BY <1>6, <2>8 DEF BeginReset, CloseSession, JobAnswers
  <2>9. CASE RemoveFile
    <3>1. head = "settling" /\ left # <<>> /\ left \in Seq(Update) /\ head' = head /\ left' = Tail(left)
      BY <1>0, <2>9 DEF RemoveFile, Types
    <3>2. Range(Tail(left)) \subseteq Range(left)
      BY <3>1, Shorter
    <3> QED BY <1>0, <3>1, <3>2 DEF JobAnswers
  <2>10. CASE FinishJob
    BY <1>3, <2>10 DEF FinishJob, LeaveChain
  <2>11. CASE Throw
    BY <2>11 DEF Throw, JobAnswers
  <2>12. CASE ReportFailure
    BY <1>3, <1>6, <2>12 DEF ReportFailure, LeaveChain
  <2> QED BY <1>7, <2>1, <2>2, <2>3, <2>4, <2>5, <2>6, <2>7, <2>8, <2>9, <2>10, <2>11, <2>12 DEF RunJob
<1> QED BY <1>4, <1>5, <1>7

LEMMA AnswerKept ==
  ASSUME IInv, [Next]_vars
  PROVE  AnswerInv'
<1> SUFFICES ASSUME KeepsFiles' PROVE (Saved /\ JobAnswers /\ \A u \in Update : command[u] = "settling" => u \in told)'
  BY DEF AnswerInv, Saved, JobAnswers
<1>1. KeepsFiles
  BY Fading DEF IInv, Fades, KeepsFiles
<1>2. \A u \in Update : command[u] = "settling" => u \in told
  BY <1>1 DEF IInv, AnswerInv
<1> QED BY <1>1, <1>2, SavedKept, JobAnswersKept, StopsKept

-----------------------------------------------------------------------------
(* The daemon's turns. *)
LEMMA PriorKept ==
  ASSUME IInv, [Next]_vars
  PROVE  PriorInv'
<1>0. /\ Types /\ RowInv /\ JobInv /\ PriorInv /\ prior \in [Update -> Nat]
      /\ Len(turns) \in Nat /\ DOMAIN turns = 1..Len(turns)
  BY RangeIn DEF IInv, Types
<1>1. CASE Post
  <2>1. Primary \in Update /\ Primary \in Range(Parts)
    BY <1>0, <1>1, PrimaryIn DEF Post, JobInv
  <2>2. CASE UNCHANGED <<turns, prior>>
    BY <1>0, <2>2 DEF PriorInv
  <2>3. CASE /\ DOMAIN turns' = 1..(Len(turns) + 1) /\ turns'[Len(turns) + 1] = Parts
             /\ \A n \in DOMAIN turns : n \in DOMAIN turns' /\ turns'[n] = turns[n]
             /\ prior' = [prior EXCEPT ![Primary] = Len(turns) + 1]
    <3> SUFFICES ASSUME NEW u \in Update, prior'[u] # 0
                 PROVE  prior'[u] \in DOMAIN turns' /\ u \in Range(turns'[prior'[u]])
      BY DEF PriorInv
    <3>1. CASE u = Primary
      <4>1. prior'[u] = Len(turns) + 1 /\ Len(turns) + 1 \in DOMAIN turns'
        BY <1>0, <2>3, <3>1
      <4> QED BY <2>1, <2>3, <3>1, <4>1
    <3>2. CASE u # Primary
      <4>1. prior'[u] = prior[u]
        BY <1>0, <2>3, <3>2
      <4>2. prior[u] \in DOMAIN turns /\ u \in Range(turns[prior[u]])
        BY <1>0, <4>1 DEF PriorInv
      <4> QED BY <2>3, <4>1, <4>2
    <3> QED BY <3>1, <3>2
  <2> QED BY <1>0, <1>1, <2>2, <2>3, PostCases
<1>2. CASE CloseSession
  <2>1. turns' = turns /\ (prior' = prior \/ \A u \in Update : prior'[u] = 0)
    BY <1>2 DEF CloseSession
  <2> QED BY <1>0, <2>1 DEF PriorInv
<1>3. CASE ~Post /\ ~CloseSession
  <2>1. UNCHANGED <<turns, prior>>
    BY <1>3, TurnsStay
  <2> QED BY <1>0, <2>1 DEF PriorInv
<1> QED BY <1>1, <1>2, <1>3

(* The parts of the job that is posted, as far as they are known to be new and in order. *)
LEMMA PostedParts ==
  ASSUME IInv, Post
  PROVE  /\ Parts \in Seq(Update) /\ Primary \in Update
         /\ ~joining => Range(Parts) = {Primary}
         /\ Undisturbed => Submitted \cap Range(Parts) = {}
         /\ Orderly => Rising(Parts)
         /\ Sequential => UpTo(Submitted, Range(Parts))
<1>1. Types /\ RowInv /\ chain # <<>> /\ FirstUnposted = 1
  BY DEF IInv, JobInv, Post, FirstUnposted
<1>2. /\ Parts \in Seq(Update) /\ Parts = chain[1] /\ 1 \in DOMAIN chain /\ Grouped(Parts)
      /\ Primary = Parts[1] /\ Primary \in Update
  BY <1>1, PartsIn, PrimaryIn
<1>3. ASSUME ~joining PROVE Range(Parts) = {Primary}
  <2>1. Len(Parts) = 1
    BY <1>2, <1>3 DEF Grouped
  <2>2. 1 \in 1..Len(Parts) /\ \A j \in 1..Len(Parts) : j = 1
    BY <2>1
  <2>3. \A x : x \in Range(Parts) <=> x = Primary
    BY <1>2, <2>2, InRange
  <2> QED BY <2>3
<1>4. Undisturbed => Submitted \cap Range(Parts) = {}
  <2>1. Undisturbed => Fresh(chain, burst, inflight, Coming, Submitted, 1)
    BY <1>1 DEF RowInv, Row
  <2> QED BY <1>2, <2>1 DEF Fresh
<1>5. Orderly => Rising(Parts)
  BY <1>1, <1>2 DEF RowInv, Row, Ranked
<1>6. Sequential => UpTo(Submitted, Range(Parts))
  BY <1>1, <1>2 DEF RowInv, Row, Later
<1> QED BY <1>2, <1>3, <1>4, <1>5, <1>6

LEMMA TurnsKept ==
  ASSUME IInv, [Next]_vars
  PROVE  TurnsInv'
<1>0. /\ Types /\ RowInv /\ JobInv /\ TurnsInv /\ Fades /\ prior \in [Update -> Nat]
      /\ Len(turns) \in Nat /\ DOMAIN turns = 1..Len(turns) /\ turns \in Seq(Seq(Update))
  <2>1. Types /\ RowInv /\ JobInv /\ TurnsInv
    BY DEF IInv
  <2>2. turns \in Seq(Seq(Update)) /\ prior \in [Update -> Nat]
    BY <2>1 DEF Types
  <2> QED BY <2>1, <2>2, Fading, RangeIn
<1>1. (Alone' => Alone) /\ (NoResets' => NoResets) /\ (~joining' => ~joining)
  BY <1>0 DEF Fades, Alone, NoResets
<1>2. /\ Alone => Distinct(turns)
      /\ ~joining /\ NoResets => \A u \in Submitted : prior[u] # 0
      /\ Orderly => PartsInOrder
      /\ Sequential => TurnsInOrder
  BY <1>0 DEF TurnsInv, TurnOnce, Alone, Distinct, Apart
<1>3. CASE UNCHANGED turns /\ UNCHANGED prior
  BY <1>0, <1>1, <1>2, <1>3
     DEF Fades, TurnsInv, TurnOnce, Alone, Distinct, Apart, PartsInOrder, TurnsInOrder, Submitted
<1>4. CASE CloseSession
  <2>1. UNCHANGED turns /\ ~NoResets
    <3>1. chain # <<>> /\ ~Text(Primary)
      BY <1>0, <1>4 DEF CloseSession, JobInv
    <3>2. Grouped(Parts) /\ Primary = Parts[1] /\ Primary \in Range(Parts) /\ Primary \in Update
      BY <1>0, <3>1, PrimaryIn
    <3>3. kind[Primary] = "reset"
      BY <3>1, <3>2 DEF Grouped
    <3> QED BY <1>4, <3>2, <3>3 DEF CloseSession, NoResets
  <2>2. (Alone' => Distinct(turns')) /\ ~NoResets'
    BY <1>0, <1>1, <1>2, <2>1 DEF Distinct
  <2> QED BY <1>0, <1>2, <2>1, <2>2
          DEF Fades, TurnsInv, TurnOnce, Alone, Distinct, Apart, PartsInOrder, TurnsInOrder
<1>5. CASE /\ Post /\ prior[Primary] = 0
           /\ DOMAIN turns' = 1..(Len(turns) + 1) /\ turns'[Len(turns) + 1] = Parts
           /\ \A n \in DOMAIN turns : n \in DOMAIN turns' /\ turns'[n] = turns[n] /\ n < Len(turns) + 1
           /\ \A n \in DOMAIN turns' : n # Len(turns) + 1 => n \in DOMAIN turns
           /\ prior' = [prior EXCEPT ![Primary] = Len(turns) + 1]
  <2> DEFINE k == Len(turns) + 1
  <2>0. \A n \in DOMAIN turns' : n = k \/ (n \in DOMAIN turns /\ turns'[n] = turns[n])
    BY <1>5
  <2>1. /\ Parts \in Seq(Update) /\ Primary \in Update
        /\ ~joining => Range(Parts) = {Primary}
        /\ Undisturbed => Submitted \cap Range(Parts) = {}
        /\ Orderly => Rising(Parts)
        /\ Sequential => UpTo(Submitted, Range(Parts))
    BY <1>5, PostedParts
  <2>2. \A n \in DOMAIN turns : Range(turns[n]) \subseteq Submitted
    BY DEF Submitted
  <2>3. Submitted' = Submitted \cup Range(Parts)
    <3>1. /\ k \in DOMAIN turns' /\ turns'[k] = Parts
          /\ \A n \in DOMAIN turns : n \in DOMAIN turns' /\ turns'[n] = turns[n]
      BY <1>0, <1>5
    <3> HIDE DEF k
    <3> QED BY <2>0, <3>1 DEF Submitted
  <2>4. ASSUME ~joining, NoResets PROVE \A u \in Submitted' : prior'[u] # 0
    <3>1. Submitted' = Submitted \cup {Primary} /\ Submitted \subseteq Update
      BY <1>0, <2>1, <2>3, <2>4, RowTypes
    <3>2. \A u \in Submitted : prior[u] # 0
      BY <1>2, <2>4
    <3>3. k # 0
      BY <1>0
    <3> HIDE DEF k
    <3>4. prior' = [prior EXCEPT ![Primary] = k]
      BY <1>5 DEF k
    <3> QED BY <1>0, <2>1, <3>1, <3>2, <3>3, <3>4
  <2>5. Alone => Submitted \cap Range(Parts) = {}
    <3>1. CASE Undisturbed
      BY <2>1, <3>1
    <3>2. CASE ~joining /\ NoResets
      BY <1>2, <1>5, <2>1, <3>2
    <3>3. Alone => Undisturbed \/ (~joining /\ NoResets)
      BY <1>0 DEF Alone, NoResets
    <3> QED BY <3>1, <3>2, <3>3
  <2>6. ASSUME Alone PROVE Distinct(turns')
    <3>1. \A n \in DOMAIN turns : Apart(turns[n], Parts) /\ Apart(Parts, turns[n])
      BY <2>2, <2>5, <2>6 DEF Apart
    <3>2. Distinct(turns)
      BY <1>2, <2>6
    <3>3. turns'[k] = Parts
      BY <1>5
    <3> HIDE DEF k
    <3> QED BY <2>0, <3>1, <3>2, <3>3 DEF Distinct
  <2>7. ASSUME Orderly PROVE \A n \in DOMAIN turns' : Rising(turns'[n])
    <3>1. \A n \in DOMAIN turns : Rising(turns[n])
      BY <1>2, <2>7 DEF PartsInOrder, Rising
    <3> QED BY <1>5, <2>0, <2>1, <2>7, <3>1
  <2>8. ASSUME Sequential
        PROVE  \A n, m \in DOMAIN turns' : n < m => UpTo(Range(turns'[n]), Range(turns'[m]))
    <3>1. \A n, m \in DOMAIN turns : n < m => UpTo(Range(turns[n]), Range(turns[m]))
      BY <1>2, <2>8 DEF TurnsInOrder, UpTo
    <3>2. \A n \in DOMAIN turns : UpTo(Range(turns[n]), Range(Parts))
      BY <2>1, <2>2, <2>8 DEF UpTo
    <3>3. \A n, m \in DOMAIN turns' : n < m => n \in DOMAIN turns
      BY <1>0, <1>5
    <3>4. turns'[k] = Parts /\ \A n \in DOMAIN turns : turns'[n] = turns[n]
      BY <1>5
    <3> HIDE DEF k
    <3> QED BY <2>0, <3>1, <3>2, <3>3, <3>4
  <2> QED BY <1>0, <1>1, <2>4, <2>6, <2>7, <2>8
          DEF Fades, TurnsInv, TurnOnce, Alone, Distinct, Apart, PartsInOrder, TurnsInOrder, Rising, UpTo
<1>6. CASE Post
  BY <1>0, <1>3, <1>5, <1>6, PostCases
<1>7. CASE ~Post /\ ~CloseSession
  BY <1>3, <1>7, TurnsStay
<1> QED BY <1>4, <1>6, <1>7

-----------------------------------------------------------------------------
(* What a file is for, before the adapter is lost. *)
LEMMA SimpleIs ==
  ASSUME IInv, Simple
  PROVE  /\ Undisturbed /\ Orderly /\ Sequential /\ Regular /\ writeFaults = 0
         /\ inflight \cap Coming = {} /\ burst = <<>> /\ Filed
         /\ loop # "down" /\ loop # "replaying" /\ timers = {}
<1>1. Undisturbed /\ Orderly /\ Sequential /\ Regular /\ writeFaults = 0
  BY DEF Simple, Undisturbed, Orderly, Sequential, Regular, ReplaysAll
<1>2. inflight \cap Coming = {}
  BY <1>1 DEF IInv, RowInv, Row, Fresh
<1>3. burst = <<>>
  BY DEF Simple, IInv, RowInv, Row, Lined, Buffered
<1>4. loop # "down" /\ loop # "replaying"
  BY DEF Simple, IInv, LoopInv
<1>5. Filed /\ timers = {}
  BY DEF Simple, ReplaysAll, IInv, FiledInv, TimersInv
<1> QED BY <1>1, <1>2, <1>3, <1>4, <1>5

LEMMA FiledStands ==
  ASSUME IInv, Simple, queue' \subseteq queue,
         UNCHANGED <<source, diskOffset, chain, turns, head, left>>
  PROVE  Filed'
<1>1. Filed /\ loop # "down"
  BY SimpleIs
<1>2. Coming' = Coming /\ Submitted' = Submitted /\ Parts' = Parts
  BY <1>1 DEF source, Coming, Submitted, Parts
<1> QED BY <1>1, <1>2 DEF Filed

(* Steps of the running job that only move it on. *)
LEMMA FiledMoves ==
  ASSUME IInv, Simple, UNCHANGED <<queue, source, diskOffset, chain, turns>>,
         head' = "settling" => left' = Parts \/ (head = "settling" /\ left' = left)
  PROVE  Filed'
<1>1. Filed
  BY SimpleIs
<1>2. Coming' = Coming /\ Submitted' = Submitted /\ Parts' = Parts
  BY DEF source, Coming, Submitted, Parts
<1> QED BY <1>1, <1>2 DEF Filed

LEMMA FiledDispatch ==
  ASSUME IInv, Simple, Simple', SaveOffset
  PROVE  Filed'
<1> DEFINE e == Earliest(batch)
<1>1. /\ Types /\ LoopInv /\ RowInv /\ JobInv /\ Filed /\ inflight \cap Coming = {} /\ burst = <<>>
      /\ Regular /\ ~joining
  BY SimpleIs DEF IInv, Simple
<1>2. /\ e \in batch /\ e \in Update /\ e \in Nat /\ e + 1 = offset /\ loop = "advancing"
      /\ Update \subseteq Nat /\ offset \in Nat /\ diskOffset \in Nat
  <2>1. loop = "advancing"
    BY DEF SaveOffset
  <2>2. Update \subseteq Nat /\ offset \in Nat /\ diskOffset \in Nat
    BY <1>1, UpdatesAreNumbers DEF Types
  <2> QED BY <1>1, <2>1, <2>2, FirstOfBatch
<1>3. diskOffset' = offset /\ diskOffset + 1 = offset
  <2>1. writeFaults' = 0 /\ writeFaults = 0
    BY DEF Simple, ReplaysAll
  <2> QED BY <1>1, <1>2, <2>1 DEF SaveOffset, WriteFault, LoopInv
<1>4. /\ Dispatch(e) /\ loop' \in {"poll", "saving"}
      /\ UNCHANGED <<queue, offset, head, left, turns, kind>>
  BY DEF SaveOffset, daemon, constants
<1> HIDE DEF e
<1>5. Coming = {u \in Nat : u + 1 >= offset} /\ Coming' = {u \in Nat : u >= offset}
  BY <1>2, <1>4 DEF Coming
<1>6. e \notin inflight /\ e \in Coming
  BY <1>1, <1>2, <1>5
<1>7. chain' = Append(chain, <<e>>)
  <2>1. kind[e] # "stop"
    BY <1>2 DEF Simple, ReplaysAll
  <2> QED BY <1>1, <1>4, <1>6, <2>1 DEF Dispatch, DispatchText, DispatchReset, Flushed
<1>8. /\ chain \in Seq(Seq(Update)) /\ <<e>> \in Seq(Update) /\ Range(<<e>>) = {e}
      /\ DOMAIN chain = 1..Len(chain) /\ Len(chain) \in Nat
  BY <1>1, <1>2, OneIn, RangeIn DEF Types
<1>9. /\ DOMAIN chain' = 1..(Len(chain) + 1) /\ chain'[Len(chain) + 1] = <<e>>
      /\ \A n \in DOMAIN chain : chain'[n] = chain[n]
  BY <1>7, <1>8, Longer
<1>10. \A n \in DOMAIN chain' : n = Len(chain) + 1 \/ n \in DOMAIN chain
  BY <1>8, <1>9
<1>11. Len(chain) + 1 \in DOMAIN chain' /\ \A n \in DOMAIN chain : n \in DOMAIN chain'
  BY <1>8, <1>9
<1>12. \A u \in queue' : u \in Coming' \/ \E n \in DOMAIN chain' : u \in Range(chain'[n])
  <2> SUFFICES ASSUME NEW u \in queue
               PROVE  u \in Coming' \/ \E n \in DOMAIN chain' : u \in Range(chain'[n])
    BY <1>4
  <2>1. CASE u = e
    BY <1>8, <1>9, <1>11, <2>1
  <2>2. CASE u \in Coming /\ u # e
    BY <1>2, <1>5, <2>2
  <2>3. CASE \E n \in DOMAIN chain : u \in Range(chain[n])
    BY <1>9, <1>11, <2>3
  <2> QED BY <1>1, <2>1, <2>2, <2>3 DEF Filed
<1>13. ASSUME head' = "settling" PROVE queue' \cap Range(Parts') \subseteq Range(left')
  <2>1. head = "settling" /\ chain # <<>>
    BY <1>1, <1>4, <1>13 DEF JobInv
  <2>2. Parts' = Parts
    BY <1>7, <1>8, <2>1, <1>1, FrontStays DEF Parts
  <2> QED BY <1>1, <1>4, <2>1, <2>2 DEF Filed
<1>14. \A u \in Submitted' : u <= diskOffset'
  <2>1. Submitted' = Submitted /\ Submitted \subseteq Update
    BY <1>1, <1>4, RowTypes DEF Submitted
  <2> QED BY <1>1, <1>2, <1>3, <2>1 DEF Filed
<1>15. \A n \in DOMAIN chain' : \A u \in Range(chain'[n]) : u <= diskOffset'
  <2> SUFFICES ASSUME NEW n \in DOMAIN chain', NEW u \in Range(chain'[n]) PROVE u <= diskOffset'
    OBVIOUS
  <2>1. CASE n = Len(chain) + 1
    <3>1. u = e
      BY <1>8, <1>9, <2>1
    <3> QED BY <1>2, <1>3, <3>1
  <2>2. CASE n \in DOMAIN chain
    <3>1. u \in Range(chain[n]) /\ u <= diskOffset
      BY <1>1, <1>9, <2>2 DEF Filed
    <3>2. u \in Update
      <4>1. chain[n] \in Seq(Update)
        BY <1>8, <2>2
      <4> QED BY <3>1, <4>1, RangeIn
    <3> QED BY <1>2, <1>3, <3>1, <3>2
  <2> QED BY <1>10, <2>1, <2>2
<1> QED BY <1>12, <1>13, <1>14, <1>15 DEF Filed

LEMMA FiledSave ==
  ASSUME IInv, Simple, Simple', SaveUpdate
  PROVE  Filed'
<1>0. /\ Types /\ LoopInv /\ RowInv /\ JobInv /\ Filed /\ inflight \cap Coming = {} /\ Regular
  BY SimpleIs DEF IInv
<1>1. loop = "saving" /\ UNCHANGED <<diskOffset, chain, turns, head, left>>
  BY DEF SaveUpdate, job, daemon
<1>2. PICK e \in Update : e = Earliest(batch) /\ e = offset /\ e \in Nat
  BY <1>0, <1>1, FirstOfBatch
<1>3. offset \in Nat /\ writeFaults' = 0 /\ writeFaults = 0
  BY <1>2 DEF Simple, ReplaysAll
<1>4. queue' = queue \cup {e} /\ offset' = e + 1 /\ loop' = "advancing"
  BY <1>2, <1>3 DEF SaveUpdate, WriteFault
<1>5. Coming = {u \in Nat : u >= offset} /\ Coming' = {u \in Nat : u + 1 >= offset + 1}
  BY <1>1, <1>2, <1>4 DEF Coming
<1>6. Coming' = Coming /\ e \in Coming
  BY <1>2, <1>3, <1>5
<1>7. Submitted' = Submitted /\ Parts' = Parts
  BY <1>1 DEF Submitted, Parts
<1>8. head = "settling" => e \notin Range(Parts)
  <2>1. head = "settling" => Range(Parts) \subseteq inflight
    BY <1>0, PrimaryIn DEF JobInv
  <2> QED BY <1>0, <1>6, <2>1
<1> QED BY <1>0, <1>1, <1>4, <1>6, <1>7, <1>8 DEF Filed

LEMMA FiledPost ==
  ASSUME IInv, Simple, Post
  PROVE  Filed'
<1>0. Types /\ RowInv /\ JobInv /\ Filed /\ chain # <<>>
  BY SimpleIs DEF IInv, Post, JobInv
<1>1. /\ UNCHANGED <<queue, source, diskOffset, chain>>
      /\ Parts = chain[1] /\ 1 \in DOMAIN chain
  BY <1>0, PartsIn DEF Post, disk, dispatched
<1>2. Coming' = Coming /\ Parts' = Parts
  BY <1>1 DEF source, Coming, Parts
<1>3. \A u \in Submitted' : u <= diskOffset
  <2>1. [Next]_vars
    BY DEF Next, RunJob
  <2>2. \A u \in Range(Parts) : u <= diskOffset
    BY <1>0, <1>1 DEF Filed
  <2>3. Submitted' \subseteq Submitted \cup Range(Parts)
    BY <1>0, <2>1, AnswersGrow
  <2> QED BY <1>0, <2>2, <2>3 DEF Filed
<1>4. head' = "settling" => left' = Parts
  BY <1>0, PostCases
<1> QED BY <1>0, <1>1, <1>2, <1>3, <1>4 DEF Filed

LEMMA FiledFinish ==
  ASSUME IInv, Simple, FinishJob
  PROVE  Filed'
<1>0. Types /\ JobInv /\ Filed /\ chain # <<>> /\ chain \in Seq(Seq(Update))
  BY SimpleIs DEF IInv, FinishJob, JobInv, Types
<1>1. /\ head = "settling" /\ left = <<>> /\ chain' = Tail(chain) /\ head' = "idle"
      /\ UNCHANGED <<queue, diskOffset, source, turns>>
  BY DEF FinishJob, LeaveChain, disk, daemon
<1>2. Coming' = Coming /\ Submitted' = Submitted
  BY <1>1 DEF source, Coming, Submitted
<1>3. queue \cap Range(Parts) = {} /\ Parts = chain[1]
  BY <1>0, <1>1, NoneIn, PartsIn DEF Filed
<1>4. /\ DOMAIN chain = 1..Len(chain) /\ DOMAIN chain' = 1..(Len(chain) - 1) /\ Len(chain) - 1 \in Nat
      /\ \A n \in DOMAIN chain' : chain'[n] = chain[n + 1] /\ n + 1 \in DOMAIN chain
  BY <1>0, <1>1, Shorter, RangeIn
<1>5. \A n \in DOMAIN chain : n # 1 => n - 1 \in DOMAIN chain' /\ chain'[n - 1] = chain[n]
  <2> SUFFICES ASSUME NEW n \in DOMAIN chain, n # 1
               PROVE  n - 1 \in DOMAIN chain' /\ chain'[n - 1] = chain[n]
    OBVIOUS
  <2>1. n - 1 \in DOMAIN chain' /\ (n - 1) + 1 = n
    BY <1>4
  <2> QED BY <1>4, <2>1
<1>6. \A u \in queue : u \in Coming \/ \E n \in DOMAIN chain' : u \in Range(chain'[n])
  <2> SUFFICES ASSUME NEW u \in queue, u \notin Coming
               PROVE  \E n \in DOMAIN chain' : u \in Range(chain'[n])
    OBVIOUS
  <2>1. PICK n \in DOMAIN chain : u \in Range(chain[n])
    BY <1>0 DEF Filed
  <2>2. n # 1
    BY <1>3, <2>1
  <2> QED BY <1>5, <2>1, <2>2
<1>7. \A n \in DOMAIN chain' : \A u \in Range(chain'[n]) : u <= diskOffset
  BY <1>0, <1>4 DEF Filed
<1> QED BY <1>0, <1>1, <1>2, <1>6, <1>7 DEF Filed

LEMMA FiledRemove ==
  ASSUME IInv, Simple, RemoveFile
  PROVE  Filed'
<1>0. Filed /\ left # <<>> /\ left \in Seq(Update)
  BY SimpleIs DEF IInv, RemoveFile, Types
<1>1. /\ head = "settling" /\ left' = Tail(left) /\ queue' = queue \ {Head(left)}
      /\ UNCHANGED <<diskOffset, source, turns, chain, head>>
  BY DEF RemoveFile, daemon
<1>3. loop # "down"
  BY SimpleIs
<1>4. Coming' = Coming /\ Submitted' = Submitted /\ Parts' = Parts
  BY <1>1, <1>3 DEF source, Coming, Submitted, Parts
<1>5. Range(left) = {Head(left)} \cup Range(Tail(left))
  BY <1>0, Shorter
<1>6. queue' \cap Range(Parts) \subseteq Range(left')
  BY <1>0, <1>1, <1>5 DEF Filed
<1> QED BY <1>0, <1>1, <1>4, <1>6 DEF Filed

LEMMA FiledKept ==
  ASSUME IInv, [Next]_vars
  PROVE  FiledInv'
<1> SUFFICES ASSUME Simple' PROVE Filed'
  BY DEF FiledInv, Simple
<1>0. Types /\ JobInv /\ [Next]_vars
  BY DEF IInv
<1>1. /\ crashes' = 0 /\ crashes = 0 /\ unreported' = 0 /\ unreported = 0
      /\ writeFaults' = 0 /\ writeFaults = 0
      /\ ~joining /\ \A u \in Update : kind[u] # "stop"
  <2>1. /\ kind' = kind /\ joining' = joining
        /\ crashes <= crashes' /\ unreported <= unreported' /\ writeFaults <= writeFaults'
    BY <1>0, FaultsGrow
  <2>2. crashes \in Nat /\ unreported \in Nat /\ writeFaults \in Nat
    BY <1>0 DEF Types
  <2>3. /\ crashes' = 0 /\ unreported' = 0 /\ writeFaults' = 0 /\ ~joining'
        /\ \A u \in Update : kind'[u] # "stop"
    BY DEF Simple, ReplaysAll
  <2> QED BY <2>1, <2>2, <2>3
<1>2. Simple
  BY <1>1 DEF Simple, ReplaysAll
<1>3. burst = <<>> /\ loop # "down" /\ loop # "replaying" /\ timers = {} /\ Filed
  BY <1>2, SimpleIs
<1>4. CASE Poll
  <2>1. /\ loop = "poll" /\ loop' = "saving" /\ offset' = offset
        /\ UNCHANGED <<queue, diskOffset, chain, turns, head, left>>
    BY <1>4 DEF Poll, disk, job, daemon
  <2>2. Coming' = Coming /\ Submitted' = Submitted /\ Parts' = Parts
    BY <2>1 DEF Coming, Submitted, Parts
  <2> QED BY <1>3, <2>1, <2>2 DEF Filed
<1>5. CASE SaveUpdate
  BY <1>2, <1>5, FiledSave
<1>6. CASE SaveOffset
  BY <1>2, <1>6, FiledDispatch
<1>7. CASE Replay \/ FlushBurst \/ Retries \/ Restart
  BY <1>3, <1>7 DEF Replay, FlushBurst, Retries, Restart
<1>8. CASE StartJob \/ Prepare \/ Accepted \/ InterruptOwn \/ Announce \/ Deliver
  BY <1>2, <1>8, FiledMoves
     DEF StartJob, Prepare, Accepted, InterruptOwn, Announce, Deliver, LastWord, Answer, Settle, disk,
         dispatched, daemon
<1>9. CASE Post
  BY <1>2, <1>9, FiledPost
<1>10. CASE BeginReset \/ CloseSession \/ Throw
  BY <1>2, <1>10, FiledMoves DEF BeginReset, CloseSession, Throw, Answer, Settle, disk, dispatched, daemon
<1>11. CASE RemoveFile
  BY <1>2, <1>11, FiledRemove
<1>12. CASE FinishJob
  BY <1>2, <1>12, FiledFinish
<1>13. CASE ReportFailure
  <2>1. unreported' # unreported + 1
    BY <1>1
  <2> QED BY <1>2, <1>13, <2>1, FiledMoves DEF ReportFailure, Answer, Settle, disk, daemon
<1>14. CASE TurnEnds \/ UNCHANGED vars
  BY <1>2, <1>14, FiledStands DEF TurnEnds, vars, disk, job, daemon
<1>15. ASSUME NEW u \in Update, RunCommand(u) PROVE Filed'
  BY <1>2, <1>15, FiledStands
     DEF RunCommand, Discard, Stop, PrepareReset, InterruptTurn, StopReplies, StopSettles, disk, job, daemon
<1>16. CASE Crash
  <2>1. crashes' = crashes + 1
    BY <1>16 DEF Crash
  <2> QED BY <1>1, <2>1
<1> QED BY <1>4, <1>5, <1>6, <1>7, <1>8, <1>9, <1>10, <1>11, <1>12, <1>13, <1>14, <1>15, <1>16
        DEF Next, Ingest, RunJob

-----------------------------------------------------------------------------
(* A cancelled operation's turn. *)
LEMMA DispatchKeepsInterrupts ==
  ASSUME Types, CommandInv, NEW u \in Update, Dispatch(u), NEW v \in Update, command[v] = "interrupting"
  PROVE  command'[v] = "interrupting"
<1>1. command \in [Update -> Commands] /\ v \in inflight
  BY DEF Types, CommandInv
<1> QED BY <1>1, DispatchCommands

LEMMA HaltedStays ==
  ASSUME UNCHANGED <<turn, stopped>>, turn # 0, running' \in {0, running}, Halted,
         \A u \in Update : command[u] = "interrupting" => command'[u] = "interrupting"
  PROVE  Halted'
BY DEF Halted

LEMMA InterruptHalts ==
  ASSUME UNCHANGED <<turn, running>>, InterruptSession, turn # 0
  PROVE  Halted'
BY DEF InterruptSession, Halted

LEMMA StopKept ==
  ASSUME IInv, [Next]_vars
  PROVE  StopInv'
<1> SUFFICES ASSUME errors' = 0, head' \in {"announcing", "waiting", "settling"}, cancelled', turn' # 0
             PROVE  Halted'
  BY DEF StopInv, Halted
<1>0. /\ Types /\ RowInv /\ JobInv /\ CommandInv /\ errors = 0
      /\ command \in [Update -> Commands] /\ cancelled \in BOOLEAN
      /\ head \in {"announcing", "waiting", "settling"} /\ cancelled /\ turn # 0 => Halted
  <2>1. Types /\ RowInv /\ JobInv /\ CommandInv /\ StopInv
    BY DEF IInv
  <2>2. errors = 0
    BY <2>1, FaultsGrow DEF Types
  <2>3. command \in [Update -> Commands] /\ cancelled \in BOOLEAN
    BY <2>1 DEF Types
  <2> QED BY <2>1, <2>2, <2>3 DEF StopInv, Halted
<1>1. CASE Poll \/ SaveUpdate \/ FlushBurst \/ TurnEnds \/ Restart \/ UNCHANGED vars
  <2>1. UNCHANGED <<head, cancelled, turn, stopped, command>> /\ running' \in {0, running}
    BY <1>1 DEF Poll, SaveUpdate, FlushBurst, TurnEnds, Restart, vars, job, daemon, commands
  <2> QED BY <1>0, <2>1, HaltedStays
<1>2. ASSUME NEW u \in Update, Dispatch(u), UNCHANGED <<head, cancelled, daemon, turn>> PROVE Halted'
  <2>1. \A v \in Update : command[v] = "interrupting" => command'[v] = "interrupting"
    BY <1>0, <1>2, DispatchKeepsInterrupts
  <2> QED BY <1>0, <1>2, <2>1, HaltedStays DEF daemon
<1>3. CASE SaveOffset \/ Replay
  <2>1. Earliest(batch) \in Update /\ Dispatch(Earliest(batch))
    BY <1>0, <1>3, EarliestIsLeast DEF SaveOffset, Replay, Types
  <2> QED BY <1>2, <1>3, <2>1 DEF SaveOffset, Replay
<1>4. ASSUME NEW parts \in timers, Retry(parts) PROVE Halted'
  <2>1. CASE Len(parts) = 1
    <3>1. parts \in Seq(Update) /\ parts # <<>>
      BY DEF IInv, Types, TimersInv
    <3>2. Head(parts) \in Update /\ Dispatch(Head(parts))
      BY <1>4, <2>1, <3>1, Shorter DEF Retry
    <3> QED BY <1>2, <1>4, <3>2 DEF Retry
  <2>2. CASE Len(parts) # 1
    <3>1. UNCHANGED <<head, cancelled, turn, running, stopped, command>>
      BY <1>4, <2>2 DEF Retry, daemon
    <3> QED BY <1>0, <3>1, HaltedStays
  <2> QED BY <2>1, <2>2
<1>5. ASSUME NEW u \in Update, RunCommand(u) PROVE Halted'
  <2>1. UNCHANGED <<head, turn, running>>
    BY <1>5 DEF RunCommand, Discard, Stop, PrepareReset, InterruptTurn, StopReplies, StopSettles, job, daemon
  <2>2. CASE Stop(u) \/ PrepareReset(u)
    <3>0. Fails => FALSE
      BY <1>0 DEF Fails, IInv, Types
    <3>1. CASE UNCHANGED cancelled /\ command' = [command EXCEPT ![u] = "refused"] /\ command[u] = "preparing"
      <4>1. \A v \in Update : command[v] = "interrupting" => command'[v] = "interrupting"
        BY <1>0, <3>1
      <4>2. UNCHANGED stopped
        BY <2>2 DEF Stop, PrepareReset, daemon
      <4> QED BY <1>0, <2>1, <3>1, <4>1, <4>2, HaltedStays
    <3>2. ASSUME NEW done, CancelOperation(u, done) PROVE Halted'
      <4>1. ~(Operating /\ head \notin {"interrupting", "announcing", "waiting"})
        BY <2>1 DEF Operating
      <4>2. command'[u] = "interrupting"
        BY <1>0, <3>2, <4>1 DEF CancelOperation
      <4> QED BY <4>2 DEF Halted
    <3> QED BY <2>2, <3>0, <3>1, <3>2 DEF Stop, PrepareReset
  <2>3. CASE InterruptTurn(u)
    <3>1. ~Fails
      BY <1>0 DEF Fails, IInv, Types
    <3> QED BY <2>1, <2>3, <3>1, InterruptHalts DEF InterruptTurn
  <2>4. CASE Discard(u) \/ StopReplies(u) \/ StopSettles(u)
    <3>1. UNCHANGED <<cancelled, stopped>> /\ command[u] # "interrupting"
          /\ \A v \in Update : v # u => command'[v] = command[v]
      BY <1>0, <2>4 DEF Discard, StopReplies, StopSettles, At, job, daemon
    <3> QED BY <1>0, <2>1, <3>1, HaltedStays
  <2> QED BY <1>5, <2>2, <2>3, <2>4 DEF RunCommand
<1>6. CASE Crash
  BY <1>6 DEF Crash
<1>7. CASE RunJob
  <2>0. head \in {"preparing", "posting", "barrier", "closing"} => turn = 0
    BY <1>0 DEF JobInv
  <2>1. CASE StartJob \/ Throw
    BY <2>1 DEF StartJob, Throw
  <2>2. CASE Prepare
    BY <2>0, <2>2 DEF Prepare
  <2>3. CASE Post
    <3>1. head = "posting" /\ head' = "settling" => turn' = 0
      BY <1>0, <2>0, <2>3, PostCases
    <3>2. head = "posting" /\ head' \in {"posted", "settling"}
      BY <1>0, <2>3, PostCases DEF Post
    <3> QED BY <3>1, <3>2
  <2>4. CASE Accepted
    BY <2>4 DEF Accepted
  <2>5. CASE InterruptOwn
    BY <2>5, InterruptHalts DEF InterruptOwn
  <2>6. CASE Announce
    <3>1. head = "announcing" /\ UNCHANGED <<cancelled, turn, running, stopped, command>>
      BY <2>6 DEF Announce, daemon, commands
    <3> QED BY <1>0, <3>1, HaltedStays
  <2>7. CASE Deliver
    BY <2>7 DEF Deliver, daemon, Halted
  <2>8. CASE BeginReset
    BY <2>0, <2>8 DEF BeginReset
  <2>9. CASE CloseSession
    BY <2>0, <2>9 DEF CloseSession
  <2>10. CASE RemoveFile
    <3>1. head = "settling" /\ UNCHANGED <<cancelled, turn, running, stopped, command>>
      BY <2>10 DEF RemoveFile, daemon, commands
    <3> QED BY <1>0, <3>1, HaltedStays
  <2>11. CASE FinishJob
    BY <2>11 DEF FinishJob, LeaveChain
  <2>12. CASE ReportFailure
    BY <1>0, <2>12 DEF ReportFailure, JobInv
  <2> QED BY <1>7, <2>1, <2>2, <2>3, <2>4, <2>5, <2>6, <2>7, <2>8, <2>9, <2>10, <2>11, <2>12 DEF RunJob
<1> QED BY <1>1, <1>3, <1>4, <1>5, <1>6, <1>7 DEF Next, Ingest, Retries

-----------------------------------------------------------------------------
(* The invariant, and what follows from it. *)
LEMMA InitInv ==
  ASSUME Init
  PROVE  IInv
<1> USE DEF Init
<1>0. /\ MaxUpdate \in Nat /\ 1 \in 1..(MaxUpdate + 1) /\ Update \subseteq Nat
      /\ \A u \in Update : ~(u < 1) /\ u \in Nat
  BY UpdatesAreNumbers
<1>1. Range(<<>>) = {} /\ DOMAIN <<>> = {} /\ Len(<<>>) = 0 /\ <<>> \in Seq(Update)
      /\ <<>> \in Seq(Seq(Update))
  BY NoneIn
<1>2. Types
  <2>1. /\ confirmed \in 1..(MaxUpdate + 1) /\ diskOffset \in 1..(MaxUpdate + 1)
        /\ offset \in 1..(MaxUpdate + 1)
    BY <1>0
  <2>2. /\ burst \in Seq(Update) /\ chain \in Seq(Seq(Update)) /\ left \in Seq(Update)
        /\ dropped \in [Update -> Seq(Update)] /\ turns \in Seq(Seq(Update)) /\ Len(turns) = 0
    BY <1>1
  <2>3. command \in [Update -> Commands] /\ head \in Heads
    BY DEF Commands, Heads
  <2>4. turn \in 0..Len(turns) /\ running \in 0..Len(turns)
    BY <2>2
  <2> QED BY <2>1, <2>2, <2>3, <2>4 DEF Types
<1>3. JobInv
  BY DEF JobInv
<1>4. Submitted = {} /\ Coming \subseteq Nat /\ FirstUnposted = 1
  BY <1>1 DEF Submitted, Coming, FirstUnposted
<1>5. RowInv
  <2>1. Lined(chain, burst, dropped, inflight)
    BY <1>1 DEF Lined, Buffered, Apart
  <2>2. Fresh(chain, burst, inflight, Coming, Submitted, 1)
    BY <1>1, <1>4 DEF Fresh
  <2>3. Ranked(chain, burst, Coming) /\ Later(chain, burst, Coming, Submitted, 1)
    BY <1>1, <1>4 DEF Ranked, Later, Rising, UpTo
  <2>4. dropped \in [Update -> Seq(Update)]
    BY <1>1
  <2> QED BY <1>1, <1>4, <2>1, <2>2, <2>3, <2>4 DEF RowInv, Row
<1>6. CommandInv /\ TimersInv
  BY DEF CommandInv, TimersInv
<1>7. LoopInv
  BY DEF LoopInv
<1>8. AnswerInv
  BY <1>0, <1>1 DEF AnswerInv, Saved, JobAnswers
<1>9. PriorInv /\ StopInv
  BY DEF PriorInv, StopInv
<1>10. TurnsInv
  BY <1>1, <1>4 DEF TurnsInv, Alone, Distinct, Apart, PartsInOrder, TurnsInOrder
<1>11. FiledInv
  BY <1>1, <1>4 DEF FiledInv, Filed
<1> QED BY <1>2, <1>3, <1>5, <1>6, <1>7, <1>8, <1>9, <1>10, <1>11 DEF IInv

LEMMA StepInv ==
  ASSUME IInv, [Next]_vars
  PROVE  IInv'
BY RowKept, TypesKept, JobKept, CommandKept, TimersKept, LoopKept, AnswerKept, PriorKept, TurnsKept,
   FiledKept, StopKept DEF IInv

LEMMA InvHolds == Spec => []IInv
<1>1. Init => IInv
  BY InitInv
<1>2. IInv /\ [Next]_vars => IInv'
  BY StepInv
<1> QED BY <1>1, <1>2, PTL DEF Spec

(* Whatever fails, the adapter's state is one the code can name: the running job   *)
(* has its parts, what waits on the chain is in flight, a turn is one the daemon    *)
(* accepted.                                                                        *)
THEOREM TypeCorrect == Spec => []TypeOK
<1>1. IInv => TypeOK
  <2> SUFFICES ASSUME IInv PROVE TypeOK
    OBVIOUS
  <2>1. Types /\ JobInv /\ RowInv /\ PriorInv
    BY DEF IInv
  <2>2. /\ DOMAIN turns = 1..Len(turns) /\ Len(turns) \in Nat /\ Range(burst) \subseteq Update
    BY <2>1, RangeIn DEF Types
  <2>3. \A n \in DOMAIN chain : chain[n] # <<>> /\ Range(chain[n]) \subseteq inflight
    BY <2>1 DEF RowInv, Row, Lined, Grouped
  <2>4. Range(prior) \subseteq 0..Len(turns)
    <3>1. prior \in [Update -> Nat] /\ \A u \in Update : prior[u] = 0 \/ prior[u] \in 1..Len(turns)
      BY <2>1, <2>2 DEF Types, PriorInv
    <3> QED BY <2>2, <3>1 DEF Range
  <2>5. head = "idle" => turn = 0 /\ left = <<>> /\ ~cancelled
    BY <2>1 DEF JobInv
  <2> QED BY <2>1, <2>2, <2>3, <2>4, <2>5 DEF TypeOK, Types
<1> QED BY <1>1, InvHolds, PTL

(* An update that was taken over from Telegram and whose file is gone was part of a   *)
(* turn, or its user was told what became of it, or is being told, or that word was   *)
(* sent and did not arrive: through every loss of the adapter, failed write, operation *)
(* that throws and report that cannot be sent.  When updates are joined, only while    *)
(* none of the first and last happens (telegram.js: acceptUpdate, runParts, init,      *)
(* discardBurst).                                                                     *)
THEOREM UpdatesAreAnswered == Spec => []AnsweredUnlessDisturbed
<1>1. IInv => AnsweredUnlessDisturbed
  <2> SUFFICES ASSUME IInv, KeepsFiles, NEW u \in Update, u < diskOffset \/ u < confirmed, u \notin queue
               PROVE  u \in Accounted
    BY DEF AnsweredUnlessDisturbed, AccountedIn, KeepsFiles, Accounted
  <2> QED BY DEF IInv, AnswerInv, Saved, Kept
<1> QED BY <1>1, InvHolds, PTL

(* No text is in two turns of the daemon, whatever is dispatched again, when an      *)
(* update is a turn by itself and nobody resets; else while the adapter is not lost   *)
(* and every failure is reported (telegram.js: submissionIdempotencyKey;             *)
(* session-manager.js: admitSubmission).                                             *)
THEOREM TextsAreTurnedOnce == Spec => []TurnOnce
<1>1. IInv => TurnOnce
  BY DEF IInv, TurnsInv, TurnOnce, Alone, Distinct, Apart
<1> QED BY <1>1, InvHolds, PTL

(* Turns and their parts are in the order of the updates, for any number of losses    *)
(* of the adapter, or one for the order of turns, as long as every failure is         *)
(* reported, every write succeeds and nobody stops (telegram.js: init, acceptUpdate,  *)
(* bufferBurst, flushBurst, the chain).                                              *)
THEOREM TurnsKeepTheOrder == Spec => []InOrder
<1>1. IInv => InOrder
  BY DEF IInv, TurnsInv, InOrder, Orderly, Sequential
<1> QED BY <1>1, InvHolds, PTL

(* Whenever a /stop or /reset cancels an operation, at every await of it, the turn the *)
(* operation has submitted is over, interrupted or about to be when its user was      *)
(* answered (telegram.js: cancelActiveOperation, handleOrdinary).                    *)
THEOREM CancelledTurnsStop == Spec => []StoppedTurnsStop
<1>1. IInv => StoppedTurnsStop
  BY DEF IInv, StopInv, Halted, StoppedTurnsStop
<1> QED BY <1>1, InvHolds, PTL
=============================================================================
