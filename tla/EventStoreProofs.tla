-------------------------- MODULE EventStoreProofs --------------------------
(***************************************************************************)
(* Proofs about EventStore, for rings, files, queues and pages of any size *)
(* and any number of events, failed or torn appends and kills.             *)
(***************************************************************************)
EXTENDS EventStore, FiniteSetTheorems, WellFoundedInduction, TLAPS

(* The ring is in the order of its numbers and ends with the last one; until a *)
(* kill it has no gap.                                                         *)
RingInv ==
  /\ Increasing(records) /\ Len(records) <= Window
  /\ sequence = IF records = <<>> THEN 0 ELSE records[Len(records)]
  /\ crashes = 0 => \A n \in 1..sequence : n >= records[1] => n \in Range(records)

(* What is queued is behind what is durable; the head is durable while compact *)
(* works for it.                                                               *)
QueueInv ==
  /\ Increasing(queue)
  /\ durableSequence <= sequence
  /\ \A n \in Range(queue) : durableSequence <= n /\ n <= sequence
  /\ text = NoText => durableSequence \notin Range(queue)
  /\ text # NoText => queue # <<>> /\ queue[1] = durableSequence

(* The file, and what compact is about to put in its place, stay behind it. *)
FileInv ==
  /\ FileIsOrdered
  /\ \A n \in Range(file) : n <= durableSequence
  /\ text # NoText => Increasing(text) /\ \A n \in Range(text) : 0 < n /\ n <= durableSequence
  /\ acknowledged \subseteq 1..durableSequence

(* Whatever was published and has not fallen out of the ring is in it. *)
Shown == acknowledged \cup Range(queue) \cup Range(file) \cup Range(text)
ShownInv ==
  \A n \in Shown : n > 0 /\ (\E m \in Range(records) : m <= n) => n \in Range(records)

(* While no append was torn, what the ring holds of the acknowledged events is *)
(* in the file, and in the one that replaces it.                               *)
WholeInv ==
  tears = 0 =>
    /\ ~torn /\ 0 \notin Range(file)
    /\ \A n \in Range(records) \cap acknowledged :
         n \in Range(file) /\ (text # NoText => n \in Range(text))

Types ==
  /\ sequence \in Nat /\ records \in Seq(Nat \ {0})
  /\ file \in Seq(Nat) /\ torn \in BOOLEAN
  /\ durableSequence \in Nat /\ fileBytes \in Nat /\ fileEvents \in Nat
  /\ queue \in Seq(Nat \ {0}) /\ text \in Seq(Nat) /\ droppedWrites \in Nat
  /\ cursor \in Nat /\ waiting \in BOOLEAN /\ page \in Seq(Nat \ {0}) /\ served \in Nat
  /\ acknowledged \subseteq Nat
  /\ failures \in Nat /\ tears \in Nat /\ crashes \in Nat

IInv == Types /\ RingInv /\ QueueInv /\ FileInv /\ ShownInv /\ WholeInv /\ NobodyWaitsForNews

-----------------------------------------------------------------------------
(* Numbers and sequences.  The least number of a set is what the proofs by     *)
(* induction below go by.                                                      *)
LEMMA Least ==
  ASSUME NEW T \in SUBSET Nat, T # {}
  PROVE  \E n \in T : \A m \in T : n <= m
<1> DEFINE R == {ss \in Nat \X Nat : ss[1] < ss[2]}
<1>1. IsWellFoundedOn(R, Nat)
  BY NatLessThanWellFounded DEF OpToRel
<1>2. \E x \in T : \A y \in T : ~(<<y, x>> \in R)
  <2> HIDE DEF R
  <2> QED BY <1>1, WFMin, Zenon
<1>3. PICK x \in T : \A y \in T : ~(<<y, x>> \in R)
  BY <1>2, Zenon
<1>4. ASSUME NEW y \in T PROVE x <= y
  <2>1. x \in Nat /\ y \in Nat
    OBVIOUS
  <2>2. y < x => <<y, x>> \in R
    BY <2>1
  <2>3. ~(y < x)
    <3> HIDE DEF R
    <3> QED BY <1>3, <2>2, Zenon
  <2> QED BY <2>1, <2>3
<1> QED BY <1>4

(* A number cuts an increasing sequence in two. *)
LEMMA Cut ==
  ASSUME NEW s \in Seq(Nat), Increasing(s), NEW n \in Nat
  PROVE  /\ Reached(s, n) \in 0..Len(s)
         /\ \A i \in 1..Len(s) : s[i] <= n <=> i <= Reached(s, n)
<1> DEFINE T == {i \in 1..Len(s) : s[i] > n}
<1>1. Len(s) \in Nat /\ DOMAIN s = 1..Len(s) /\ \A i \in 1..Len(s) : s[i] \in Nat
  OBVIOUS
<1>2. ASSUME NEW k \in 0..Len(s), \A i \in 1..Len(s) : s[i] <= n <=> i <= k
      PROVE  Reached(s, n) = k
  <2>1. {i \in DOMAIN s : s[i] <= n} = 1..k
    BY <1>1, <1>2
  <2>2. Cardinality(1..k) = k
    BY FS_Interval
  <2> QED BY <2>1, <2>2 DEF Reached
<1>3. CASE T = {}
  <2>1. \A i \in 1..Len(s) : s[i] <= n <=> i <= Len(s)
    BY <1>1, <1>3
  <2>2. Len(s) \in 0..Len(s)
    BY <1>1
  <2>3. Reached(s, n) = Len(s)
    BY <1>2, <2>1, <2>2
  <2> QED BY <2>1, <2>2, <2>3
<1>4. CASE T # {}
  <2>1. PICK k \in T : \A m \in T : k <= m
    <3>1. T \in SUBSET Nat
      OBVIOUS
    <3> HIDE DEF T
    <3> QED BY <1>4, <3>1, Least
  <2>2. \A i \in 1..Len(s) : s[i] <= n <=> i <= k - 1
    <3> SUFFICES ASSUME NEW i \in 1..Len(s) PROVE s[i] <= n <=> i <= k - 1
      OBVIOUS
    <3>1. k \in 1..Len(s) /\ k \in Nat /\ i \in Nat /\ s[i] \in Nat /\ s[k] \in Nat /\ s[k] > n
      BY <1>1, <2>1
    <3>2. s[i] > n => k <= i
      BY <2>1, <3>1
    <3>3. k < i => s[k] < s[i]
      BY <1>1, <3>1 DEF Increasing
    <3>4. k <= i => s[i] > n
      BY <3>1, <3>3
    <3> QED BY <3>1, <3>2, <3>4
  <2>3. k - 1 \in 0..Len(s)
    BY <1>1, <2>1
  <2>4. Reached(s, n) = k - 1
    BY <1>2, <2>2, <2>3
  <2> QED BY <2>2, <2>3, <2>4
<1> QED BY <1>3, <1>4

(* A finite set of numbers has an order. *)
LEMMA Orderable ==
  ASSUME NEW n \in Nat, NEW S \in SUBSET Nat, IsFiniteSet(S), Cardinality(S) = n
  PROVE  \E s \in [1..n -> S] : Range(s) = S /\ Increasing(s)
<1> DEFINE Has(k, U) == \E s \in [1..k -> U] : Range(s) = U /\ Increasing(s)
           All(k) == \A U \in SUBSET Nat : IsFiniteSet(U) /\ Cardinality(U) = k => Has(k, U)
           Bad == {k \in Nat : ~All(k)}
<1>1. All(0)
  <2> SUFFICES ASSUME NEW U \in SUBSET Nat, IsFiniteSet(U), Cardinality(U) = 0
               PROVE  Has(0, U)
    OBVIOUS
  <2>1. U = {}
    BY FS_EmptySet
  <2>2. <<>> \in [1..0 -> U] /\ Range(<<>>) = U /\ Increasing(<<>>)
    BY <2>1 DEF Range, Increasing
  <2> QED BY <2>2
<1>2. ASSUME NEW k \in Nat, All(k) PROVE All(k + 1)
  <2> SUFFICES ASSUME NEW U \in SUBSET Nat, IsFiniteSet(U), Cardinality(U) = k + 1
               PROVE  Has(k + 1, U)
    OBVIOUS
  <2>1. U # {}
    BY FS_EmptySet
  <2>2. PICK m \in U : \A u \in U : m <= u
    BY <2>1, Least
  <2>3. IsFiniteSet(U \ {m}) /\ Cardinality(U \ {m}) = k
    <3>1. IsFiniteSet(U \ {m}) /\ Cardinality(U \ {m}) = Cardinality(U) - 1
      BY FS_RemoveElement, Zenon
    <3> HIDE DEF All
    <3> QED BY <3>1
  <2>4. PICK r \in [1..k -> U \ {m}] : Range(r) = U \ {m} /\ Increasing(r)
    BY <1>2, <2>3
  <2> DEFINE s == [i \in 1..(k + 1) |-> IF i = 1 THEN m ELSE r[i - 1]]
  <2>5. \A i \in 2..(k + 1) : i - 1 \in 1..k /\ s[i] = r[i - 1] /\ s[i] \in U /\ m < s[i]
    <3> SUFFICES ASSUME NEW i \in 2..(k + 1)
                 PROVE  i - 1 \in 1..k /\ s[i] = r[i - 1] /\ s[i] \in U /\ m < s[i]
      OBVIOUS
    <3>1. i - 1 \in 1..k /\ i \in 1..(k + 1) /\ i # 1
      OBVIOUS
    <3>2. r[i - 1] \in U \ {m}
      BY <2>4, <3>1
    <3>3. s[i] = r[i - 1]
      BY <3>1
    <3>4. m < r[i - 1]
      <4>1. r[i - 1] \in U /\ r[i - 1] # m /\ U \subseteq Nat
        BY <3>2
      <4>2. m <= r[i - 1]
        BY <2>2, <4>1
      <4>3. m \in Nat /\ r[i - 1] \in Nat
        BY <4>1
      <4> HIDE DEF s
      <4> QED BY <4>1, <4>2, <4>3
    <3> HIDE DEF s
    <3> QED BY <3>1, <3>2, <3>3, <3>4
  <2>6. s \in [1..(k + 1) -> U] /\ s[1] = m
    BY <2>5
  <2> HIDE DEF s
  <2>7. Range(s) = U
    <3>1. \A u \in U \ {m} : \E i \in 1..k : r[i] = u
      BY <2>4 DEF Range
    <3>2. \A i \in 1..k : i + 1 \in 1..(k + 1) /\ s[i + 1] = r[i]
      <4> SUFFICES ASSUME NEW i \in 1..k PROVE i + 1 \in 1..(k + 1) /\ s[i + 1] = r[i]
        OBVIOUS
      <4>1. i + 1 \in 2..(k + 1) /\ i + 1 - 1 = i
        OBVIOUS
      <4> QED BY <2>5, <4>1
    <3>3. \A u \in U : \E i \in 1..(k + 1) : s[i] = u
      <4> SUFFICES ASSUME NEW u \in U PROVE \E i \in 1..(k + 1) : s[i] = u
        OBVIOUS
      <4>1. CASE u = m
        BY <2>6, <4>1
      <4>2. CASE u # m
        BY <3>1, <3>2, <4>2
      <4> QED BY <4>1, <4>2
    <3>4. DOMAIN s = 1..(k + 1) /\ \A i \in DOMAIN s : s[i] \in U
      BY <2>6
    <3> QED BY <3>3, <3>4 DEF Range
  <2>8. Increasing(s)
    <3> SUFFICES ASSUME NEW i \in 1..(k + 1), NEW j \in 1..(k + 1), i < j PROVE s[i] < s[j]
      BY <2>6 DEF Increasing
    <3>1. CASE i = 1
      <4>1. j \in 2..(k + 1)
        BY <3>1
      <4> QED BY <2>5, <2>6, <3>1, <4>1
    <3>2. CASE i # 1
      <4>1. i - 1 \in 1..k /\ j - 1 \in 1..k /\ i - 1 < j - 1
        BY <3>2
      <4>2. r[i - 1] < r[j - 1]
        BY <2>4, <4>1 DEF Increasing
      <4>3. i \in 2..(k + 1) /\ j \in 2..(k + 1)
        BY <3>2
      <4> QED BY <2>5, <4>2, <4>3
    <3> QED BY <3>1, <3>2
  <2> QED BY <2>6, <2>7, <2>8
<1>3. Bad = {}
  <2> SUFFICES ASSUME Bad # {} PROVE FALSE
    OBVIOUS
  <2>1. PICK k \in Bad : \A m \in Bad : k <= m
    BY Least
  <2>2. k \in Nat /\ ~All(k)
    OBVIOUS
  <2> HIDE DEF All
  <2>3. k # 0 /\ k - 1 \in Nat /\ k - 1 + 1 = k
    BY <1>1, <2>2
  <2>4. k - 1 \notin Bad
    BY <2>1, <2>3
  <2> QED BY <1>2, <2>2, <2>3, <2>4
<1>4. All(n)
  <2> HIDE DEF All
  <2> QED BY <1>3
<1> QED BY <1>4

LEMMA SortedSet ==
  ASSUME NEW S \in SUBSET Nat, IsFiniteSet(S)
  PROVE  Sorted(S) \in Seq(S) /\ Range(Sorted(S)) = S /\ Increasing(Sorted(S))
<1> DEFINE n == Cardinality(S)
<1>1. n \in Nat
  BY FS_CardinalityType
<1>2. \E s \in [1..n -> S] : Range(s) = S /\ Increasing(s)
  BY <1>1, Orderable
<1>3. Sorted(S) \in [1..n -> S] /\ Range(Sorted(S)) = S /\ Increasing(Sorted(S))
  BY <1>2 DEF Sorted
<1> QED BY <1>1, <1>3

LEMMA LastOf ==
  ASSUME NEW X, NEW s \in Seq(X), NEW n \in Nat
  PROVE  /\ LastN(s, n) \in Seq(X)
         /\ Len(LastN(s, n)) = IF Len(s) > n THEN n ELSE Len(s)
         /\ \A i \in 1..Len(LastN(s, n)) :
              LastN(s, n)[i] = s[Len(s) - Len(LastN(s, n)) + i]
<1>1. CASE Len(s) > n
  BY <1>1 DEF LastN
<1>2. CASE ~(Len(s) > n)
  BY <1>2 DEF LastN
<1> QED BY <1>1, <1>2

LEMMA InRange ==
  ASSUME NEW X, NEW s \in Seq(X), NEW x
  PROVE  x \in Range(s) <=> \E i \in 1..Len(s) : s[i] = x
BY DEF Range

LEMMA LastRange ==
  ASSUME NEW s \in Seq(Nat), Increasing(s), NEW n \in Nat
  PROVE  /\ Increasing(LastN(s, n)) /\ Range(LastN(s, n)) \subseteq Range(s)
         /\ n > 0 /\ s # <<>> =>
              LastN(s, n) # <<>> /\ LastN(s, n)[Len(LastN(s, n))] = s[Len(s)]
         /\ \A x \in Range(s), m \in Range(LastN(s, n)) : m <= x => x \in Range(LastN(s, n))
<1> DEFINE l == LastN(s, n)
           k == Len(s) - Len(l)
<1>1. /\ l \in Seq(Nat) /\ Len(l) \in 0..Len(s) /\ k \in Nat /\ Len(s) = k + Len(l)
      /\ \A i \in 1..Len(l) : i + k \in 1..Len(s) /\ l[i] = s[i + k]
      /\ n > 0 /\ Len(s) > 0 => Len(l) > 0
  BY LastOf
<1> HIDE DEF l, k
<1> DOMAIN l = 1..Len(l)
  BY <1>1
<1>2. Increasing(l)
  <2> SUFFICES ASSUME NEW i \in 1..Len(l), NEW j \in 1..Len(l), i < j PROVE l[i] < l[j]
    BY DEF Increasing
  <2>1. i + k \in DOMAIN s /\ j + k \in DOMAIN s /\ i + k < j + k
    BY <1>1
  <2> QED BY <1>1, <2>1 DEF Increasing
<1>3. Range(l) \subseteq Range(s)
  <2> SUFFICES ASSUME NEW x \in Range(l) PROVE x \in Range(s)
    OBVIOUS
  <2>1. PICK i \in 1..Len(l) : l[i] = x
    BY <1>1, InRange
  <2>2. i + k \in 1..Len(s) /\ s[i + k] = x
    BY <1>1, <2>1
  <2> QED BY <2>2, InRange
<1>4. n > 0 /\ s # <<>> => l # <<>> /\ l[Len(l)] = s[Len(s)]
  BY <1>1
<1>5. ASSUME NEW x \in Range(s), NEW m \in Range(l), m <= x PROVE x \in Range(l)
  <2>1. PICK i \in 1..Len(s) : s[i] = x
    BY InRange
  <2>2. PICK j \in 1..Len(l) : l[j] = m
    BY <1>1, InRange
  <2>3. s[j + k] = m /\ j + k \in 1..Len(s) /\ m \in Nat /\ x \in Nat
    BY <1>1, <2>1, <2>2, SMTT(30)
  <2>4. ~(i < j + k)
    BY <1>5, <2>1, <2>3 DEF Increasing
  <2>5. i - k \in 1..Len(l) /\ (i - k) + k = i
    BY <1>1, <2>2, <2>4
  <2>6. l[i - k] = x
    BY <1>1, <2>1, <2>5
  <2> QED BY <1>1, <2>5, <2>6, InRange
<1> QED BY <1>2, <1>3, <1>4, <1>5 DEF l

LEMMA UpToRange ==
  ASSUME NEW s \in Seq(Nat), Increasing(s), NEW n \in Nat
  PROVE  /\ UpTo(s, n) \in Seq(Nat) /\ Increasing(UpTo(s, n))
         /\ Range(UpTo(s, n)) = {x \in Range(s) : x <= n}
<1> DEFINE k == Reached(s, n)
           u == UpTo(s, n)
<1>1. k \in 0..Len(s) /\ \A i \in 1..Len(s) : s[i] <= n <=> i <= k
  BY Cut
<1>2. u = SubSeq(s, 1, k)
  BY DEF UpTo
<1> HIDE DEF k
<1>3. u \in Seq(Nat) /\ Len(u) = k /\ \A i \in 1..k : u[i] = s[i] /\ i \in 1..Len(s)
  BY <1>1, <1>2
<1> HIDE DEF u
<1>4. Increasing(u)
  <2> SUFFICES ASSUME NEW i \in 1..k, NEW j \in 1..k, i < j PROVE u[i] < u[j]
    BY <1>3 DEF Increasing
  <2>1. i \in DOMAIN s /\ j \in DOMAIN s
    BY <1>3
  <2>2. s[i] < s[j]
    BY <2>1 DEF Increasing
  <2> QED BY <1>3, <2>2
<1>5. ASSUME NEW x \in Range(u) PROVE x \in Range(s) /\ x <= n
  <2>1. PICK i \in 1..k : u[i] = x
    BY <1>3, InRange
  <2>2. i \in 1..Len(s) /\ s[i] = x /\ s[i] <= n
    BY <1>1, <1>3, <2>1
  <2> QED BY <2>2, InRange
<1>6. ASSUME NEW x \in Range(s), x <= n PROVE x \in Range(u)
  <2>1. PICK i \in 1..Len(s) : s[i] = x
    BY InRange
  <2>2. i \in 1..k /\ u[i] = x
    BY <1>1, <1>3, <1>6, <2>1
  <2> QED BY <1>3, <2>2, InRange
<1> QED BY <1>3, <1>4, <1>5, <1>6 DEF u

LEMMA AfterRange ==
  ASSUME NEW s \in Seq(Nat), Increasing(s), NEW n \in Nat
  PROVE  /\ After(s, n) \in Seq(Nat) /\ Increasing(After(s, n))
         /\ Range(After(s, n)) = {x \in Range(s) : x > n}
<1> DEFINE k == Reached(s, n)
           a == After(s, n)
<1>1. k \in 0..Len(s) /\ \A i \in 1..Len(s) : s[i] <= n <=> i <= k
  BY Cut
<1>2. a = SubSeq(s, k + 1, Len(s))
  BY DEF After
<1> HIDE DEF k
<1>3. /\ a \in Seq(Nat) /\ Len(a) = Len(s) - k /\ Len(a) \in Nat
      /\ \A i \in 1..Len(a) : i + k \in 1..Len(s) /\ a[i] = s[i + k]
      /\ \A i \in (k + 1)..Len(s) : i - k \in 1..Len(a) /\ a[i - k] = s[i]
  BY <1>1, <1>2
<1> HIDE DEF a
<1>4. Increasing(a)
  <2> SUFFICES ASSUME NEW i \in 1..Len(a), NEW j \in 1..Len(a), i < j PROVE a[i] < a[j]
    BY <1>3 DEF Increasing
  <2>1. i + k \in DOMAIN s /\ j + k \in DOMAIN s /\ i + k < j + k
    <3>1. i \in Nat /\ j \in Nat /\ k \in Nat /\ DOMAIN s = 1..Len(s)
      BY <1>1, <1>3
    <3>2. i + k \in 1..Len(s) /\ j + k \in 1..Len(s)
      BY <1>3
    <3> QED BY <3>1, <3>2
  <2>2. s[i + k] < s[j + k]
    BY <2>1 DEF Increasing
  <2> QED BY <1>3, <2>2
<1>5. ASSUME NEW x \in Range(a) PROVE x \in Range(s) /\ x > n
  <2>1. PICK i \in 1..Len(a) : a[i] = x
    BY <1>3, InRange
  <2>2. i + k \in 1..Len(s) /\ s[i + k] = x /\ ~(i + k <= k) /\ x \in Nat
    BY <1>1, <1>3, <2>1
  <2> QED BY <1>1, <2>2, InRange
<1>6. ASSUME NEW x \in Range(s), x > n PROVE x \in Range(a)
  <2>1. PICK i \in 1..Len(s) : s[i] = x
    BY InRange
  <2>2. i \in (k + 1)..Len(s)
    BY <1>1, <1>6, <2>1
  <2> QED BY <1>3, <2>1, <2>2, InRange
<1> QED BY <1>3, <1>4, <1>5, <1>6 DEF a

(* A page has all events behind the cursor up to its last one. *)
LEMMA BehindRange ==
  ASSUME NEW s \in Seq(Nat), Increasing(s), NEW c \in Nat, NEW limit \in Nat \ {0}
  PROVE  /\ Behind(c, s, limit) \in Seq(Nat)
         /\ \A x \in Range(Behind(c, s, limit)) : x \in Range(s) /\ x > c
         /\ Behind(c, s, limit) = <<>> => \A x \in Range(s) : x <= c
         /\ Behind(c, s, limit) # <<>> =>
              \A x \in Range(s) : c < x /\ x <= Behind(c, s, limit)[Len(Behind(c, s, limit))]
                                    => x \in Range(Behind(c, s, limit))
<1> DEFINE a == After(s, c)
           p == Behind(c, s, limit)
           k == IF Len(a) < limit THEN Len(a) ELSE limit
<1>1. a \in Seq(Nat) /\ Increasing(a) /\ Range(a) = {x \in Range(s) : x > c}
  BY AfterRange
<1>2. p = SubSeq(a, 1, k)
  BY DEF Behind
<1> HIDE DEF a
<1>3. k \in 0..Len(a) /\ (k = 0 => Len(a) = 0)
  BY <1>1
<1>4. p \in Seq(Nat) /\ Len(p) = k /\ \A i \in 1..k : p[i] = a[i] /\ i \in 1..Len(a)
  BY <1>1, <1>2, <1>3
<1> HIDE DEF p, k
<1>5. \A x \in Range(p) : x \in Range(s) /\ x > c
  <2> SUFFICES ASSUME NEW x \in Range(p) PROVE x \in Range(a)
    BY <1>1
  <2>1. PICK i \in 1..k : p[i] = x
    BY <1>4, InRange
  <2>2. i \in 1..Len(a) /\ a[i] = x
    BY <1>4, <2>1
  <2> QED BY <1>1, <2>2, InRange
<1>6. ASSUME p = <<>>, NEW x \in Range(s) PROVE x <= c
  <2>1. Len(a) = 0
    BY <1>3, <1>4, <1>6
  <2>2. x \notin Range(a)
    <3>1. ~\E i \in 1..Len(a) : a[i] = x
      BY <2>1
    <3> QED BY <1>1, <3>1, InRange
  <2>3. x \in Nat
    BY InRange
  <2> QED BY <1>1, <2>2, <2>3
<1>7. ASSUME p # <<>>, NEW x \in Range(s), c < x, x <= p[Len(p)] PROVE x \in Range(p)
  <2>1. x \in Range(a)
    BY <1>1, <1>7
  <2>2. PICK i \in 1..Len(a) : a[i] = x
    BY <1>1, <2>1, InRange
  <2>3. Len(p) = k /\ k \in 1..Len(a) /\ p[k] = a[k]
    BY <1>3, <1>4, <1>7
  <2>4. ~(k < i)
    <3>1. k \in DOMAIN a /\ i \in DOMAIN a /\ a[k] \in Nat /\ a[i] \in Nat
      BY <1>1, <2>2, <2>3
    <3>2. k < i => a[k] < a[i]
      BY <1>1, <3>1 DEF Increasing
    <3>3. a[i] <= a[k]
      BY <1>7, <2>2, <2>3
    <3> QED BY <3>1, <3>2, <3>3
  <2>5. i \in 1..k /\ p[i] = x
    BY <1>4, <2>2, <2>3, <2>4
  <2> QED BY <1>4, <2>5, InRange
<1> QED BY <1>4, <1>5, <1>6, <1>7 DEF p

(* What increases within a sequence is no longer than it. *)
LEMMA Fits ==
  ASSUME NEW r \in Seq(Nat), NEW s \in Seq(Nat), NEW k \in 1..Len(s),
         \A i, j \in k..Len(s) : i < j => s[i] < s[j],
         \A i \in k..Len(s) : s[i] \in Range(r)
  PROVE  Len(s) - k + 1 <= Len(r)
<1> DEFINE f == [i \in k..Len(s) |-> CHOOSE m \in 1..Len(r) : r[m] = s[i]]
<1>1. \A i \in k..Len(s) : f[i] \in 1..Len(r) /\ r[f[i]] = s[i]
  <2> SUFFICES ASSUME NEW i \in k..Len(s) PROVE f[i] \in 1..Len(r) /\ r[f[i]] = s[i]
    OBVIOUS
  <2>1. \E m \in 1..Len(r) : r[m] = s[i]
    BY InRange
  <2>2. f[i] = CHOOSE m \in 1..Len(r) : r[m] = s[i]
    OBVIOUS
  <2> HIDE DEF f
  <2> QED BY <2>1, <2>2
<1>2. f \in [k..Len(s) -> 1..Len(r)]
  BY <1>1
<1> HIDE DEF f
<1>3. ASSUME NEW i \in k..Len(s), NEW j \in k..Len(s), f[i] = f[j] PROVE i = j
  <2>1. s[i] = s[j]
    BY <1>1, <1>3
  <2>2. s[i] \in Nat /\ s[j] \in Nat
    OBVIOUS
  <2>3. i < j => s[i] < s[j]
    OBVIOUS
  <2>4. j < i => s[j] < s[i]
    OBVIOUS
  <2> QED BY <2>1, <2>2, <2>3, <2>4
<1>4. f \in Injection(k..Len(s), 1..Len(r))
  BY <1>2, <1>3 DEF Injection, IsInjective
<1>5. IsFiniteSet(1..Len(r)) /\ Cardinality(1..Len(r)) = Len(r) /\ Len(r) \in Nat
  <2> DEFINE n == Len(r)
  <2>1. n \in Nat
    OBVIOUS
  <2> HIDE DEF n
  <2>2. IsFiniteSet(1..n) /\ Cardinality(1..n) = IF 1 > n THEN 0 ELSE n - 1 + 1
    BY <2>1, FS_Interval
  <2>3. Cardinality(1..n) = n
    BY <2>1, <2>2
  <2> QED BY <2>1, <2>2, <2>3 DEF n
<1>6. Cardinality(k..Len(s)) = Len(s) - k + 1
  <2>1. k \in Int /\ Len(s) \in Int /\ ~(k > Len(s))
    OBVIOUS
  <2> QED BY <2>1, FS_Interval
<1>7. Cardinality(k..Len(s)) <= Cardinality(1..Len(r))
  BY <1>4, <1>5, FS_Injection
<1> QED BY <1>5, <1>6, <1>7

LEMMA Limits ==
  /\ Window \in Nat \ {0} /\ Window <= MaxBytes
  /\ MaxLimit \in Nat \ {0} /\ MaxBytes \in Nat \ {0}
BY LimitsArePositive DEF Window

-----------------------------------------------------------------------------
(* The ring. *)
Fine(n, r) == n > 0 /\ (\E m \in Range(r) : m <= n) => n \in Range(r)

LEMMA Numbered ==
  ASSUME Types, RingInv, Number, crashes' = crashes
  PROVE  /\ sequence' = sequence + 1 /\ records' \in Seq(Nat \ {0}) /\ RingInv'
         /\ sequence' \in Range(records')
         /\ \A n \in Range(records') : n \in Range(records) \/ n = sequence'
         /\ \A n \in 1..sequence : Fine(n, records) => Fine(n, records')
<1> DEFINE a == Append(records, sequence + 1)
<1>1. /\ a \in Seq(Nat \ {0}) /\ a \in Seq(Nat) /\ a # <<>> /\ a[Len(a)] = sequence + 1
      /\ Len(a) = Len(records) + 1 /\ DOMAIN a = 1..Len(a) /\ sequence \in Nat
      /\ \A i \in 1..Len(records) : a[i] = records[i] /\ records[i] \in Nat
  <2>1. records \in Seq(Nat \ {0}) /\ sequence + 1 \in Nat \ {0} /\ sequence \in Nat
    BY DEF Types
  <2>2. a \in Seq(Nat \ {0}) /\ Len(a) = Len(records) + 1 /\ a[Len(a)] = sequence + 1
    BY <2>1
  <2>3. \A i \in 1..Len(records) : a[i] = records[i] /\ records[i] \in Nat
    BY <2>1
  <2> HIDE DEF a
  <2>4. a \in Seq(Nat)
    BY <2>2
  <2>5. a # <<>> /\ DOMAIN a = 1..Len(a)
    BY <2>1, <2>2
  <2> QED BY <2>1, <2>2, <2>3, <2>4, <2>5
<1>2. records' = LastN(a, Window) /\ sequence' = sequence + 1
  BY DEF Number
<1> HIDE DEF a
<1>3. \A i \in 1..Len(records) : records[i] <= sequence
  <2> SUFFICES ASSUME NEW i \in 1..Len(records) PROVE records[i] <= sequence
    OBVIOUS
  <2>0. records \in Seq(Nat \ {0})
    BY DEF Types
  <2>1. Len(records) \in 1..Len(records) /\ records # <<>> /\ DOMAIN records = 1..Len(records)
    BY <2>0
  <2>2. sequence = records[Len(records)]
    BY <2>1 DEF RingInv
  <2>3. i < Len(records) => records[i] < records[Len(records)]
    BY <2>1 DEF RingInv, Increasing
  <2> QED BY <1>1, <2>1, <2>2, <2>3
<1>4. Increasing(a)
  <2> SUFFICES ASSUME NEW i \in 1..Len(a), NEW j \in 1..Len(a), i < j PROVE a[i] < a[j]
    BY <1>1 DEF Increasing
  <2>1. i \in 1..Len(records)
    BY <1>1
  <2>2. CASE j = Len(a)
    BY <1>1, <1>3, <2>1, <2>2
  <2>3. CASE j # Len(a)
    <3>1. j \in 1..Len(records)
      BY <1>1, <2>3
    <3>2. records[i] < records[j]
      BY <2>1, <3>1 DEF RingInv, Increasing, Types
    <3> QED BY <1>1, <2>1, <3>1, <3>2
  <2> QED BY <2>2, <2>3
<1>5. \A n : n \in Range(a) <=> n \in Range(records) \/ n = sequence + 1
  <2>1. \A n : n \in Range(a) <=> \E i \in 1..Len(a) : a[i] = n
    BY <1>1, InRange
  <2>2. \A n : n \in Range(records) <=> \E i \in 1..Len(records) : records[i] = n
    BY InRange DEF Types
  <2> QED BY <1>1, <2>1, <2>2
<1>6. /\ records' \in Seq(Nat \ {0}) /\ Len(records') <= Window
      /\ Increasing(records') /\ Range(records') \subseteq Range(a)
      /\ records' # <<>> /\ records'[Len(records')] = sequence + 1
      /\ \A x \in Range(a), m \in Range(records') : m <= x => x \in Range(records')
  BY <1>1, <1>2, <1>4, LastOf, LastRange, Limits
<1>7. sequence' \in Range(records')
  BY <1>2, <1>6, InRange
<1>8. \A n \in 1..sequence : Fine(n, records) => Fine(n, records')
  <2> SUFFICES ASSUME NEW n \in 1..sequence, Fine(n, records),
                      NEW m \in Range(records'), m <= n
               PROVE  n \in Range(records')
    BY DEF Fine
  <2>1. m \in Range(records)
    BY <1>1, <1>5, <1>6
  <2> QED BY <1>5, <1>6, <2>1 DEF Fine
<1>9. ASSUME crashes = 0, NEW n \in 1..sequence', n >= records'[1] PROVE n \in Range(records')
  <2>1. records'[1] \in Range(records') /\ records'[1] \in Nat
    BY <1>6, InRange
  <2>2. CASE n = sequence'
    BY <1>7, <2>2
  <2>3. CASE n # sequence'
    <3>1. n \in 1..sequence
      BY <1>1, <1>2, <2>3
    <3>2. records'[1] \in Range(records)
      BY <1>1, <1>5, <1>6, <1>9, <2>1, <3>1
    <3>3. PICK i \in 1..Len(records) : records[i] = records'[1]
      BY <3>2, InRange DEF Types
    <3>4. records[1] <= records[i] /\ records[1] \in Nat
      <4>1. 1 \in DOMAIN records /\ i \in DOMAIN records
        BY <3>3 DEF Types
      <4>2. i = 1 \/ records[1] < records[i]
        BY <4>1 DEF RingInv, Increasing, Types
      <4> QED BY <4>1, <4>2 DEF Types
    <3>5. n >= records[1]
      BY <1>9, <2>1, <3>3, <3>4
    <3>6. n \in Range(records)
      BY <1>9, <3>1, <3>5 DEF RingInv
    <3> QED BY <1>5, <1>6, <1>9, <2>1, <3>6
  <2> QED BY <2>2, <2>3
<1>10. RingInv'
  BY <1>2, <1>6, <1>9 DEF RingInv
<1> QED BY <1>2, <1>5, <1>6, <1>7, <1>8, <1>10

-----------------------------------------------------------------------------
(* The client. *)
ClientTypes ==
  /\ cursor \in Nat /\ waiting \in BOOLEAN /\ page \in Seq(Nat \ {0}) /\ served \in Nat

LEMMA Answered ==
  ASSUME ClientTypes, NEW s \in Seq(Nat \ {0}), Increasing(s), NEW last \in Nat,
         NEW limit \in Nat \ {0}, Answer(s, last, limit)
  PROVE  ClientTypes' /\ ~waiting'
<1> DEFINE e == Behind(cursor, s, limit)
<1>1. s \in Seq(Nat)
  OBVIOUS
<1>2. e \in Seq(Nat) /\ \A x \in Range(e) : x > cursor
  BY <1>1, BehindRange DEF ClientTypes
<1> HIDE DEF e
<1>3. \A i \in 1..Len(e) : e[i] \in Nat \ {0}
  <2> SUFFICES ASSUME NEW i \in 1..Len(e) PROVE e[i] \in Nat \ {0}
    OBVIOUS
  <2>1. e[i] \in Range(e) /\ e[i] \in Nat /\ cursor \in Nat
    BY <1>2, InRange DEF ClientTypes
  <2> QED BY <1>2, <2>1
<1>4. e \in Seq(Nat \ {0}) /\ (e # <<>> => e[Len(e)] \in Nat)
  BY <1>2, <1>3
<1>5. Earliest(s, last) - 1 \in Nat
  BY DEF Earliest
<1>6. page' \in Seq(Nat \ {0})
  BY <1>4 DEF Answer, e
<1>7. cursor' \in Nat
  BY <1>4, <1>5 DEF Answer, e, ClientTypes
<1>8. served' \in Nat
  BY <1>4 DEF Answer, e, ClientTypes, Larger
<1>9. ~waiting' /\ waiting' \in BOOLEAN
  BY DEF Answer
<1> QED BY <1>6, <1>7, <1>8, <1>9 DEF ClientTypes

LEMMA Emitted ==
  ASSUME ClientTypes, records' \in Seq(Nat \ {0}), Increasing(records)', sequence' \in Nat, EmitEvent
  PROVE  ClientTypes' /\ ~waiting'
<1>1. CASE waiting
  BY <1>1, Answered, Limits DEF EmitEvent, Increasing
<1>2. CASE ~waiting
  BY <1>2 DEF EmitEvent, client, ClientTypes
<1> QED BY <1>1, <1>2

(* What a page of the ring leaves out was never in it. *)
LEMMA PageIsWhole ==
  ASSUME ClientTypes, NEW s \in Seq(Nat \ {0}), Increasing(s), NEW last \in Nat,
         NEW limit \in Nat \ {0}, Answer(s, last, limit), cursor > 0, page' # <<>>,
         NEW n \in Missed(cursor, page')
  PROVE  n \notin Range(s) /\ n > 0 /\ (\E m \in Range(s) : m <= n) /\ n >= s[1]
         /\ page'[Len(page')] \in Range(s)
<1> DEFINE e == Behind(cursor, s, limit)
<1>1. s \in Seq(Nat)
  OBVIOUS
<1>2. /\ e \in Seq(Nat) /\ \A x \in Range(e) : x \in Range(s) /\ x > cursor
      /\ e # <<>> => \A x \in Range(s) : cursor < x /\ x <= e[Len(e)] => x \in Range(e)
  BY <1>1, BehindRange DEF ClientTypes
<1>3. page' = e /\ ~Expired(cursor, s, last)
  BY DEF Answer
<1> HIDE DEF e
<1>4. e # <<>> /\ Len(e) \in 1..Len(e) /\ e[Len(e)] \in Range(e)
  BY <1>2, <1>3, InRange
<1>5. n \in (cursor + 1)..e[Len(e)] /\ n \notin Range(e)
  BY <1>3, <1>4 DEF Missed
<1>6. e[Len(e)] \in Nat /\ cursor \in Nat
  BY <1>2, <1>4 DEF ClientTypes
<1>7. n \in Nat /\ cursor < n /\ n <= e[Len(e)]
  BY <1>5, <1>6
<1>8. n \notin Range(s)
  BY <1>2, <1>4, <1>5, <1>7
<1>9. s # <<>> /\ s[1] \in Range(s) /\ s[1] \in Nat
  BY <1>1, <1>2, <1>4, InRange
<1>10. cursor + 1 >= s[1]
  BY <1>3, <1>6, <1>9 DEF Expired, Earliest
<1>11. n >= s[1] /\ n > 0
  BY <1>6, <1>7, <1>9, <1>10
<1> QED BY <1>2, <1>3, <1>4, <1>8, <1>9, <1>11

-----------------------------------------------------------------------------
(* The end of a write. *)
QueueTypes == queue \in Seq(Nat \ {0}) /\ droppedWrites \in Nat

(* What both a publication and the end of a write leave behind. *)
RingStep ==
  /\ sequence' \in Nat /\ sequence' >= sequence /\ records' \in Seq(Nat \ {0}) /\ RingInv'
  /\ \A n \in Range(records') : n \in Range(records) \/ n > sequence
  /\ \A n \in 1..sequence : Fine(n, records) => Fine(n, records')
  /\ ClientTypes' /\ NobodyWaitsForNews'

LEMMA RingStays ==
  ASSUME IInv, UNCHANGED <<ring, client, crashes>>
  PROVE  RingStep
BY DEF IInv, Types, RingInv, ring, client, RingStep, ClientTypes, NobodyWaitsForNews, Fine,
   Increasing

LEMMA RingGrows ==
  ASSUME IInv, Number, crashes' = crashes, EmitEvent
  PROVE  RingStep /\ sequence' = sequence + 1 /\ sequence' \in Range(records')
<1>1. /\ sequence' = sequence + 1 /\ records' \in Seq(Nat \ {0}) /\ RingInv'
      /\ sequence' \in Range(records')
      /\ \A n \in Range(records') : n \in Range(records) \/ n = sequence'
      /\ \A n \in 1..sequence : Fine(n, records) => Fine(n, records')
  BY Numbered DEF IInv
<1>2. sequence \in Nat /\ ClientTypes
  BY DEF IInv, Types, ClientTypes
<1>3. ClientTypes' /\ ~waiting'
  BY <1>1, <1>2, Emitted DEF RingInv, Increasing
<1> QED BY <1>1, <1>2, <1>3 DEF RingStep, NobodyWaitsForNews

LEMMA Finished ==
  ASSUME IInv, Finish, crashes' = crashes, queue # <<>>
  PROVE  /\ RingStep /\ QueueTypes'
         /\ Increasing(queue')
         /\ \A n \in Range(queue') : n > queue[1] /\ n <= sequence' /\ Fine(n, records')
<1>1. /\ queue \in Seq(Nat \ {0}) /\ Len(queue) \in Nat \ {0} /\ DOMAIN queue = 1..Len(queue)
      /\ droppedWrites \in Nat /\ sequence \in Nat /\ queue[1] \in Nat /\ Increasing(queue)
      /\ \A n \in Range(queue) : n <= sequence
  BY DEF IInv, Types, QueueInv
<1>2. queue[1] \in Range(queue)
  BY <1>1, InRange
<1>3. CASE Len(queue) = 1 /\ droppedWrites > 0
  <2>1. Number /\ EmitEvent /\ queue' = <<sequence + 1>> /\ droppedWrites' = 0
    BY <1>3 DEF Finish
  <2>2. RingStep /\ sequence' = sequence + 1 /\ sequence' \in Range(records')
    BY <2>1, RingGrows
  <2>3. queue' \in Seq(Nat \ {0}) /\ Increasing(queue') /\ \A n \in Range(queue') : n = sequence + 1
    BY <1>1, <2>1 DEF Increasing, Range
  <2> QED BY <1>1, <1>2, <2>1, <2>2, <2>3 DEF QueueTypes, Fine
<1>4. CASE ~(Len(queue) = 1 /\ droppedWrites > 0)
  <2>1. queue' = Tail(queue) /\ UNCHANGED <<ring, client, droppedWrites>>
    BY <1>4 DEF Finish
  <2>2. /\ queue' \in Seq(Nat \ {0}) /\ Len(queue') = Len(queue) - 1
        /\ \A i \in 1..Len(queue') : queue'[i] = queue[i + 1] /\ i + 1 \in 1..Len(queue)
    BY <1>1, <2>1
  <2>3. RingStep
    BY <2>1, RingStays
  <2>4. Increasing(queue')
    <3> SUFFICES ASSUME NEW i \in 1..Len(queue'), NEW j \in 1..Len(queue'), i < j
                 PROVE  queue'[i] < queue'[j]
      BY <2>2 DEF Increasing
    <3>1. i + 1 \in DOMAIN queue /\ j + 1 \in DOMAIN queue /\ i + 1 < j + 1
      BY <1>1, <2>2
    <3>2. queue[i + 1] < queue[j + 1]
      BY <1>1, <3>1 DEF Increasing
    <3> QED BY <2>2, <3>2
  <2>5. ASSUME NEW n \in Range(queue')
        PROVE  n > queue[1] /\ n <= sequence' /\ Fine(n, records')
    <3>1. PICK i \in 1..Len(queue') : queue'[i] = n
      BY <2>2, InRange
    <3>2. i + 1 \in 1..Len(queue) /\ queue[i + 1] = n /\ 1 \in DOMAIN queue /\ 1 < i + 1
      BY <1>1, <2>2, <3>1
    <3>3. n \in Range(queue) /\ n \in Nat \ {0}
      BY <1>1, <3>2, InRange
    <3>4. queue[1] < queue[i + 1]
      BY <1>1, <3>2 DEF Increasing
    <3>5. Fine(n, records) /\ n \in 1..sequence
      BY <1>1, <3>3 DEF IInv, ShownInv, Shown, Fine
    <3> QED BY <1>1, <2>1, <2>3, <3>2, <3>3, <3>4, <3>5 DEF RingStep, ring
  <2> QED BY <1>1, <2>1, <2>2, <2>3, <2>4, <2>5 DEF QueueTypes
<1> QED BY <1>3, <1>4

-----------------------------------------------------------------------------
(* The steps.  A line that is added is behind the ones that are there. *)
LEMMA LineAdded ==
  ASSUME NEW f \in Seq(Nat), NEW n \in Nat,
         \A i, j \in DOMAIN f : i < j /\ f[i] > 0 /\ f[j] > 0 => f[i] < f[j],
         n > 0 => \A m \in Range(f) : m < n
  PROVE  /\ Append(f, n) \in Seq(Nat)
         /\ \A i, j \in DOMAIN Append(f, n) :
              i < j /\ Append(f, n)[i] > 0 /\ Append(f, n)[j] > 0 => Append(f, n)[i] < Append(f, n)[j]
         /\ \A m : m \in Range(Append(f, n)) <=> m \in Range(f) \/ m = n
<1> DEFINE a == Append(f, n)
<1>1. /\ a \in Seq(Nat) /\ Len(a) = Len(f) + 1 /\ a[Len(a)] = n /\ Len(f) \in Nat
      /\ \A i \in 1..Len(f) : a[i] = f[i] /\ f[i] \in Nat
      /\ DOMAIN a = 1..Len(a) /\ DOMAIN f = 1..Len(f)
  OBVIOUS
<1> HIDE DEF a
<1>2. ASSUME NEW i \in 1..Len(a), NEW j \in 1..Len(a), i < j, a[i] > 0, a[j] > 0
      PROVE  a[i] < a[j]
  <2>1. i \in 1..Len(f)
    BY <1>1, <1>2
  <2>2. CASE j = Len(a)
    <3>1. a[i] \in Range(f) /\ a[j] = n
      BY <1>1, <2>1, <2>2, InRange
    <3> QED BY <1>2, <3>1
  <2>3. CASE j # Len(a)
    <3>1. j \in 1..Len(f)
      BY <1>1, <2>3
    <3> QED BY <1>1, <1>2, <2>1, <3>1
  <2> QED BY <2>2, <2>3
<1>3. \A m : m \in Range(a) <=> m \in Range(f) \/ m = n
  <2>1. \A m : m \in Range(a) <=> \E i \in 1..Len(a) : a[i] = m
    BY <1>1, InRange
  <2>2. \A m : m \in Range(f) <=> \E i \in 1..Len(f) : f[i] = m
    BY InRange
  <2> QED BY <1>1, <2>1, <2>2
<1> QED BY <1>1, <1>2, <1>3 DEF a

LEMMA ShownBound ==
  ASSUME IInv
  PROVE  \A n \in Shown : n \in Nat /\ n <= sequence
<1>1. \A n \in Range(text) : n <= durableSequence
  <2>1. CASE text = NoText
    BY <2>1 DEF NoText, Range, IInv, Types
  <2> QED BY <2>1 DEF IInv, FileInv
<1>2. /\ Range(queue) \subseteq Nat /\ Range(file) \subseteq Nat /\ Range(text) \subseteq Nat
      /\ acknowledged \subseteq Nat /\ durableSequence \in Nat /\ sequence \in Nat
  <2>1. /\ queue \in Seq(Nat) /\ file \in Seq(Nat) /\ text \in Seq(Nat)
        /\ acknowledged \subseteq Nat /\ durableSequence \in Nat /\ sequence \in Nat
    BY DEF IInv, Types
  <2> QED BY <2>1 DEF Range
<1> QED BY <1>1, <1>2 DEF IInv, QueueInv, FileInv, Shown

LEMMA ShownStep ==
  ASSUME IInv, RingStep, \A n \in Shown' : n \in Shown \/ Fine(n, records')
  PROVE  ShownInv'
<1> SUFFICES ASSUME NEW n \in Shown', n > 0, \E m \in Range(records') : m <= n
             PROVE  n \in Range(records')
  BY DEF ShownInv
<1>1. CASE Fine(n, records')
  BY <1>1 DEF Fine
<1>2. CASE n \in Shown
  <2>1. n \in 1..sequence /\ Fine(n, records)
    BY <1>2, ShownBound DEF IInv, Types, ShownInv, Fine
  <2> QED BY <2>1 DEF RingStep, Fine
<1> QED BY <1>1, <1>2

LEMMA PublishInv ==
  ASSUME IInv, Publish
  PROVE  IInv'
<1>1. /\ queue \in Seq(Nat \ {0}) /\ Len(queue) \in Nat /\ DOMAIN queue = 1..Len(queue)
      /\ droppedWrites \in Nat /\ sequence \in Nat
  BY DEF IInv, Types
<1>2. RingStep /\ sequence' = sequence + 1 /\ sequence' \in Range(records')
  BY RingGrows DEF Publish, Shed, faults
<1>3. UNCHANGED <<file, torn, durableSequence, fileBytes, fileEvents, text, acknowledged, faults>>
  BY DEF Publish, disk, writes
<1>4. \/ queue' = queue /\ droppedWrites' = droppedWrites + 1
      \/ queue' = Append(queue, sequence + 1) /\ droppedWrites' = droppedWrites
  BY DEF Publish, Shed
<1>5. \A m \in Range(queue') : m \in Range(queue) \/ m = sequence + 1
  <2>1. CASE queue' = queue
    BY <2>1
  <2>2. CASE queue' = Append(queue, sequence + 1)
    <3>1. queue' \in Seq(Nat \ {0}) /\ Len(queue') = Len(queue) + 1
          /\ \A i \in 1..Len(queue') : queue'[i] = IF i = Len(queue) + 1 THEN sequence + 1 ELSE queue[i]
      BY <1>1, <2>2
    <3> QED BY <1>1, <3>1, InRange
  <2> QED BY <1>4, <2>1, <2>2
<1>6. /\ queue' \in Seq(Nat \ {0}) /\ Increasing(queue')
      /\ queue # <<>> => queue' # <<>> /\ queue'[1] = queue[1]
  <2>1. CASE queue' = queue
    BY <1>1, <2>1 DEF IInv, QueueInv
  <2>2. CASE queue' = Append(queue, sequence + 1)
    <3>1. queue' \in Seq(Nat \ {0}) /\ Len(queue') = Len(queue) + 1
          /\ \A i \in 1..Len(queue') : queue'[i] = IF i = Len(queue) + 1 THEN sequence + 1 ELSE queue[i]
      BY <1>1, <2>2
    <3>2. \A i \in 1..Len(queue) : queue[i] <= sequence /\ queue[i] \in Nat
      BY <1>1, InRange DEF IInv, QueueInv
    <3>3. ASSUME NEW i \in 1..Len(queue'), NEW j \in 1..Len(queue'), i < j
          PROVE  queue'[i] < queue'[j]
      <4>1. i \in 1..Len(queue) /\ queue'[i] = queue[i]
        BY <1>1, <3>1, <3>3
      <4>2. CASE j = Len(queue) + 1
        BY <1>1, <3>1, <3>2, <4>1, <4>2
      <4>3. CASE j # Len(queue) + 1
        <5>1. j \in 1..Len(queue) /\ queue'[j] = queue[j]
          BY <1>1, <3>1, <4>3
        <5> QED BY <1>1, <3>3, <4>1, <5>1 DEF IInv, QueueInv, Increasing
      <4> QED BY <4>2, <4>3
    <3>4. Increasing(queue')
      BY <3>1, <3>3 DEF Increasing
    <3> QED BY <1>1, <3>1, <3>4
  <2> QED BY <1>4, <2>1, <2>2
<1>7. Types'
  <2>1. /\ file' \in Seq(Nat) /\ torn' \in BOOLEAN /\ text' \in Seq(Nat)
        /\ durableSequence' \in Nat /\ fileBytes' \in Nat /\ fileEvents' \in Nat
        /\ acknowledged' \subseteq Nat /\ failures' \in Nat /\ tears' \in Nat /\ crashes' \in Nat
    BY <1>3 DEF IInv, Types, faults
  <2>2. droppedWrites' \in Nat
    BY <1>1, <1>4
  <2>3. sequence' \in Nat /\ records' \in Seq(Nat \ {0}) /\ ClientTypes'
    BY <1>2 DEF RingStep
  <2> QED BY <1>6, <2>1, <2>2, <2>3 DEF Types, ClientTypes
<1>8. QueueInv'
  <2>1. durableSequence' <= sequence' /\ durableSequence < sequence + 1
    BY <1>1, <1>2, <1>3 DEF IInv, Types, QueueInv
  <2>2. \A m \in Range(queue') : durableSequence' <= m /\ m <= sequence'
    BY <1>1, <1>2, <1>3, <1>5, <2>1, InRange DEF IInv, Types, QueueInv
  <2> QED BY <1>1, <1>3, <1>5, <1>6, <2>1, <2>2 DEF IInv, Types, QueueInv, Increasing
<1>9. FileInv'
  BY <1>3 DEF IInv, FileInv, FileIsOrdered, Increasing
<1>10. ShownInv'
  <2>1. \A n \in Shown' : n \in Shown \/ n = sequence'
    BY <1>2, <1>3, <1>5 DEF Shown
  <2> QED BY <1>2, <2>1, ShownStep DEF Fine
<1>11. WholeInv'
  <2>1. \A n \in acknowledged : n <= sequence /\ n \in Nat
    BY ShownBound DEF Shown
  <2> QED BY <1>1, <1>2, <1>3, <2>1 DEF IInv, WholeInv, RingStep, faults
<1> QED BY <1>2, <1>7, <1>8, <1>9, <1>10, <1>11 DEF IInv, RingStep

LEMMA WriteEnds ==
  ASSUME IInv, Finish, crashes' = crashes, queue # <<>>, text' = NoText,
         {fileBytes', fileEvents', failures', tears'} \subseteq Nat, torn' \in BOOLEAN,
         file' \in Seq(Nat), FileIsOrdered',
         durableSequence' \in {durableSequence, queue[1]},
         \A n \in Range(file') : n = 0 \/ (n \in Shown /\ n <= durableSequence'),
         acknowledged' \subseteq Shown \cap 1..durableSequence',
         tears' = 0 =>
           /\ ~torn' /\ 0 \notin Range(file')
           /\ \A n \in Range(records) \cap acknowledged' : n \in Range(file')
  PROVE  IInv'
<1>1. /\ queue[1] \in Nat /\ durableSequence \in Nat /\ durableSequence <= queue[1]
      /\ queue[1] <= sequence /\ sequence \in Nat
  <2>1. queue \in Seq(Nat \ {0}) /\ 1 \in 1..Len(queue)
    BY DEF IInv, Types
  <2>2. queue[1] \in Range(queue)
    BY <2>1, InRange
  <2> QED BY <2>1, <2>2 DEF IInv, Types, QueueInv
<1>2. /\ RingStep /\ QueueTypes' /\ Increasing(queue)'
      /\ \A n \in Range(queue') : n > queue[1] /\ n <= sequence' /\ Fine(n, records')
  BY Finished DEF Increasing
<1>3. durableSequence' \in Nat /\ durableSequence' <= queue[1]
  BY <1>1
<1>4. \A n \in Range(queue') : n \in Nat
  BY <1>2, InRange DEF QueueTypes
<1>5. text' \in Seq(Nat) /\ \A n \in Range(text') : n = 0
  BY DEF NoText, Range
<1>6. Types'
  <2>1. /\ sequence' \in Nat /\ records' \in Seq(Nat \ {0}) /\ queue' \in Seq(Nat \ {0})
        /\ droppedWrites' \in Nat /\ ClientTypes'
    BY <1>2 DEF RingStep, QueueTypes
  <2>2. acknowledged' \subseteq Nat /\ crashes' \in Nat
    BY DEF IInv, Types
  <2>3. fileBytes' \in Nat /\ fileEvents' \in Nat /\ failures' \in Nat /\ tears' \in Nat
    OBVIOUS
  <2> QED BY <1>3, <1>5, <2>1, <2>2, <2>3 DEF Types, ClientTypes
<1>7. QueueInv'
  BY <1>1, <1>2, <1>3, <1>4 DEF QueueInv, RingStep
<1>8. FileInv'
  BY <1>3 DEF FileInv
<1>9. ShownInv'
  <2>1. \A n \in Shown' : n \in Shown \/ n \in Range(queue') \/ n = 0
    BY <1>5 DEF Shown
  <2>2. \A n \in Shown' : n \in Shown \/ Fine(n, records')
    BY <1>2, <2>1 DEF Fine
  <2> QED BY <1>2, <2>2, ShownStep
<1>10. WholeInv'
  <2>1. \A n \in acknowledged' : n \in Nat /\ n <= sequence
    BY ShownBound
  <2>2. \A n \in Range(records') \cap acknowledged' : n \in Range(records)
    BY <1>1, <1>2, <2>1 DEF RingStep
  <2> QED BY <2>2 DEF WholeInv
<1> QED BY <1>2, <1>6, <1>7, <1>8, <1>9, <1>10 DEF IInv, RingStep

(* What is known of the head of the queue before its line is written. *)
LEMMA HeadOfQueue ==
  ASSUME IInv, queue # <<>>
  PROVE  /\ Head(queue) = queue[1] /\ queue[1] \in Nat \ {0} /\ queue[1] \in Range(queue)
         /\ queue[1] \in Shown /\ queue[1] <= sequence /\ durableSequence <= queue[1]
         /\ text = NoText => durableSequence < queue[1]
<1>1. queue \in Seq(Nat \ {0}) /\ 1 \in 1..Len(queue) /\ durableSequence \in Nat
  BY DEF IInv, Types
<1>2. queue[1] \in Range(queue) /\ queue[1] \in Nat \ {0} /\ Head(queue) = queue[1]
  BY <1>1, InRange
<1> QED BY <1>1, <1>2 DEF IInv, QueueInv, Shown

LEMMA FileShown ==
  ASSUME IInv
  PROVE  /\ \A n \in Range(file) : n \in Nat /\ n \in Shown /\ n <= durableSequence
         /\ acknowledged \subseteq Shown
<1>1. file \in Seq(Nat)
  BY DEF IInv, Types
<1>2. \A n \in Range(file) : n \in Nat
  BY <1>1 DEF Range
<1> QED BY <1>2 DEF IInv, FileInv, Shown

LEMMA AppendFailsInv ==
  ASSUME IInv, AppendFails
  PROVE  IInv'
<1>1. /\ UNCHANGED <<file, torn, durableSequence, fileBytes, fileEvents, text, acknowledged, tears>>
      /\ crashes' = crashes /\ queue # <<>> /\ Finish /\ text = NoText /\ failures' = failures + 1
  BY DEF AppendFails, disk, writes
<1>2. FileIsOrdered'
  BY <1>1 DEF IInv, FileInv, FileIsOrdered
<1>3. \A n \in Range(file') : n = 0 \/ (n \in Shown /\ n <= durableSequence')
  BY <1>1, FileShown
<1>4. acknowledged' \subseteq Shown \cap 1..durableSequence'
  BY <1>1, FileShown DEF IInv, FileInv
<1>5. {fileBytes', fileEvents', failures', tears'} \subseteq Nat /\ torn' \in BOOLEAN /\ file' \in Seq(Nat)
  BY <1>1 DEF IInv, Types
<1>6. tears' = 0 =>
        /\ ~torn' /\ 0 \notin Range(file')
        /\ \A n \in Range(records) \cap acknowledged' : n \in Range(file')
  BY <1>1 DEF IInv, WholeInv
<1> QED BY <1>1, <1>2, <1>3, <1>4, <1>5, <1>6, WriteEnds

LEMMA AppendTearsInv ==
  ASSUME IInv, AppendTears
  PROVE  IInv'
<1>1. /\ UNCHANGED <<durableSequence, fileBytes, fileEvents, text, acknowledged, failures>>
      /\ crashes' = crashes /\ queue # <<>> /\ Finish /\ text = NoText /\ tears' = tears + 1
      /\ file' = IF torn THEN file ELSE Append(file, 0)
      /\ torn' = TRUE
  BY DEF AppendTears, writes
<1>2. /\ file' \in Seq(Nat) /\ FileIsOrdered'
      /\ \A n \in Range(file') : n \in Range(file) \/ n = 0
  <2>1. file \in Seq(Nat) /\ FileIsOrdered
    BY DEF IInv, Types, FileInv
  <2>2. CASE torn
    BY <1>1, <2>1, <2>2 DEF FileIsOrdered
  <2>3. CASE ~torn
    <3>1. file' = Append(file, 0)
      BY <1>1, <2>3
    <3> QED BY <2>1, <3>1, LineAdded DEF FileIsOrdered
  <2> QED BY <2>2, <2>3
<1>3. \A n \in Range(file') : n = 0 \/ (n \in Shown /\ n <= durableSequence')
  BY <1>1, <1>2, FileShown
<1>4. acknowledged' \subseteq Shown \cap 1..durableSequence'
  BY <1>1, FileShown DEF IInv, FileInv
<1>5. {fileBytes', fileEvents', failures', tears'} \subseteq Nat /\ torn' \in BOOLEAN /\ tears' # 0
  BY <1>1 DEF IInv, Types
<1> QED BY <1>1, <1>2, <1>3, <1>4, <1>5, WriteEnds

LEMMA AppendLineInv ==
  ASSUME IInv, AppendLine
  PROVE  IInv'
<1> DEFINE n == queue[1]
<1>1. /\ queue # <<>> /\ text = NoText /\ n = Head(queue) /\ UNCHANGED faults
      /\ file' = IF torn THEN file ELSE Append(file, n)
      /\ torn' = FALSE /\ durableSequence' = n /\ acknowledged' = acknowledged \cup {n}
      /\ fileBytes' = fileBytes + 1 /\ fileEvents' = fileEvents + 1
  BY HeadOfQueue DEF AppendLine
<1>2. /\ n \in Nat \ {0} /\ n \in Range(queue) /\ n \in Shown /\ n <= sequence
      /\ durableSequence < n /\ durableSequence \in Nat /\ sequence \in Nat
  BY <1>1, HeadOfQueue DEF IInv, Types
<1> HIDE DEF n
<1>3. /\ file' \in Seq(Nat) /\ FileIsOrdered'
      /\ \A m \in Range(file') : m \in Range(file) \/ m = n
      /\ ~torn => \A m : m \in Range(file') <=> m \in Range(file) \/ m = n
  <2>1. /\ file \in Seq(Nat) /\ FileIsOrdered
        /\ \A m \in Range(file) : m < n
    BY <1>2, FileShown DEF IInv, Types, FileInv
  <2>2. CASE torn
    BY <1>1, <2>1, <2>2 DEF FileIsOrdered
  <2>3. CASE ~torn
    <3>1. file' = Append(file, n)
      BY <1>1, <2>3
    <3> QED BY <1>2, <2>1, <3>1, LineAdded DEF FileIsOrdered
  <2> QED BY <2>2, <2>3
<1>4. \A m \in Range(file') : m \in Nat /\ m \in Shown /\ m <= durableSequence'
  BY <1>1, <1>2, <1>3, FileShown
<1>5. acknowledged' \subseteq Shown \cap 1..durableSequence'
  <2> SUFFICES ASSUME NEW m \in acknowledged' PROVE m \in Shown /\ m \in 1..n
    BY <1>1
  <2>1. CASE m = n
    BY <1>2, <2>1
  <2>2. CASE m # n
    <3>1. m \in acknowledged /\ m \in 1..durableSequence /\ m \in Shown
      BY <1>1, <2>2, FileShown DEF IInv, FileInv
    <3> QED BY <1>2, <3>1
  <2> QED BY <2>1, <2>2
<1>6. {fileBytes', fileEvents', failures', tears'} \subseteq Nat /\ torn' \in BOOLEAN
  <2>1. fileBytes \in Nat /\ fileEvents \in Nat /\ failures \in Nat /\ tears \in Nat
    BY DEF IInv, Types
  <2>2. failures' = failures /\ tears' = tears
    BY <1>1 DEF faults
  <2>3. fileBytes' \in Nat /\ fileEvents' \in Nat /\ failures' \in Nat /\ tears' \in Nat
    BY <1>1, <2>1, <2>2
  <2>4. torn' \in BOOLEAN
    BY <1>1
  <2> QED BY <2>3, <2>4
<1>7. tears' = 0 =>
        /\ ~torn' /\ 0 \notin Range(file')
        /\ \A m \in Range(records) \cap acknowledged' : m \in Range(file')
  BY <1>1, <1>2, <1>3 DEF IInv, WholeInv, faults
<1>8. CASE Finish /\ text' = text
  <2>1. crashes' = crashes /\ durableSequence' \in {durableSequence, queue[1]}
    BY <1>1 DEF faults, n
  <2> QED BY <1>1, <1>3, <1>4, <1>5, <1>6, <1>7, <1>8, <2>1, WriteEnds
<1>9. CASE text' = DurableRecords(n) /\ UNCHANGED <<queue, ring, client, droppedWrites>>
  <2>1. /\ text' \in Seq(Nat) /\ Increasing(text')
        /\ Range(text') = {m \in Range(records) : m <= n}
    <3>1. records \in Seq(Nat) /\ Increasing(records) /\ n \in Nat
      BY <1>2 DEF IInv, Types, RingInv
    <3> QED BY <1>9, <3>1, UpToRange DEF DurableRecords
  <2>2. \A m \in Range(records) : m \in Nat \ {0}
    <3>1. records \in Seq(Nat \ {0})
      BY DEF IInv, Types
    <3> QED BY <3>1, InRange
  <2>3. text' # NoText
    BY <2>1, <2>2 DEF NoText, Range
  <2>4. RingStep
    BY <1>1, <1>9, RingStays DEF faults
  <2>5. Types'
    BY <1>1, <1>2, <1>3, <1>6, <1>9, <2>1 DEF IInv, Types, ring, client, faults
  <2>6. QueueInv'
    <3>1. \A m \in Range(queue) : n <= m /\ m <= sequence
      <4> SUFFICES ASSUME NEW m \in Range(queue) PROVE n <= m
        BY DEF IInv, QueueInv
      <4>1. queue \in Seq(Nat \ {0}) /\ DOMAIN queue = 1..Len(queue)
        BY DEF IInv, Types
      <4>2. PICK i \in 1..Len(queue) : queue[i] = m
        BY <4>1, InRange
      <4>3. i = 1 \/ queue[1] < queue[i]
        BY <4>1, <4>2 DEF IInv, QueueInv, Increasing
      <4> QED BY <1>2, <4>1, <4>2, <4>3 DEF n
    <3>2. n = queue[1]
      BY DEF n
    <3>3. queue' = queue /\ sequence' = sequence
      BY <1>9 DEF ring
    <3> QED BY <1>1, <1>2, <2>3, <3>1, <3>2, <3>3 DEF IInv, QueueInv, Increasing
  <2>7. FileInv'
    BY <1>1, <1>2, <1>3, <1>4, <1>5, <2>1, <2>2 DEF FileInv, Increasing
  <2>8. ShownInv'
    <3>1. \A m \in Shown' : m \in Shown \/ m \in Range(records)
      BY <1>4, <1>5, <1>9, <2>1 DEF Shown
    <3>2. records' = records
      BY <1>9 DEF ring
    <3>3. \A m \in Shown' : m \in Shown \/ Fine(m, records')
      BY <3>1, <3>2 DEF Fine
    <3> QED BY <2>4, <3>3, ShownStep
  <2>9. WholeInv'
    <3>1. \A m \in Range(records) \cap acknowledged' : m \in Range(text')
      BY <1>1, <1>5, <2>1
    <3> QED BY <1>7, <1>9, <3>1 DEF WholeInv, ring
  <2> QED BY <2>4, <2>5, <2>6, <2>7, <2>8, <2>9 DEF IInv, RingStep
<1> QED BY <1>1, <1>8, <1>9 DEF AppendLine

LEMMA ReplaceInv ==
  ASSUME IInv, Replace
  PROVE  IInv'
<1>1. /\ text # NoText /\ file' = text /\ torn' = FALSE /\ text' = NoText /\ Finish
      /\ fileBytes' = Len(text) /\ fileEvents' = Len(text)
      /\ UNCHANGED <<durableSequence, acknowledged, faults>>
  BY DEF Replace
<1>2. /\ text \in Seq(Nat) /\ Increasing(text) /\ queue # <<>>
      /\ \A n \in Range(text) : 0 < n /\ n <= durableSequence
  BY <1>1 DEF IInv, Types, QueueInv, FileInv
<1>3. FileIsOrdered'
  BY <1>1, <1>2 DEF FileIsOrdered, Increasing
<1>4. \A n \in Range(file') : n = 0 \/ (n \in Shown /\ n <= durableSequence')
  BY <1>1, <1>2 DEF Shown
<1>5. acknowledged' \subseteq Shown \cap 1..durableSequence'
  BY <1>1, FileShown DEF IInv, FileInv
<1>6. {fileBytes', fileEvents', failures', tears'} \subseteq Nat /\ torn' \in BOOLEAN
  <2>1. Len(text) \in Nat /\ failures \in Nat /\ tears \in Nat
    BY <1>2 DEF IInv, Types
  <2> QED BY <1>1, <2>1 DEF faults
<1>7. tears' = 0 =>
        /\ ~torn' /\ 0 \notin Range(file')
        /\ \A n \in Range(records) \cap acknowledged' : n \in Range(file')
  BY <1>1, <1>2 DEF IInv, WholeInv, faults
<1> QED BY <1>1, <1>2, <1>3, <1>4, <1>5, <1>6, <1>7, WriteEnds DEF faults

LEMMA ReplaceFailsInv ==
  ASSUME IInv, ReplaceFails
  PROVE  IInv'
<1>1. /\ text # NoText /\ text' = NoText /\ Finish /\ failures' = failures + 1
      /\ UNCHANGED <<file, torn, durableSequence, fileBytes, fileEvents, acknowledged, tears, crashes>>
  BY DEF ReplaceFails, disk
<1>2. queue # <<>>
  BY <1>1 DEF IInv, QueueInv
<1>3. FileIsOrdered'
  BY <1>1 DEF IInv, FileInv, FileIsOrdered
<1>4. \A n \in Range(file') : n = 0 \/ (n \in Shown /\ n <= durableSequence')
  BY <1>1, FileShown
<1>5. acknowledged' \subseteq Shown \cap 1..durableSequence'
  BY <1>1, FileShown DEF IInv, FileInv
<1>6. {fileBytes', fileEvents', failures', tears'} \subseteq Nat /\ torn' \in BOOLEAN /\ file' \in Seq(Nat)
  BY <1>1 DEF IInv, Types
<1>7. tears' = 0 =>
        /\ ~torn' /\ 0 \notin Range(file')
        /\ \A n \in Range(records) \cap acknowledged' : n \in Range(file')
  BY <1>1 DEF IInv, WholeInv
<1> QED BY <1>1, <1>2, <1>3, <1>4, <1>5, <1>6, <1>7, WriteEnds

-----------------------------------------------------------------------------
(* The restart.  What is loaded is the end of the file, in order. *)
Loaded(tail) == Sorted(Range(tail) \ {0})
IsTail(tail) == \E kept \in Nat : tail = ReadTail(kept)

LEMMA TailOfFile ==
  ASSUME IInv, NEW kept \in Nat
  PROVE  /\ ReadTail(kept) \in Seq(Nat)
         /\ Len(ReadTail(kept)) = IF Len(file) > MaxBytes /\ Len(file) > kept THEN kept ELSE Len(file)
         /\ \A i \in 1..Len(ReadTail(kept)) :
              ReadTail(kept)[i] = file[Len(file) - Len(ReadTail(kept)) + i]
<1>1. file \in Seq(Nat) /\ MaxBytes \in Nat
  BY Limits DEF IInv, Types
<1>2. CASE Len(file) > MaxBytes
  <2>1. ReadTail(kept) = LastN(file, kept)
    BY <1>2 DEF ReadTail
  <2> QED BY <1>1, <1>2, <2>1, LastOf
<1>3. CASE ~(Len(file) > MaxBytes)
  <2>1. ReadTail(kept) = file
    BY <1>3 DEF ReadTail
  <2> QED BY <1>1, <1>3, <2>1
<1> QED BY <1>2, <1>3

LEMMA LoadedOrdered ==
  ASSUME IInv, NEW tail, IsTail(tail)
  PROVE  /\ tail \in Seq(Nat) /\ Range(tail) \subseteq Range(file)
         /\ Loaded(tail) \in Seq(Nat \ {0}) /\ Increasing(Loaded(tail)) /\ Range(Loaded(tail)) = Range(tail) \ {0}
         /\ ~(Len(file) > MaxBytes) => tail = file
<1>0. PICK kept \in Nat : tail = ReadTail(kept)
  BY DEF IsTail
<1>1. file \in Seq(Nat) /\ MaxBytes \in Nat
  BY Limits DEF IInv, Types
<1>2. /\ tail \in Seq(Nat) /\ Len(tail) \in 0..Len(file)
      /\ \A i \in 1..Len(tail) : tail[i] = file[Len(file) - Len(tail) + i]
                                  /\ Len(file) - Len(tail) + i \in 1..Len(file)
  <2>1. /\ tail \in Seq(Nat) /\ Len(tail) \in 0..Len(file)
        /\ \A i \in 1..Len(tail) : tail[i] = file[Len(file) - Len(tail) + i]
    <3>1. /\ tail \in Seq(Nat)
          /\ Len(tail) = IF Len(file) > MaxBytes /\ Len(file) > kept THEN kept ELSE Len(file)
          /\ \A i \in 1..Len(tail) : tail[i] = file[Len(file) - Len(tail) + i]
      BY <1>0, TailOfFile
    <3>2. Len(file) \in Nat
      BY <1>1
    <3>3. (Len(tail) = kept /\ Len(file) > kept) \/ Len(tail) = Len(file)
      BY <3>1
    <3>4. Len(tail) \in 0..Len(file)
      BY <3>2, <3>3
    <3> QED BY <3>1, <3>4
  <2> QED BY <1>1, <2>1
<1>3. Range(tail) \subseteq Range(file) /\ Range(tail) \subseteq Nat
  <2> SUFFICES ASSUME NEW x \in Range(tail) PROVE x \in Range(file) /\ x \in Nat
    OBVIOUS
  <2>1. PICK i \in 1..Len(tail) : tail[i] = x
    BY <1>2, InRange
  <2>2. Len(file) - Len(tail) + i \in 1..Len(file) /\ file[Len(file) - Len(tail) + i] = x
    BY <1>2, <2>1
  <2> QED BY <1>1, <2>2, InRange
<1>4. IsFiniteSet(Range(tail))
  <2>1. tail \in Surjection(1..Len(tail), Range(tail))
    <3>1. DOMAIN tail = 1..Len(tail) /\ tail \in [1..Len(tail) -> Nat]
      BY <1>2
    <3>2. tail \in [1..Len(tail) -> Range(tail)]
      BY <3>1 DEF Range
    <3> QED BY <3>1, <3>2, Zenon DEF Surjection, Range
  <2>2. IsFiniteSet(1..Len(tail))
    BY <1>2, FS_Interval
  <2> QED BY <2>1, <2>2, FS_Surjection
<1>5. IsFiniteSet(Range(tail) \ {0})
  BY <1>4, FS_Subset
<1>6. Loaded(tail) \in Seq(Range(tail) \ {0}) /\ Range(Loaded(tail)) = Range(tail) \ {0} /\ Increasing(Loaded(tail))
  BY <1>3, <1>5, SortedSet DEF Loaded
<1>7. Loaded(tail) \in Seq(Nat \ {0})
  BY <1>3, <1>6
<1>8. ~(Len(file) > MaxBytes) => tail = file
  BY <1>0, <1>1 DEF ReadTail
<1> QED BY <1>2, <1>3, <1>6, <1>7, <1>8

LEMMA LastIsLargest ==
  ASSUME NEW s \in Seq(Nat), Increasing(s), NEW x \in Range(s)
  PROVE  s # <<>> /\ s[Len(s)] \in Nat /\ x <= s[Len(s)]
<1>1. PICK i \in 1..Len(s) : s[i] = x
  BY InRange
<1>2. Len(s) \in 1..Len(s) /\ s # <<>> /\ s[Len(s)] \in Nat /\ s[i] \in Nat /\ DOMAIN s = 1..Len(s)
  BY <1>1
<1>3. i < Len(s) => s[i] < s[Len(s)]
  BY <1>1, <1>2 DEF Increasing
<1>4. i <= Len(s) /\ i \in Nat /\ Len(s) \in Nat
  BY <1>1
<1> QED BY <1>1, <1>2, <1>3, <1>4

LEMMA RestartInv ==
  ASSUME IInv, Restart
  PROVE  IInv'
<1>0. PICK kept \in {MaxBytes - 1, MaxBytes} : RestartFrom(ReadTail(kept))
  BY DEF Restart
<1>a. PICK tail : tail = ReadTail(kept)
  OBVIOUS
<1> DEFINE l == LastN(Loaded(tail), Window)
           last == IF Loaded(tail) = <<>> THEN 0 ELSE Loaded(tail)[Len(Loaded(tail))]
<1>1. /\ sequence' = last /\ records' = l /\ durableSequence' = last
      /\ file' = IF Len(file) > MaxBytes THEN l ELSE file
      /\ torn' = (torn /\ ~(Len(file) > MaxBytes))
      /\ fileBytes' = Len(file') /\ fileEvents' = Len(l)
      /\ queue' = <<>> /\ text' = NoText /\ droppedWrites' = 0
      /\ acknowledged' = Range(l) /\ waiting' = FALSE /\ page' = <<>>
      /\ crashes' = crashes + 1 /\ UNCHANGED <<cursor, served, failures, tears>>
  BY <1>0, <1>a DEF RestartFrom, Loaded
<1>2. /\ Loaded(tail) \in Seq(Nat \ {0}) /\ Loaded(tail) \in Seq(Nat) /\ Increasing(Loaded(tail))
      /\ Range(Loaded(tail)) = Range(tail) \ {0} /\ Range(tail) \subseteq Range(file)
      /\ ~(Len(file) > MaxBytes) => tail = file
      /\ file \in Seq(Nat) /\ FileIsOrdered
  <2>1. IsTail(tail)
    <3>1. kept \in Nat
      BY Limits
    <3> QED BY <1>a, <3>1 DEF IsTail
  <2>2. Loaded(tail) \in Seq(Nat \ {0}) => Loaded(tail) \in Seq(Nat)
    OBVIOUS
  <2>3. /\ tail \in Seq(Nat) /\ Range(tail) \subseteq Range(file)
        /\ Loaded(tail) \in Seq(Nat \ {0}) /\ Increasing(Loaded(tail))
        /\ Range(Loaded(tail)) = Range(tail) \ {0}
        /\ ~(Len(file) > MaxBytes) => tail = file
    BY <2>1, LoadedOrdered, Zenon
  <2>4. file \in Seq(Nat) /\ FileIsOrdered
    BY DEF IInv, Types, FileInv
  <2> QED BY <2>2, <2>3, <2>4
<1>3. /\ l \in Seq(Nat \ {0}) /\ l \in Seq(Nat) /\ Len(l) <= Window /\ Increasing(l)
      /\ Range(l) \subseteq Range(Loaded(tail))
      /\ Loaded(tail) # <<>> => l # <<>> /\ l[Len(l)] = Loaded(tail)[Len(Loaded(tail))]
      /\ Loaded(tail) = <<>> => l = <<>>
      /\ \A x \in Range(Loaded(tail)), m \in Range(l) : m <= x => x \in Range(l)
  <2>1. Window \in Nat /\ Window > 0
    BY Limits
  <2>2. /\ l \in Seq(Nat \ {0}) /\ l \in Seq(Nat) /\ Len(l) <= Window
        /\ Loaded(tail) = <<>> => l = <<>>
    BY <1>2, <2>1, LastOf
  <2>3. /\ Increasing(l) /\ Range(l) \subseteq Range(Loaded(tail))
        /\ Loaded(tail) # <<>> => l # <<>> /\ l[Len(l)] = Loaded(tail)[Len(Loaded(tail))]
        /\ \A x \in Range(Loaded(tail)), m \in Range(l) : m <= x => x \in Range(l)
    BY <1>2, <2>1, LastRange
  <2> QED BY <2>2, <2>3
<1>4. last \in Nat /\ \A x \in Range(Loaded(tail)) : x \in Nat \ {0} /\ x <= last
  <2>1. Loaded(tail) # <<>> => Loaded(tail)[Len(Loaded(tail))] \in Nat
    BY <1>2
  <2>2. \A x \in Range(Loaded(tail)) : x \in Nat \ {0}
    BY <1>2, InRange
  <2> QED BY <1>2, <2>1, <2>2, LastIsLargest
<1>5. last = IF l = <<>> THEN 0 ELSE l[Len(l)]
  BY <1>3
<1> HIDE DEF l, last
<1>6. /\ file' \in Seq(Nat) /\ FileIsOrdered'
      /\ \A x \in Range(file') : x = 0 \/ x \in Range(Loaded(tail))
      /\ Range(l) \subseteq Range(file')
  <2>1. CASE Len(file) > MaxBytes
    BY <1>1, <1>3, <2>1 DEF FileIsOrdered, Increasing
  <2>2. CASE ~(Len(file) > MaxBytes)
    BY <1>1, <1>2, <1>3, <2>2 DEF FileIsOrdered
  <2> QED BY <2>1, <2>2
<1>7. text' \in Seq(Nat) /\ \A n \in Range(text') : n = 0
  BY <1>1 DEF NoText, Range
<1>8. Range(queue') = {} /\ queue' \in Seq(Nat \ {0}) /\ Increasing(queue)'
  BY <1>1 DEF Range, Increasing
<1>9. Types'
  <2>1. {sequence, durableSequence, fileBytes, fileEvents, droppedWrites}' \subseteq Nat
    BY <1>1, <1>3, <1>4, <1>6
  <2>2. torn' \in BOOLEAN /\ waiting' \in BOOLEAN
    BY <1>1, Zenon DEF IInv, Types
  <2>3. page' \in Seq(Nat \ {0})
    BY <1>1
  <2>4. acknowledged' \subseteq Nat
    BY <1>1, <1>3, <1>4
  <2>5. {cursor, served, failures, tears, crashes}' \subseteq Nat
    BY <1>1 DEF IInv, Types
  <2> QED BY <1>1, <1>3, <1>6, <1>7, <1>8, <2>1, <2>2, <2>3, <2>4, <2>5 DEF Types
<1>10. RingInv'
  BY <1>1, <1>3, <1>5 DEF RingInv, Increasing, IInv, Types
<1>11. QueueInv'
  BY <1>1, <1>4, <1>8 DEF QueueInv
<1>12. FileInv'
  BY <1>1, <1>3, <1>4, <1>6 DEF FileInv
<1>13. ShownInv'
  <2>1. \A n \in Shown' : n = 0 \/ n \in Range(Loaded(tail))
    BY <1>1, <1>3, <1>6, <1>7, <1>8 DEF Shown
  <2> QED BY <1>1, <1>3, <2>1 DEF ShownInv
<1>14. WholeInv'
  <2>1. CASE Len(file) > MaxBytes
    BY <1>1, <1>3, <1>4, <1>6, <2>1 DEF WholeInv
  <2>2. CASE ~(Len(file) > MaxBytes)
    BY <1>1, <1>6, <2>2 DEF IInv, WholeInv
  <2> QED BY <2>1, <2>2
<1>15. NobodyWaitsForNews'
  BY <1>1 DEF NobodyWaitsForNews
<1> QED BY <1>9, <1>10, <1>11, <1>12, <1>13, <1>14, <1>15 DEF IInv

-----------------------------------------------------------------------------
(* The client's steps.  What a client waits for is behind the whole ring. *)
LEMMA ClientStepInv ==
  ASSUME IInv, UNCHANGED <<ring, disk, writes, queue, droppedWrites, faults>>,
         ClientTypes', NobodyWaitsForNews'
  PROVE  IInv'
BY DEF IInv, Types, RingInv, QueueInv, FileInv, FileIsOrdered, ShownInv, Shown, WholeInv, Increasing,
   ClientTypes, ring, disk, writes, faults

LEMMA WaitInv ==
  ASSUME IInv, NEW limit \in 1..MaxLimit, Wait(limit)
  PROVE  IInv'
<1>1. /\ records \in Seq(Nat \ {0}) /\ records \in Seq(Nat) /\ Increasing(records)
      /\ sequence \in Nat /\ ClientTypes /\ limit \in Nat \ {0}
  BY Limits DEF IInv, Types, RingInv, ClientTypes
<1>2. UNCHANGED <<ring, disk, writes, queue, droppedWrites, faults>>
  BY DEF Wait
<1>3. CASE Answer(records, sequence, limit)
  <2>1. ClientTypes' /\ ~waiting'
    BY <1>1, <1>3, Answered
  <2> QED BY <1>2, <2>1, ClientStepInv DEF NobodyWaitsForNews
<1>4. CASE /\ ~Expired(cursor, records, sequence) /\ Behind(cursor, records, limit) = <<>>
           /\ waiting' = TRUE /\ page' = <<>> /\ UNCHANGED <<cursor, served>>
  <2>1. \A x \in Range(records) : x <= cursor
    BY <1>1, <1>4, BehindRange DEF ClientTypes
  <2>2. sequence <= cursor
    <3>1. CASE records = <<>>
      BY <1>1, <3>1 DEF IInv, RingInv, ClientTypes
    <3>2. CASE records # <<>>
      <4>1. Len(records) \in 1..Len(records) /\ sequence = records[Len(records)]
        BY <1>1, <3>2 DEF IInv, RingInv
      <4> QED BY <1>1, <2>1, <4>1, InRange
    <3> QED BY <3>1, <3>2
  <2>3. cursor = sequence
    BY <1>1, <1>4, <2>2 DEF Expired, ClientTypes
  <2>4. ClientTypes'
    BY <1>1, <1>4 DEF ClientTypes
  <2> QED BY <1>2, <1>4, <2>3, <2>4, ClientStepInv DEF NobodyWaitsForNews, ring
<1> QED BY <1>3, <1>4 DEF Wait

LEMMA WaitTimesOutInv ==
  ASSUME IInv, WaitTimesOut
  PROVE  IInv'
<1>1. records \in Seq(Nat \ {0}) /\ Increasing(records) /\ sequence \in Nat /\ ClientTypes
  BY DEF IInv, Types, RingInv, ClientTypes
<1>2. ClientTypes' /\ ~waiting'
  BY <1>1, Answered, Limits DEF WaitTimesOut
<1> QED BY <1>2, ClientStepInv DEF WaitTimesOut, NobodyWaitsForNews

-----------------------------------------------------------------------------
(* The invariant. *)
LEMMA InitInv == Init => IInv
<1> SUFFICES ASSUME Init PROVE IInv
  OBVIOUS
<1>1. Types
  <2>1. records \in Seq(Nat \ {0}) /\ queue \in Seq(Nat \ {0}) /\ page \in Seq(Nat \ {0})
    BY DEF Init
  <2>2. file \in Seq(Nat) /\ text \in Seq(Nat)
    BY DEF Init, NoText
  <2>3. torn \in BOOLEAN /\ waiting \in BOOLEAN
    BY DEF Init
  <2> QED BY <2>1, <2>2, <2>3 DEF Init, Types
<1>2. \A n \in Shown : n = 0
  BY DEF Init, Shown, Range, NoText
<1>3. RingInv
  BY Limits DEF Init, RingInv, Increasing
<1>4. QueueInv
  BY DEF Init, QueueInv, Increasing, Range
<1>5. FileInv
  BY DEF Init, FileInv, FileIsOrdered, Range
<1> QED BY <1>1, <1>2, <1>3, <1>4, <1>5 DEF Init, IInv, ShownInv, WholeInv, NobodyWaitsForNews, Range

LEMMA StepInv == IInv /\ [Next]_vars => IInv'
<1> SUFFICES ASSUME IInv, [Next]_vars PROVE IInv'
  OBVIOUS
<1>1. CASE Publish
  BY <1>1, PublishInv
<1>2. CASE Write
  BY <1>2, AppendLineInv, AppendFailsInv, AppendTearsInv, ReplaceInv, ReplaceFailsInv DEF Write
<1>3. CASE WaitTimesOut
  BY <1>3, WaitTimesOutInv
<1>4. CASE Restart
  BY <1>4, RestartInv
<1>5. CASE \E limit \in 1..MaxLimit : Wait(limit)
  BY <1>5, WaitInv
<1>6. CASE UNCHANGED vars
  BY <1>6, ClientStepInv DEF vars, client, IInv, Types, ClientTypes, NobodyWaitsForNews, ring
<1> QED BY <1>1, <1>2, <1>3, <1>4, <1>5, <1>6 DEF Next

LEMMA InvHolds == Spec => []IInv
BY InitInv, StepInv, PTL DEF Spec

-----------------------------------------------------------------------------
(* The lines of events.jsonl that parse are in the order of their numbers, each *)
(* there once: after any appends, failed or torn ones, compactions that take    *)
(* effect or do not, shed writes and kills (compact and init of EventStore).    *)
THEOREM FileStaysOrdered == Spec => []FileIsOrdered
<1>1. IInv => FileIsOrdered
  BY DEF IInv, FileInv
<1> QED BY <1>1, InvHolds, PTL

(* No request of wait is held back while the ring has an event it was not given. *)
THEOREM WaitersAreTold == Spec => []NobodyWaitsForNews
<1>1. IInv => NobodyWaitsForNews
  BY DEF IInv
<1> QED BY <1>1, InvHolds, PTL

(* What the ring holds of the file from one line on is no more than the ring, and *)
(* from its second line on less: neither the tail that init reads nor the ring it *)
(* fills leaves any of it out, but for the first line when the file is cut there. *)
LEMMA RestartRecovers ==
  ASSUME IInv, Restart, tears = 0
  PROVE  Recovered
<1>0. PICK kept \in {MaxBytes - 1, MaxBytes} : RestartFrom(ReadTail(kept))
  BY DEF Restart
<1>a. PICK tail : tail = ReadTail(kept)
  OBVIOUS
<1> DEFINE l == LastN(Loaded(tail), Window)
           ring_ == IF AtTheCut THEN Tail(records) ELSE records
<1>1. /\ records \in Seq(Nat) /\ Len(records) <= Window /\ file \in Seq(Nat)
      /\ \A i \in 1..Len(file) : file[i] # 0 /\ file[i] \in Range(file)
      /\ \A x \in Range(records) \cap acknowledged : x \in Range(file) /\ x \in Nat \ {0}
      /\ FileIsOrdered /\ Increasing(records)
  <2>1. records \in Seq(Nat \ {0}) /\ records \in Seq(Nat) /\ file \in Seq(Nat)
    BY DEF IInv, Types
  <2>2. 0 \notin Range(file) /\ \A x \in Range(records) \cap acknowledged : x \in Range(file)
    BY DEF IInv, WholeInv
  <2>3. \A x \in Range(records) : x \in Nat \ {0}
    BY <2>1, InRange
  <2>4. \A i \in 1..Len(file) : file[i] \in Range(file)
    BY <2>1, InRange
  <2> QED BY <2>1, <2>2, <2>3, <2>4 DEF IInv, RingInv, FileInv
<1>3. /\ Loaded(tail) \in Seq(Nat) /\ Increasing(Loaded(tail)) /\ Range(Loaded(tail)) = Range(tail) \ {0}
      /\ Range(tail) \subseteq Range(file) /\ records' = l
  <2>1. records' = LastN(Sorted(Range(tail) \ {0}), Window)
    BY <1>0, <1>a DEF RestartFrom
  <2>2. records' = l
    BY <2>1 DEF Loaded
  <2>3. Loaded(tail) \in Seq(Nat \ {0}) => Loaded(tail) \in Seq(Nat)
    OBVIOUS
  <2>4. IsTail(tail)
    <3>1. kept \in Nat
      BY Limits
    <3> QED BY <1>a, <3>1 DEF IsTail
  <2> HIDE DEF l
  <2> QED BY <2>2, <2>3, <2>4, LoadedOrdered
<1>4. /\ MaxBytes \in Nat \ {0} /\ Window \in Nat /\ Window <= MaxBytes /\ Len(records) \in Nat
      /\ kept \in Nat /\ (kept = MaxBytes \/ kept = MaxBytes - 1)
  BY <1>1, Limits
<1>14. /\ ring_ \in Seq(Nat) /\ Len(ring_) \in Nat /\ Len(ring_) <= Window
       /\ Len(file) > MaxBytes => Len(ring_) <= kept
       /\ Range(ring_) \subseteq Range(records)
       /\ \A y \in Range(records), x \in Range(ring_) : x <= y => y \in Range(ring_)
  <2>1. CASE ~AtTheCut
    BY <1>1, <1>4, <2>1 DEF AtTheCut
  <2>2. CASE AtTheCut
    <3>1. /\ Len(records) \in Nat \ {0} /\ Tail(records) \in Seq(Nat)
          /\ Len(Tail(records)) = Len(records) - 1
          /\ \A i \in 1..(Len(records) - 1) : Tail(records)[i] = records[i + 1]
      BY <1>1, <1>4, <2>2 DEF AtTheCut
    <3>3. Range(Tail(records)) \subseteq Range(records)
      <4> SUFFICES ASSUME NEW y \in Range(Tail(records)) PROVE y \in Range(records)
        OBVIOUS
      <4>1. PICK i \in 1..Len(Tail(records)) : Tail(records)[i] = y
        BY <3>1, InRange
      <4>2. i + 1 \in 1..Len(records) /\ records[i + 1] = y
        BY <3>1, <4>1
      <4> QED BY <1>1, <4>2, InRange
    <3>4. ASSUME NEW y \in Range(records), NEW x \in Range(Tail(records)), x <= y
          PROVE  y \in Range(Tail(records))
      <4>1. PICK i \in 1..Len(Tail(records)) : Tail(records)[i] = x
        BY <3>1, InRange
      <4>2. PICK j \in 1..Len(records) : records[j] = y
        BY <1>1, InRange
      <4>3. j # 1
        <5>1. 1 \in DOMAIN records /\ i + 1 \in DOMAIN records /\ 1 < i + 1 /\ records[i + 1] = x
          BY <1>1, <3>1, <4>1
        <5>2. records[1] < x /\ records[1] \in Nat /\ x \in Nat
          BY <1>1, <5>1 DEF Increasing
        <5> QED BY <3>4, <4>2, <5>2
      <4>4. j - 1 \in 1..Len(Tail(records)) /\ Tail(records)[j - 1] = y
        BY <3>1, <4>2, <4>3
      <4> QED BY <3>1, <4>4, InRange
    <3> QED BY <1>1, <1>4, <2>2, <3>1, <3>3, <3>4
  <2> QED BY <2>1, <2>2
<1>2. \A y \in Range(file), x \in Range(ring_) : x <= y /\ y > 0 => y \in Range(ring_)
  <2>1. \A y \in Range(file), x \in Range(records) : x <= y /\ y > 0 => y \in Range(records)
    BY DEF IInv, ShownInv, Shown
  <2> QED BY <1>14, <2>1
<1> SUFFICES ASSUME NEW x \in Range(ring_) \cap acknowledged PROVE x \in Range(l)
  BY <1>3 DEF Recovered
<1> HIDE DEF ring_
<1>5. x \in Nat \ {0} /\ x \in Range(file) /\ x \in Range(ring_)
  BY <1>1, <1>14
<1>6. x \in Range(Loaded(tail))
  <2>1. PICK k \in 1..Len(file) : file[k] = x
    BY <1>1, <1>5, InRange
  <2>2. \A i, j \in k..Len(file) : i < j => file[i] < file[j]
    <3> SUFFICES ASSUME NEW i \in k..Len(file), NEW j \in k..Len(file), i < j
                 PROVE  file[i] < file[j]
      OBVIOUS
    <3>1. i \in 1..Len(file) /\ j \in 1..Len(file)
      BY <2>1
    <3>2. file[i] > 0 /\ file[j] > 0
      BY <1>1, <3>1
    <3> QED BY <1>1, <3>1, <3>2 DEF FileIsOrdered
  <2>3. ASSUME NEW i \in k..Len(file) PROVE file[i] \in Range(ring_)
    <3>1. i \in 1..Len(file) /\ k \in k..Len(file) /\ i \in Nat /\ k \in Nat /\ k <= i
      BY <2>1
    <3>2. i = k \/ file[k] < file[i]
      BY <2>2, <3>1
    <3>3. file[i] \in Range(file) /\ file[i] \in Nat /\ file[i] # 0
      BY <1>1, <3>1
    <3> QED BY <1>2, <1>5, <2>1, <3>2, <3>3
  <2>4. Len(file) > MaxBytes => Len(file) - k + 1 <= kept
    <3>1. Len(file) - k + 1 <= Len(ring_)
      BY <1>1, <1>14, <2>1, <2>2, <2>3, Fits
    <3> QED BY <1>1, <1>4, <1>14, <2>1, <3>1
  <2>5. /\ tail \in Seq(Nat)
        /\ Len(tail) = IF Len(file) > MaxBytes /\ Len(file) > kept THEN kept ELSE Len(file)
        /\ \A i \in 1..Len(tail) : tail[i] = file[Len(file) - Len(tail) + i]
    BY <1>4, <1>a, TailOfFile
  <2> DEFINE i == k - (Len(file) - Len(tail))
  <2>6. i \in 1..Len(tail) /\ Len(file) - Len(tail) + i = k
    <3> DEFINE m == Len(file)
               t == Len(tail)
    <3>1. m \in Nat /\ k \in 1..m /\ (m > MaxBytes => m - k + 1 <= kept)
      BY <1>1, <2>1, <2>4
    <3>2. t = IF m > MaxBytes /\ m > kept THEN kept ELSE m
      BY <2>5
    <3> HIDE DEF m, t
    <3>3. k - (m - t) \in 1..t /\ m - t + (k - (m - t)) = k
      BY <1>4, <3>1, <3>2
    <3> QED BY <3>3 DEF m, t
  <2>7. tail[i] = x
    BY <2>1, <2>5, <2>6
  <2> HIDE DEF i
  <2> QED BY <1>3, <1>5, <2>5, <2>6, <2>7, InRange
<1>7. PICK k \in 1..Len(Loaded(tail)) : Loaded(tail)[k] = x
  BY <1>3, <1>6, InRange
<1>8. \A i, j \in k..Len(Loaded(tail)) : i < j => Loaded(tail)[i] < Loaded(tail)[j]
  <2> SUFFICES ASSUME NEW i \in k..Len(Loaded(tail)), NEW j \in k..Len(Loaded(tail)), i < j
               PROVE  Loaded(tail)[i] < Loaded(tail)[j]
    OBVIOUS
  <2>1. i \in DOMAIN Loaded(tail) /\ j \in DOMAIN Loaded(tail)
    BY <1>3, <1>7
  <2> QED BY <1>3, <2>1 DEF Increasing
<1>9. ASSUME NEW i \in k..Len(Loaded(tail)) PROVE Loaded(tail)[i] \in Range(ring_)
  <2>1. i \in 1..Len(Loaded(tail)) /\ k \in k..Len(Loaded(tail)) /\ i \in Nat /\ k \in Nat /\ k <= i
    BY <1>3, <1>7
  <2>2. i = k \/ Loaded(tail)[k] < Loaded(tail)[i]
    BY <1>8, <2>1
  <2>3. Loaded(tail)[i] \in Range(Loaded(tail)) /\ Loaded(tail)[i] \in Nat
    <3>1. Loaded(tail)[i] \in Range(Loaded(tail))
      BY <1>3, <2>1, InRange, Zenon
    <3>2. Loaded(tail)[i] \in Nat
      BY <1>3, <2>1
    <3> QED BY <3>1, <3>2
  <2>4. Loaded(tail)[i] \in Range(file) /\ Loaded(tail)[i] # 0
    BY <1>3, <2>3
  <2> QED BY <1>2, <1>5, <1>7, <2>2, <2>3, <2>4
<1>10. Len(Loaded(tail)) - k + 1 <= Window
  <2>1. Len(Loaded(tail)) - k + 1 <= Len(ring_)
    BY <1>14, <1>3, <1>7, <1>8, <1>9, Fits
  <2> QED BY <1>14, <1>3, <1>4, <1>7, <2>1
<1>11. /\ l \in Seq(Nat)
       /\ Len(l) = IF Len(Loaded(tail)) > Window THEN Window ELSE Len(Loaded(tail))
       /\ \A i \in 1..Len(l) : l[i] = Loaded(tail)[Len(Loaded(tail)) - Len(l) + i]
  BY <1>3, <1>4, LastOf
<1> HIDE DEF l
<1> DEFINE i == k - (Len(Loaded(tail)) - Len(l))
<1>12. i \in 1..Len(l) /\ Len(Loaded(tail)) - Len(l) + i = k
  <2> DEFINE m == Len(Loaded(tail))
             t == Len(l)
  <2>1. m \in Nat /\ k \in 1..m /\ m - k + 1 <= Window
    BY <1>3, <1>7, <1>10
  <2>2. t = IF m > Window THEN Window ELSE m
    BY <1>11
  <2> HIDE DEF m, t
  <2>3. k - (m - t) \in 1..t /\ m - t + (k - (m - t)) = k
    BY <1>4, <2>1, <2>2
  <2> QED BY <2>3 DEF m, t
<1>13. l[i] = x
  BY <1>7, <1>11, <1>12
<1> HIDE DEF i
<1> QED BY <1>11, <1>12, <1>13, InRange

(* An event that readers could find and whose append had succeeded is in the ring *)
(* again after a kill, as long as no append has failed half-way through its line, *)
(* but for the first of a ring that holds as much as init reads of a longer file. *)
THEOREM WholeLinesAreRecovered == Spec => WholeLinesSurvive
<1>1. IInv /\ [Next]_vars => [crashes' # crashes /\ tears = 0 => Recovered]_vars
  <2> SUFFICES ASSUME IInv, Next, crashes' # crashes, tears = 0 PROVE Recovered
    BY DEF vars
  <2>1. Restart
    BY DEF Next, Publish, Write, AppendLine, AppendFails, AppendTears, Replace, ReplaceFails,
       WaitTimesOut, Wait, faults
  <2> QED BY <2>1, RestartRecovers
<1> QED BY <1>1, InvHolds, PTL DEF Spec, WholeLinesSurvive

-----------------------------------------------------------------------------
(* Every answer is a page of the ring as the step leaves it. *)
LEMMA PageIsOfRing ==
  ASSUME IInv, Next, page' # page, crashes' = crashes
  PROVE  \E limit \in 1..MaxLimit :
           \/ Answer(records', sequence', limit)
           \/ waiting' = TRUE /\ page' = <<>> /\ cursor' = cursor
<1>1. MaxLimit \in 1..MaxLimit
  BY Limits
<1>2. CASE \E limit \in 1..MaxLimit : Wait(limit)
  BY <1>2 DEF Wait, ring, Answer
<1>3. CASE WaitTimesOut
  BY <1>1, <1>3 DEF WaitTimesOut, ring, Answer
<1>4. CASE EmitEvent
  BY <1>1, <1>4 DEF EmitEvent, client
<1>5. CASE Restart
  BY <1>5 DEF Restart, RestartFrom, IInv, Types
<1>6. CASE UNCHANGED client
  BY <1>6 DEF client
<1> QED BY <1>2, <1>3, <1>4, <1>5, <1>6
        DEF Next, Publish, Shed, Write, AppendLine, AppendFails, AppendTears, Replace, ReplaceFails, Finish

LEMMA SkipsNothing ==
  ASSUME IInv, IInv', Next, cursor > 0, page' # page, crashes' = crashes,
         NEW n \in Missed(cursor, page')
  PROVE  n \notin acknowledged /\ crashes # 0
<1>1. page' # <<>>
  BY DEF Missed
<1>2. PICK limit \in 1..MaxLimit : Answer(records', sequence', limit)
  BY <1>1, PageIsOfRing
<1>3. /\ records' \in Seq(Nat \ {0}) /\ Increasing(records') /\ sequence' \in Nat
      /\ ClientTypes /\ limit \in Nat \ {0}
  BY Limits DEF IInv, Types, RingInv, ClientTypes, Increasing
<1>4. /\ n \notin Range(records') /\ n > 0 /\ \E m \in Range(records') : m <= n
      /\ n >= records'[1] /\ page'[Len(page')] \in Range(records')
  BY <1>1, <1>2, <1>3, PageIsWhole
<1>5. n \notin acknowledged'
  BY <1>4 DEF IInv, ShownInv, Shown
<1>6. acknowledged \subseteq acknowledged'
  <2>1. ~Restart
    BY DEF Restart, RestartFrom, IInv, Types
  <2> QED BY <2>1 DEF Next, Publish, Write, AppendLine, AppendFails, AppendTears, Replace, ReplaceFails,
                      WaitTimesOut, Wait, writes
<1>7. n \in 1..sequence'
  <2>1. /\ page'[Len(page')] \in Nat /\ n \in (cursor + 1)..page'[Len(page')]
    <3>1. page' \in Seq(Nat \ {0})
      BY DEF IInv, Types
    <3>2. page'[Len(page')] \in Nat
      BY <1>1, <3>1
    <3> QED BY <1>1, <3>2 DEF Missed
  <2>2. page'[Len(page')] <= sequence'
    BY <1>3, <1>4, LastIsLargest DEF IInv, RingInv
  <2> QED BY <1>3, <2>1, <2>2 DEF ClientTypes
<1>8. crashes' # 0
  BY <1>4, <1>7 DEF IInv, RingInv
<1> QED BY <1>5, <1>6, <1>8

(* A reader that is told of no expiry is given every event behind its cursor, but *)
(* for those of an earlier run of the daemon that never reached the file.         *)
THEOREM ReadersMissNothing == Spec => NothingIsSkipped
<1>1. IInv /\ IInv' /\ [Next]_vars =>
        [cursor > 0 /\ page' # page /\ crashes' = crashes =>
           /\ Missed(cursor, page') \cap acknowledged = {}
           /\ crashes = 0 => Missed(cursor, page') = {}]_vars
  BY SkipsNothing
<1> QED BY <1>1, InvHolds, PTL DEF Spec, NothingIsSkipped
=============================================================================
